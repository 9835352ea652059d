--------------------------- MODULE CIRBuilder_proofs ---------------------------
(***************************************************************************)
(* Proofs about the generation of the CIR, for every file, every set of    *)
(* names and every tree.  First what the operations of FileCIR preserve    *)
(* and return: from a well formed file an operation makes a well formed    *)
(* file, with so many blocks and this insert point.  Then the inductive    *)
(* invariant IInv of CIRProperties, and what follows from it.  Last the    *)
(* two static stacks, blocksForBreak and Scopes: BreaksMatchLoops,         *)
(* ScopesExact and DefersApart are inductive together with IInv; each      *)
(* action is one of a few ways to change the activations, and a lemma is   *)
(* proved for each way.                                                    *)
(***************************************************************************)
EXTENDS CIRProperties, Sequences_proofs

-----------------------------------------------------------------------------
(* The operations on a file.                                               *)

\* What refers to a smaller file refers to a larger one.
LEMMA FileGrows ==
    ASSUME NEW m \in Nat, NEW n \in Nat, NEW p \in Nat, NEW q \in Nat, m <= p, n <= q
    PROVE  /\ Seq(1..m) \subseteq Seq(1..p)
           /\ Instruction(n) \subseteq Instruction(q)
           /\ BasicBlock(m, n) \subseteq BasicBlock(p, q)
           /\ FileCIR(m, n) \subseteq FileCIR(p, q)
<1>1. \A j, k \in Nat : j <= k => Seq(1..j) \subseteq Seq(1..k)
  OBVIOUS
<1>2. Instruction(n) \subseteq Instruction(q)
  BY <1>1 DEF Instruction
<1>3. BasicBlock(m, n) \subseteq BasicBlock(p, q)
  BY <1>1 DEF BasicBlock
<1>4. Seq(Instruction(n)) \subseteq Seq(Instruction(q))
  BY <1>2
<1>5. Seq(BasicBlock(m, n)) \subseteq Seq(BasicBlock(p, q))
  BY <1>3
<1>6. Seq(Seq(1..n)) \subseteq Seq(Seq(1..q))
  BY <1>1
<1>. QED
  BY <1>1, <1>2, <1>3, <1>4, <1>5, <1>6 DEF FileCIR

Good(c) == WellFormed(c) /\ Recorded(c)

\* Branches stay recorded in a file d made from c when blocks lose instructions
\* but no predecessors, and new blocks are empty.
LEMMA RecordedLemma ==
    ASSUME NEW c, Good(c), NEW d, WellFormed(d),
           Len(c.instr) <= Len(d.instr),
           \A k \in 1..Len(c.instr) : d.instr[k] = c.instr[k],
           Len(c.blk) <= Len(d.blk),
           \A b \in 1..Len(c.blk) : /\ ToSet(d.blk[b].ins) \subseteq ToSet(c.blk[b].ins)
                                    /\ c.blk[b].preds \subseteq d.blk[b].preds,
           \A b \in 1..Len(d.blk) : b > Len(c.blk) => d.blk[b].ins = << >>
    PROVE  Good(d)
<1>1. SUFFICES ASSUME NEW b \in 1..Len(d.blk), NEW k \in ToSet(d.blk[b].ins),
                      NEW t \in Targets(d.instr[k])
               PROVE  t \in 1..Len(d.blk) /\ b \in d.blk[t].preds
  <2>1. DOMAIN d.blk = 1..Len(d.blk)
    BY DEF WellFormed, FileCIR
  <2>. QED
    BY <2>1 DEF Good, Recorded, Successors
<1>2. Len(c.blk) \in Nat /\ Len(d.blk) \in Nat /\ DOMAIN c.blk = 1..Len(c.blk)
  BY DEF Good, WellFormed, FileCIR
<1>3. b \in 1..Len(c.blk) /\ k \in ToSet(c.blk[b].ins)
  <2>1. d.blk[b].ins # << >>
    BY DEF ToSet
  <2>2. b \in 1..Len(c.blk)
    BY <1>2, <2>1
  <2>. QED
    BY <2>2
<1>4. k \in 1..Len(c.instr)
  <2>1. c.blk[b] \in BasicBlock(Len(c.instr), Len(c.blk))
    BY <1>3 DEF Good, WellFormed, FileCIR
  <2>2. c.blk[b].ins \in Seq(1..Len(c.instr))
    BY <2>1 DEF BasicBlock
  <2>. QED
    BY <1>3, <2>2, SMTT(30) DEF ToSet
<1>5. t \in Successors(c, b)
  BY <1>3, <1>4 DEF Successors
<1>. QED
  BY <1>2, <1>3, <1>5, SMTT(30) DEF Good, Recorded

-----------------------------------------------------------------------------
(* Construction.                                                           *)

\* A new block object is the last one, and empty; it is in no function yet.
LEMMA NewBlockLemma ==
    ASSUME NEW c, Good(c), NEW base \in BlockNames
    PROVE  LET d == NewBlock(c, base)
           IN  /\ Good(d)
               /\ Len(d.blk) = Len(c.blk) + 1 /\ LastBlock(d) = Len(c.blk) + 1
               /\ d.cur = c.cur /\ d.fun = c.fun
<1>. DEFINE m == Len(c.instr)
            n == Len(c.blk)
            b == [name |-> <<base, 0>>, ins |-> << >>, preds |-> {}]
            d == NewBlock(c, base)
<1>1. m \in Nat /\ n \in Nat /\ c \in FileCIR(m, n)
  BY DEF Good, WellFormed, FileCIR
<1>2. c \in FileCIR(m, n + 1)
  BY <1>1, FileGrows
<1>3. b \in BasicBlock(m, n + 1)
  BY <1>1 DEF BasicBlock
<1>4. Append(c.blk, b) \in Seq(BasicBlock(m, n + 1)) /\ Len(Append(c.blk, b)) = n + 1
  BY <1>1, <1>2, <1>3 DEF FileCIR
<1>5. /\ d.blk = Append(c.blk, b) /\ d \in FileCIR(m, n + 1)
      /\ d.cur = c.cur /\ d.fun = c.fun /\ d.instr = c.instr
  BY <1>2, <1>4 DEF FileCIR, NewBlock
<1>6. /\ \A k \in 1..n : d.blk[k] = c.blk[k]
      /\ \A k \in 1..(n + 1) : k > n => d.blk[k].ins = << >>
  <2>1. c.blk \in Seq(BasicBlock(m, n))
    BY <1>1 DEF FileCIR
  <2>2. d.blk[n + 1] = b
    BY <1>5, <2>1
  <2>. QED
    BY <1>1, <1>5, <2>1, <2>2
<1>7. WellFormed(d)
  BY <1>4, <1>5 DEF WellFormed
<1>8. Good(d)
  <2>1. /\ Len(c.instr) <= Len(d.instr) /\ Len(c.blk) <= Len(d.blk)
        /\ \A k \in 1..Len(c.instr) : d.instr[k] = c.instr[k]
        /\ \A k \in 1..Len(c.blk) : /\ ToSet(d.blk[k].ins) \subseteq ToSet(c.blk[k].ins)
                                    /\ c.blk[k].preds \subseteq d.blk[k].preds
        /\ \A k \in 1..Len(d.blk) : k > Len(c.blk) => d.blk[k].ins = << >>
    BY <1>1, <1>4, <1>5, <1>6
  <2>. HIDE DEF d
  <2>. QED
    BY <1>7, <2>1, RecordedLemma
<1>. QED
  BY <1>1, <1>4, <1>5, <1>8 DEF LastBlock

\* Moving the insert point to a block of the file.
LEMMA SetInsertPointLemma ==
    ASSUME NEW c, Good(c), NEW b \in 1..Len(c.blk)
    PROVE  LET d == SetInsertPoint(c, b)
           IN  /\ Good(d)
               /\ Len(d.blk) = Len(c.blk) /\ d.cur = b /\ d.fun = c.fun
<1>. DEFINE d == SetInsertPoint(c, b)
<1>1. WellFormed(d) /\ d.cur = b /\ d.fun = c.fun /\ d.blk = c.blk /\ d.instr = c.instr
  BY SMTT(30) DEF SetInsertPoint, Good, WellFormed, FileCIR
<1>2. Good(d)
  BY <1>1 DEF Good, Recorded, Successors
<1>. QED
  BY <1>1, <1>2

\* Starting a function: no block of it, no insert point.
LEMMA AddFunctionLemma ==
    ASSUME NEW c, Good(c)
    PROVE  LET d == AddFunction(c)
           IN  /\ Good(d)
               /\ Len(d.blk) = Len(c.blk) /\ Len(d.fun) = Len(c.fun) + 1
<1>. DEFINE m == Len(c.instr)
            n == Len(c.blk)
            fun == Append(c.fun, << >>)
            d == AddFunction(c)
<1>1. m \in Nat /\ n \in Nat /\ c \in FileCIR(m, n) /\ c.fun \in Seq(Seq(1..n))
  BY DEF Good, WellFormed, FileCIR
<1>2. fun \in Seq(Seq(1..n)) /\ Len(fun) = Len(c.fun) + 1
  <2>1. << >> \in Seq(1..n)
    OBVIOUS
  <2>. QED
    BY <1>1, <2>1
<1>3. d = [c EXCEPT !.fun = fun, !.cur = 0] /\ 0 \in 0..n
  BY <1>1 DEF AddFunction
<1>4. d \in FileCIR(m, n) /\ d.blk = c.blk /\ d.fun = fun /\ d.instr = c.instr
  <2>. HIDE DEF fun, d
  <2>. QED
    BY <1>1, <1>2, <1>3 DEF FileCIR
<1>5. Good(d)
  BY <1>4 DEF Good, WellFormed, Recorded, Successors
<1>. QED
  BY <1>2, <1>4, <1>5

\* Adding a block to the function, under a name of its own.
LEMMA AddBasicBlockLemma ==
    ASSUME NEW c, Good(c), NEW b \in 1..Len(c.blk), Len(c.fun) > 0
    PROVE  LET d == AddBasicBlock(c, b)
           IN  /\ Good(d)
               /\ Len(d.blk) = Len(c.blk) /\ d.cur = c.cur /\ Len(d.fun) = Len(c.fun)
<1>. DEFINE m == Len(c.instr)
            n == Len(c.blk)
            F == CurrentFunction(c)
            taken == \E k \in DOMAIN c.fun[F] : c.blk[c.fun[F][k]].name = c.blk[b].name
            name == IF taken THEN <<c.blk[b].name[1], c.named>> ELSE c.blk[b].name
            named == IF taken THEN c.named + 1 ELSE c.named
            blk == [c.blk EXCEPT ![b].name = name]
            fun == [c.fun EXCEPT ![F] = Append(@, b)]
            d == AddBasicBlock(c, b)
<1>1. /\ m \in Nat /\ n \in Nat /\ c \in FileCIR(m, n) /\ F \in DOMAIN c.fun
      /\ c.fun \in Seq(Seq(1..n)) /\ c.blk \in Seq(BasicBlock(m, n)) /\ c.named \in Nat
  BY DEF Good, WellFormed, FileCIR, CurrentFunction
<1>2. c.blk[b] \in BasicBlock(m, n)
  BY <1>1
<1>3. name \in BlockNames \X Nat /\ named \in Nat
  <2>1. c.blk[b].name \in BlockNames \X Nat
    BY <1>2 DEF BasicBlock
  <2>2. <<c.blk[b].name[1], c.named>> \in BlockNames \X Nat
    BY <1>1, <2>1
  <2>. HIDE DEF taken
  <2>. QED
    BY <1>1, <2>1, <2>2
<1>4. [c.blk[b] EXCEPT !.name = name] \in BasicBlock(m, n)
  <2>. HIDE DEF name
  <2>. QED
    BY <1>2, <1>3 DEF BasicBlock
<1>5. blk \in Seq(BasicBlock(m, n)) /\ Len(blk) = n
  BY <1>1, <1>4
<1>6. Append(c.fun[F], b) \in Seq(1..n)
  BY <1>1
<1>7. fun \in Seq(Seq(1..n)) /\ Len(fun) = Len(c.fun)
  BY <1>1, <1>6
<1>8. d = [c EXCEPT !.blk = blk, !.named = named, !.fun = fun]
  BY <1>1 DEF AddBasicBlock, FileCIR
<1>9. /\ d \in FileCIR(m, n) /\ d.blk = blk /\ d.fun = fun
      /\ d.cur = c.cur /\ d.instr = c.instr
  <2>. HIDE DEF blk, fun, named, d
  <2>. QED
    BY <1>1, <1>3, <1>5, <1>7, <1>8 DEF FileCIR
<1>10. \A k \in 1..n : d.blk[k].ins = c.blk[k].ins /\ d.blk[k].preds = c.blk[k].preds
  <2>. HIDE DEF name, d
  <2>1. /\ [c.blk[b] EXCEPT !.name = name].ins = c.blk[b].ins
        /\ [c.blk[b] EXCEPT !.name = name].preds = c.blk[b].preds
    BY <1>2 DEF BasicBlock
  <2>2. \A k \in 1..n :
           d.blk[k] = IF k = b THEN [c.blk[b] EXCEPT !.name = name] ELSE c.blk[k]
    BY <1>1, <1>9
  <2>. QED
    BY <2>1, <2>2
<1>11. WellFormed(d)
  BY <1>5, <1>9 DEF WellFormed
<1>12. Good(d)
  <2>. HIDE DEF blk, d
  <2>1. /\ Len(c.instr) <= Len(d.instr) /\ Len(c.blk) <= Len(d.blk)
        /\ \A k \in 1..Len(c.instr) : d.instr[k] = c.instr[k]
        /\ \A k \in 1..Len(c.blk) : /\ ToSet(d.blk[k].ins) \subseteq ToSet(c.blk[k].ins)
                                    /\ c.blk[k].preds \subseteq d.blk[k].preds
        /\ \A k \in 1..Len(d.blk) : k > Len(c.blk) => d.blk[k].ins = << >>
    BY <1>1, <1>5, <1>9, <1>10
  <2>. QED
    BY <1>11, <2>1, RecordedLemma
<1>. QED
  BY <1>5, <1>7, <1>9, <1>12

\* An instruction goes to the insert point.
LEMMA AddInstructionLemma ==
    ASSUME NEW c, Good(c), c.cur # 0, NEW i \in Instruction(Len(c.blk)),
           \A t \in Targets(i) : c.cur \in c.blk[t].preds
    PROVE  LET d == AddInstruction(c, i)
           IN  /\ Good(d)
               /\ Len(d.blk) = Len(c.blk) /\ d.cur = c.cur /\ d.fun = c.fun
               /\ Len(d.instr) = Len(c.instr) + 1
<1>. DEFINE m == Len(c.instr)
            n == Len(c.blk)
            instr == Append(c.instr, i)
            blk == [c.blk EXCEPT ![c.cur].ins = Append(@, m + 1)]
            d == AddInstruction(c, i)
<1>1. m \in Nat /\ n \in Nat /\ c \in FileCIR(m, n) /\ c.instr \in Seq(Instruction(n))
  BY DEF Good, WellFormed, FileCIR
<1>2. c \in FileCIR(m + 1, n) /\ c.cur \in 1..n /\ c.blk \in Seq(BasicBlock(m + 1, n))
  <2>1. c \in FileCIR(m + 1, n)
    BY <1>1, FileGrows
  <2>. QED
    BY <2>1 DEF FileCIR
<1>3. instr \in Seq(Instruction(n)) /\ Len(instr) = m + 1
  BY <1>1
<1>4. c.blk[c.cur] \in BasicBlock(m + 1, n) /\ c.blk[c.cur].ins \in Seq(1..m + 1)
  <2>1. c.blk[c.cur] \in BasicBlock(m + 1, n)
    BY <1>2
  <2>. QED
    BY <2>1 DEF BasicBlock
<1>5. Append(c.blk[c.cur].ins, m + 1) \in Seq(1..m + 1)
  BY <1>1, <1>4
<1>6. [c.blk[c.cur] EXCEPT !.ins = Append(@, m + 1)] \in BasicBlock(m + 1, n)
  BY <1>4, <1>5 DEF BasicBlock
<1>7. blk \in Seq(BasicBlock(m + 1, n)) /\ Len(blk) = n
  BY <1>2, <1>6
<1>8. d = [c EXCEPT !.instr = instr, !.blk = blk]
  BY <1>1 DEF AddInstruction, FileCIR
<1>9. /\ d \in FileCIR(m + 1, n) /\ d.blk = blk /\ d.instr = instr
      /\ d.cur = c.cur /\ d.fun = c.fun
  <2>. HIDE DEF blk, instr, d
  <2>. QED
    BY <1>2, <1>3, <1>7, <1>8 DEF FileCIR
<1>10. WellFormed(d)
  BY <1>3, <1>7, <1>9 DEF WellFormed
<1>11. ASSUME NEW b \in 1..n, NEW k \in DOMAIN d.blk[b].ins,
              NEW t \in Targets(d.instr[d.blk[b].ins[k]])
       PROVE  t \in 1..n /\ b \in d.blk[t].preds
  <2>1. \A j \in 1..n : c.blk[j] \in BasicBlock(m, n) /\ c.blk[j].ins \in Seq(1..m)
    <3>1. \A j \in 1..n : c.blk[j] \in BasicBlock(m, n)
      BY <1>1 DEF FileCIR
    <3>. QED
      BY <3>1 DEF BasicBlock
  <2>. DEFINE new == [c.blk[c.cur] EXCEPT !.ins = Append(@, m + 1)]
  <2>2. new.ins = Append(c.blk[c.cur].ins, m + 1) /\ new.preds = c.blk[c.cur].preds
    BY <1>4 DEF BasicBlock
  <2>3. \A j \in 1..n : d.blk[j] = IF j = c.cur THEN new ELSE c.blk[j]
    <3>1. blk = [c.blk EXCEPT ![c.cur] = new]
      OBVIOUS
    <3>. HIDE DEF d, new, blk
    <3>. QED
      BY <1>1, <1>2, <1>9, <3>1
  <2>. HIDE DEF new, d, blk, instr
  <2>10. \A j \in 1..n : d.blk[j].preds = c.blk[j].preds
    BY <2>2, <2>3
  <2>11. d.blk[b].ins = IF b = c.cur THEN Append(c.blk[b].ins, m + 1) ELSE c.blk[b].ins
    BY <2>2, <2>3
  <2>12. c.blk[b].ins \in Seq(1..m)
    BY <2>1
  <2>14. /\ DOMAIN Append(c.blk[b].ins, m + 1) = 1..(Len(c.blk[b].ins) + 1)
         /\ Append(c.blk[b].ins, m + 1)[Len(c.blk[b].ins) + 1] = m + 1
         /\ \A j \in 1..Len(c.blk[b].ins) : Append(c.blk[b].ins, m + 1)[j] = c.blk[b].ins[j]
         /\ DOMAIN c.blk[b].ins = 1..Len(c.blk[b].ins) /\ Len(c.blk[b].ins) \in Nat
         /\ \A j \in 1..Len(c.blk[b].ins) : c.blk[b].ins[j] \in 1..m
    <3>. DEFINE ins == c.blk[b].ins
    <3>1. ins \in Seq(Nat) /\ m + 1 \in Nat /\ ins \in Seq(1..m)
      BY <1>1, <2>12
    <3>. HIDE DEF ins
    <3>2. /\ DOMAIN Append(ins, m + 1) = 1..(Len(ins) + 1)
          /\ Append(ins, m + 1)[Len(ins) + 1] = m + 1
          /\ \A j \in 1..Len(ins) : Append(ins, m + 1)[j] = ins[j]
          /\ DOMAIN ins = 1..Len(ins) /\ Len(ins) \in Nat
          /\ \A j \in 1..Len(ins) : ins[j] \in 1..m
      BY <3>1, SMTT(30)
    <3>. QED
      BY <3>2 DEF ins
  <2>13. instr[m + 1] = i /\ \A j \in 1..m : instr[j] = c.instr[j]
    BY <1>1 DEF instr
  <2>4. CASE b = c.cur /\ k = Len(c.blk[b].ins) + 1
    <3>1. d.blk[b].ins[k] = m + 1
      BY <2>4, <2>11, <2>14
    <3>2. d.instr[d.blk[b].ins[k]] = i
      BY <1>9, <2>13, <3>1
    <3>3. t \in 1..n
      BY <3>2 DEF Targets, ToSet, Instruction
    <3>. QED
      BY <2>4, <2>10, <3>2, <3>3
  <2>5. CASE ~(b = c.cur /\ k = Len(c.blk[b].ins) + 1)
    <3>1. k \in DOMAIN c.blk[b].ins /\ d.blk[b].ins[k] = c.blk[b].ins[k]
      <4>1. CASE b = c.cur
        <5>1. d.blk[b].ins = Append(c.blk[b].ins, m + 1)
          BY <2>11, <4>1
        <5>2. k \in 1..(Len(c.blk[b].ins) + 1) /\ k # Len(c.blk[b].ins) + 1
          BY <2>5, <2>14, <4>1, <5>1
        <5>3. k \in 1..Len(c.blk[b].ins)
          BY <2>14, <5>2
        <5>. QED
          BY <2>14, <5>1, <5>3
      <4>2. CASE b # c.cur
        BY <2>11, <2>14, <4>2
      <4>. QED
        BY <4>1, <4>2
    <3>2. d.instr[d.blk[b].ins[k]] = c.instr[c.blk[b].ins[k]]
      BY <1>9, <2>14, <2>13, <3>1
    <3>3. t \in Successors(c, b)
      BY <3>1, <3>2 DEF Successors, ToSet
    <3>. QED
      BY <1>2, <2>10, <3>3 DEF Good, Recorded
  <2>. QED
    BY <2>4, <2>5
<1>12. Good(d)
  <2>1. DOMAIN d.blk = 1..n
    BY <1>7, <1>9
  <2>. QED
    BY <1>10, <1>11, <2>1 DEF Good, Recorded, Successors, ToSet
<1>. QED
  BY <1>3, <1>7, <1>9, <1>12

\* Recording a predecessor.
LEMMA AddPredLemma ==
    ASSUME NEW c, Good(c), NEW b \in 1..Len(c.blk), NEW p \in 1..Len(c.blk)
    PROVE  LET d == AddPred(c, b, p)
           IN  /\ Good(d) /\ p \in d.blk[b].preds
               /\ \A k \in 1..Len(c.blk) : c.blk[k].preds \subseteq d.blk[k].preds
               /\ Len(d.blk) = Len(c.blk) /\ d.cur = c.cur /\ d.fun = c.fun
<1>. DEFINE m == Len(c.instr)
            n == Len(c.blk)
            blk == [c.blk EXCEPT ![b].preds = @ \union {p}]
            d == AddPred(c, b, p)
<1>1. m \in Nat /\ n \in Nat /\ c \in FileCIR(m, n) /\ c.blk \in Seq(BasicBlock(m, n))
  BY DEF Good, WellFormed, FileCIR
<1>2. [c.blk[b] EXCEPT !.preds = @ \union {p}] \in BasicBlock(m, n)
  <2>1. c.blk[b] \in BasicBlock(m, n)
    BY <1>1
  <2>. QED
    BY <2>1 DEF BasicBlock
<1>3. blk \in Seq(BasicBlock(m, n)) /\ Len(blk) = n
  BY <1>1, <1>2
<1>4. d = [c EXCEPT !.blk = blk]
  BY <1>1 DEF AddPred, FileCIR
<1>5. /\ d \in FileCIR(m, n) /\ d.blk = blk /\ d.cur = c.cur /\ d.fun = c.fun
      /\ d.instr = c.instr
  <2>. HIDE DEF blk, d
  <2>. QED
    BY <1>1, <1>3, <1>4 DEF FileCIR
<1>6. /\ \A k \in 1..n : d.blk[k].ins = c.blk[k].ins /\ c.blk[k].preds \subseteq d.blk[k].preds
      /\ p \in d.blk[b].preds
  <2>. DEFINE new == [c.blk[b] EXCEPT !.preds = @ \union {p}]
  <2>1. new.ins = c.blk[b].ins /\ new.preds = c.blk[b].preds \union {p}
    <3>1. c.blk[b] \in BasicBlock(m, n)
      BY <1>1
    <3>. QED
      BY <3>1 DEF BasicBlock
  <2>2. \A k \in 1..n : d.blk[k] = IF k = b THEN new ELSE c.blk[k]
    BY <1>1, <1>5
  <2>. HIDE DEF d, new
  <2>. QED
    BY <1>1, <2>1, <2>2
<1>7. WellFormed(d)
  BY <1>3, <1>5 DEF WellFormed
<1>8. Good(d)
  <2>. HIDE DEF blk, d
  <2>1. /\ Len(c.instr) <= Len(d.instr) /\ Len(c.blk) <= Len(d.blk)
        /\ \A k \in 1..Len(c.instr) : d.instr[k] = c.instr[k]
        /\ \A k \in 1..Len(c.blk) : /\ ToSet(d.blk[k].ins) \subseteq ToSet(c.blk[k].ins)
                                    /\ c.blk[k].preds \subseteq d.blk[k].preds
        /\ \A k \in 1..Len(d.blk) : k > Len(c.blk) => d.blk[k].ins = << >>
    BY <1>1, <1>3, <1>5, <1>6
  <2>. QED
    BY <1>7, <2>1, RecordedLemma
<1>. QED
  BY <1>3, <1>5, <1>6, <1>8

\* A reference made from a position and an instruction of the file.
LEMMA LastRefLemma ==
    ASSUME NEW c, WellFormed(c), Len(c.fun) > 0
    PROVE  LastRef(c) \in InstrRef
<1>. DEFINE F == CurrentFunction(c)
            I == UNION {ToSet(c.blk[b].ins) : b \in ToSet(c.fun[F])}
<1>1. c.fun[F] \in Seq(1..Len(c.blk)) /\ Len(c.blk) \in Nat /\ Len(c.instr) \in Nat
  BY DEF WellFormed, FileCIR, CurrentFunction
<1>2. \A b \in 1..Len(c.blk) : c.blk[b].ins \in Seq(1..Len(c.instr))
  <2>1. \A b \in 1..Len(c.blk) : c.blk[b] \in BasicBlock(Len(c.instr), Len(c.blk))
    BY DEF WellFormed, FileCIR
  <2>. QED
    BY <2>1 DEF BasicBlock
<1>3. I \subseteq 1..Len(c.instr)
  <2>1. ToSet(c.fun[F]) \subseteq 1..Len(c.blk)
    BY <1>1 DEF ToSet
  <2>2. \A b \in 1..Len(c.blk) : ToSet(c.blk[b].ins) \subseteq 1..Len(c.instr)
    BY <1>2 DEF ToSet
  <2>. QED
    BY <2>1, <2>2
<1>4. IsFiniteSet(1..Len(c.instr))
  BY <1>1, FS_Interval
<1>5. Cardinality(I) \in Nat
  BY <1>3, <1>4, FS_Subset, FS_CardinalityType
<1>6. LastRef(c) = [pos |-> Cardinality(I) - 1, def |-> Len(c.instr)]
  BY DEF LastRef, InstructionNb
<1>. QED
  BY <1>1, <1>5, <1>6 DEF InstrRef

-----------------------------------------------------------------------------
(* Instructions.                                                           *)

\* An instruction made of an opcode, a type, operands and blocks.
LEMMA InstructionLemma ==
    ASSUME NEW n \in Nat, NEW op \in Opcodes, NEW ty \in Types,
           NEW uses \in Seq(InstrRef), NEW bbs \in Seq(1..n)
    PROVE  [op |-> op, ty |-> ty, uses |-> uses, bbs |-> bbs] \in Instruction(n)
  BY DEF Instruction

\* An instruction without blocks is not a branch.
LEMMA InstrLemma ==
    ASSUME NEW n \in Nat, NEW op \in Opcodes, NEW ty \in Types, NEW uses \in Seq(InstrRef)
    PROVE  /\ Instr(op, ty, uses) \in Instruction(n)
           /\ op \notin {"Goto", "GotoIf"} => ~Branches(Instr(op, ty, uses))
<1>1. << >> \in Seq(1..n)
  OBVIOUS
<1>. QED
  BY <1>1, InstructionLemma DEF Instr, Branches

\* Branches and phis between blocks of the file.
LEMMA BranchLemma ==
    ASSUME NEW n \in Nat, NEW b1 \in 1..n, NEW b2 \in 1..n,
           NEW v1 \in InstrRef, NEW v2 \in InstrRef, NEW ty \in Types
    PROVE  /\ GotoInstr(b1) \in Instruction(n)
           /\ GotoIfInstr(v1, b1, b2) \in Instruction(n)
           /\ PhiInstr(ty, b1, v1, b2, v2) \in Instruction(n)
           /\ Targets(GotoInstr(b1)) = {b1}
           /\ Targets(GotoIfInstr(v1, b1, b2)) = {b1, b2}
           /\ ~Branches(PhiInstr(ty, b1, v1, b2, v2))
<1>1. /\ << >> \in Seq(InstrRef) /\ <<v1>> \in Seq(InstrRef) /\ <<v1, v2>> \in Seq(InstrRef)
      /\ <<b1>> \in Seq(1..n) /\ <<b1, b2>> \in Seq(1..n)
  OBVIOUS
<1>2. "Goto" \in Opcodes /\ "GotoIf" \in Opcodes /\ "Phi" \in Opcodes /\ "never" \in Types
  BY DEF Opcodes, Types
<1>3. GotoInstr(b1) \in Instruction(n)
  BY <1>1, <1>2, InstructionLemma, Zenon DEF GotoInstr
<1>4. GotoIfInstr(v1, b1, b2) \in Instruction(n)
  BY <1>1, <1>2, InstructionLemma, Zenon DEF GotoIfInstr
<1>5. PhiInstr(ty, b1, v1, b2, v2) \in Instruction(n)
  BY <1>1, <1>2, InstructionLemma, Zenon DEF PhiInstr
<1>6. ToSet(<<b1>>) = {b1} /\ ToSet(<<b1, b2>>) = {b1, b2}
  BY DEF ToSet
<1>7. Targets(GotoInstr(b1)) = {b1}
  BY <1>6 DEF Targets, Branches, GotoInstr
<1>8. Targets(GotoIfInstr(v1, b1, b2)) = {b1, b2}
  BY <1>6 DEF Targets, Branches, GotoIfInstr
<1>9. ~Branches(PhiInstr(ty, b1, v1, b2, v2))
  BY DEF Branches, PhiInstr
<1>. QED
  BY <1>3, <1>4, <1>5, <1>7, <1>8, <1>9

\* An instruction that does not branch, and the reference to it.
LEMMA EmitLemma ==
    ASSUME NEW c, Good(c), Len(c.fun) > 0, c.cur # 0,
           NEW i \in Instruction(Len(c.blk)), ~Branches(i)
    PROVE  LET e == Emit(c, i)
           IN  /\ Good(e.c) /\ e.r \in InstrRef
               /\ Len(e.c.blk) = Len(c.blk) /\ e.c.cur = c.cur /\ e.c.fun = c.fun
<1>. DEFINE d == AddInstruction(c, i)
<1>1. Good(d) /\ Len(d.blk) = Len(c.blk) /\ d.cur = c.cur /\ d.fun = c.fun
  BY AddInstructionLemma DEF Targets
<1>2. LastRef(d) \in InstrRef
  BY <1>1, LastRefLemma DEF Good
<1>. QED
  BY <1>1, <1>2 DEF Emit

\* The conversion of a value adds at most one instruction.
LEMMA ConvertLemma ==
    ASSUME NEW c, Good(c), Len(c.fun) > 0, c.cur # 0,
           NEW ref \in InstrRef, NEW from, NEW to \in Types
    PROVE  LET e == Convert(c, ref, from, to)
           IN  /\ Good(e.c) /\ e.r \in InstrRef
               /\ Len(e.c.blk) = Len(c.blk) /\ e.c.cur = c.cur /\ e.c.fun = c.fun
<1>1. Len(c.blk) \in Nat
  BY DEF Good, WellFormed, FileCIR
<1>2. << >> \in Seq(InstrRef) /\ <<ref>> \in Seq(InstrRef)
  OBVIOUS
<1>. DEFINE i == IF to = "void" THEN Instr("ConstVoid", "void", << >>)
                               ELSE Instr("Cast", to, <<ref>>)
<1>3. i \in Instruction(Len(c.blk)) /\ ~Branches(i)
  <2>1. /\ "ConstVoid" \in Opcodes /\ "Cast" \in Opcodes /\ "void" \in Types
        /\ "ConstVoid" \notin {"Goto", "GotoIf"} /\ "Cast" \notin {"Goto", "GotoIf"}
    BY DEF Opcodes, Constants, Types
  <2>2. /\ Instr("ConstVoid", "void", << >>) \in Instruction(Len(c.blk))
        /\ ~Branches(Instr("ConstVoid", "void", << >>))
    BY <1>1, <1>2, <2>1, InstrLemma, Zenon
  <2>3. /\ Instr("Cast", to, <<ref>>) \in Instruction(Len(c.blk))
        /\ ~Branches(Instr("Cast", to, <<ref>>))
    BY <1>1, <1>2, <2>1, InstrLemma, Zenon
  <2>. QED
    BY <2>2, <2>3
<1>4. Convert(c, ref, from, to) = IF from = to THEN [c |-> c, r |-> ref] ELSE Emit(c, i)
  BY DEF Convert
<1>. HIDE DEF i
<1>. QED
  BY <1>3, <1>4, EmitLemma

\* A branch: its target knows the predecessor before the branch exists.
LEMMA CreateGotoLemma ==
    ASSUME NEW c, Good(c), c.cur # 0, NEW b \in 1..Len(c.blk)
    PROVE  LET d == CreateGoto(c, b)
           IN  /\ Good(d)
               /\ Len(d.blk) = Len(c.blk) /\ d.cur = c.cur /\ d.fun = c.fun
<1>. DEFINE a == AddPred(c, b, c.cur)
<1>1. c.cur \in 1..Len(c.blk)
  BY DEF Good, WellFormed, FileCIR
<1>2. /\ Good(a) /\ Len(a.blk) = Len(c.blk) /\ a.cur = c.cur /\ a.fun = c.fun
      /\ c.cur \in a.blk[b].preds
  BY <1>1, AddPredLemma
<1>3. GotoInstr(b) \in Instruction(Len(c.blk)) /\ Targets(GotoInstr(b)) = {b}
  <2>1. NoRef \in InstrRef /\ "never" \in Types /\ Len(c.blk) \in Nat
    BY DEF NoRef, InstrRef, Types, Good, WellFormed, FileCIR
  <2>. QED
    BY <2>1, BranchLemma
<1>. HIDE DEF a
<1>4. LET d == AddInstruction(a, GotoInstr(b))
      IN  /\ Good(d)
          /\ Len(d.blk) = Len(c.blk) /\ d.cur = c.cur /\ d.fun = c.fun
  BY <1>2, <1>3, AddInstructionLemma
<1>. QED
  BY <1>4 DEF CreateGoto, a

\* The same for a branch on a condition and both of its targets.
LEMMA CreateGotoIfLemma ==
    ASSUME NEW c, Good(c), c.cur # 0, NEW cond \in InstrRef,
           NEW b1 \in 1..Len(c.blk), NEW b2 \in 1..Len(c.blk)
    PROVE  LET d == CreateGotoIf(c, cond, b1, b2)
           IN  /\ Good(d)
               /\ Len(d.blk) = Len(c.blk) /\ d.cur = c.cur /\ d.fun = c.fun
<1>. DEFINE a == AddPred(c, b1, c.cur)
            e == AddPred(a, b2, c.cur)
            i == GotoIfInstr(cond, b1, b2)
<1>1. c.cur \in 1..Len(c.blk)
  BY DEF Good, WellFormed, FileCIR
<1>2. /\ Good(a) /\ Len(a.blk) = Len(c.blk) /\ a.cur = c.cur /\ a.fun = c.fun
      /\ c.cur \in a.blk[b1].preds
  BY <1>1, AddPredLemma
<1>3. /\ Good(e) /\ Len(e.blk) = Len(c.blk) /\ e.cur = c.cur /\ e.fun = c.fun
      /\ c.cur \in e.blk[b1].preds /\ c.cur \in e.blk[b2].preds
  <2>. HIDE DEF a
  <2>1. b1 \in 1..Len(a.blk) /\ b2 \in 1..Len(a.blk) /\ c.cur \in 1..Len(a.blk)
    BY <1>1, <1>2
  <2>2. /\ Good(e) /\ Len(e.blk) = Len(a.blk) /\ e.cur = a.cur /\ e.fun = a.fun
        /\ c.cur \in e.blk[b2].preds /\ a.blk[b1].preds \subseteq e.blk[b1].preds
    BY <1>2, <2>1, AddPredLemma
  <2>. QED
    BY <1>2, <2>2
<1>4. i \in Instruction(Len(c.blk)) /\ Targets(i) = {b1, b2}
  <2>1. "never" \in Types /\ Len(c.blk) \in Nat
    BY DEF Types, Good, WellFormed, FileCIR
  <2>. QED
    BY <2>1, BranchLemma
<1>5. CreateGotoIf(c, cond, b1, b2) = AddInstruction(e, i)
  BY DEF CreateGotoIf
<1>. HIDE DEF a, e, i
<1>. QED
  BY <1>3, <1>4, <1>5, AddInstructionLemma

-----------------------------------------------------------------------------
(* The pass that shortens the blocks.                                      *)

\* A non-empty set of natural numbers has a least element.
LEMMA MinLemma ==
    ASSUME NEW S, S \subseteq Nat, S # {}
    PROVE  Min(S) \in S
<1>1. PICK x \in S : \A y \in S : <<y, x>> \notin OpToRel(<, Nat)
  BY NatLessThanWellFounded, WFMin, Zenon
<1>2. \A y \in S : ~(y < x)
  BY <1>1, Zenon DEF OpToRel
<1>3. \E z \in S : \A y \in S : z <= y
  BY <1>2
<1>. QED
  BY <1>3 DEF Min

\* What is left of a block is a beginning of it.
LEMMA UpToNeverLemma ==
    ASSUME NEW c, NEW m \in Nat, NEW ins \in Seq(1..m)
    PROVE  /\ UpToNever(c, ins) \in Seq(1..m)
           /\ ToSet(UpToNever(c, ins)) \subseteq ToSet(ins)
<1>. DEFINE nevers == {k \in DOMAIN ins : c.instr[ins[k]].ty = "never"}
<1>1. CASE nevers = {}
  BY <1>1 DEF UpToNever
<1>2. CASE nevers # {}
  <2>1. nevers \subseteq Nat /\ nevers \subseteq 1..Len(ins)
    OBVIOUS
  <2>2. Min(nevers) \in 1..Len(ins)
    BY <1>2, <2>1, MinLemma
  <2>3. UpToNever(c, ins) = SubSeq(ins, 1, Min(nevers))
    BY <1>2 DEF UpToNever
  <2>. HIDE DEF nevers
  <2>. QED
    BY <2>2, <2>3, SMTT(30) DEF ToSet
<1>. QED
  BY <1>1, <1>2

\* fixFileCIR only shortens blocks.
LEMMA FixFileLemma ==
    ASSUME NEW c, Good(c)
    PROVE  LET d == FixFile(c)
           IN  /\ Good(d)
               /\ Len(d.blk) = Len(c.blk) /\ d.cur = c.cur /\ d.fun = c.fun
<1>. DEFINE m == Len(c.instr)
            n == Len(c.blk)
            Fixed(b) == [c.blk[b] EXCEPT !.ins = UpToNever(c, @)]
            blk == [b \in DOMAIN c.blk |-> IF b \in BlocksOf(c) THEN Fixed(b) ELSE c.blk[b]]
            d == FixFile(c)
<1>1. m \in Nat /\ n \in Nat /\ c \in FileCIR(m, n) /\ c.blk \in Seq(BasicBlock(m, n))
  BY DEF Good, WellFormed, FileCIR
<1>2. \A b \in 1..n : Fixed(b) \in BasicBlock(m, n)
  <2>1. SUFFICES ASSUME NEW b \in 1..n PROVE Fixed(b) \in BasicBlock(m, n)
    OBVIOUS
  <2>2. c.blk[b] \in BasicBlock(m, n) /\ c.blk[b].ins \in Seq(1..m)
    <3>1. c.blk[b] \in BasicBlock(m, n)
      BY <1>1
    <3>. QED
      BY <3>1 DEF BasicBlock
  <2>3. UpToNever(c, c.blk[b].ins) \in Seq(1..m)
    BY <1>1, <2>2, UpToNeverLemma
  <2>. QED
    BY <2>2, <2>3 DEF BasicBlock
<1>3. blk \in Seq(BasicBlock(m, n)) /\ Len(blk) = n
  <2>. HIDE DEF Fixed
  <2>. QED
    BY <1>1, <1>2
<1>4. d = [c EXCEPT !.blk = blk]
  BY DEF FixFile
<1>5. /\ d \in FileCIR(m, n) /\ d.blk = blk /\ d.cur = c.cur /\ d.fun = c.fun
      /\ d.instr = c.instr
  <2>. HIDE DEF blk, d
  <2>. QED
    BY <1>1, <1>3, <1>4 DEF FileCIR
<1>6. \A b \in 1..n : /\ ToSet(d.blk[b].ins) \subseteq ToSet(c.blk[b].ins)
                      /\ d.blk[b].preds = c.blk[b].preds
  <2>1. SUFFICES ASSUME NEW b \in 1..n
                 PROVE  /\ ToSet(d.blk[b].ins) \subseteq ToSet(c.blk[b].ins)
                        /\ d.blk[b].preds = c.blk[b].preds
    OBVIOUS
  <2>2. c.blk[b] \in BasicBlock(m, n) /\ c.blk[b].ins \in Seq(1..m)
    <3>1. c.blk[b] \in BasicBlock(m, n)
      BY <1>1
    <3>. QED
      BY <3>1 DEF BasicBlock
  <2>3. ToSet(UpToNever(c, c.blk[b].ins)) \subseteq ToSet(c.blk[b].ins)
    BY <1>1, <2>2, UpToNeverLemma
  <2>4. d.blk[b] = IF b \in BlocksOf(c) THEN Fixed(b) ELSE c.blk[b]
    BY <1>1, <1>5
  <2>5. Fixed(b).ins = UpToNever(c, c.blk[b].ins) /\ Fixed(b).preds = c.blk[b].preds
    BY <2>2 DEF BasicBlock
  <2>. HIDE DEF d, Fixed
  <2>. QED
    BY <2>3, <2>4, <2>5
<1>7. WellFormed(d)
  BY <1>3, <1>5 DEF WellFormed
<1>8. Good(d)
  <2>. HIDE DEF blk, d
  <2>1. /\ Len(c.instr) <= Len(d.instr) /\ Len(c.blk) <= Len(d.blk)
        /\ \A k \in 1..Len(c.instr) : d.instr[k] = c.instr[k]
        /\ \A k \in 1..Len(d.blk) : k > Len(c.blk) => d.blk[k].ins = << >>
    BY <1>1, <1>3, <1>5
  <2>2. \A k \in 1..Len(c.blk) : /\ ToSet(d.blk[k].ins) \subseteq ToSet(c.blk[k].ins)
                                /\ c.blk[k].preds \subseteq d.blk[k].preds
    BY <1>6
  <2>. QED
    BY <1>7, <2>1, <2>2, RecordedLemma
<1>. QED
  BY <1>3, <1>5, <1>8

-----------------------------------------------------------------------------
(* The invariant.                                                          *)

\* The part of IInv about everything but the activations.
RestOK ==
    /\ prog \in Programs
    /\ fn \in 0..Len(prog)
    /\ Good(cir)
    /\ varRefs \in [VarNames -> InstrRef]
    /\ ret \in InstrRef
    /\ scopes \in Seq(Seq(Nodes))
    /\ breaks \in Seq(1..Len(cir.blk))
    /\ freed \subseteq 1..Len(cir.blk)
    /\ errors \in BOOLEAN
    /\ status \in {"gen", "generated", "fixed", "checked", "aborted"}

\* The part about the activations.
FramesOK ==
    /\ frames \in Seq(FrameType(Len(cir.blk)))
    /\ \A k \in DOMAIN frames : HeldBlocks(frames[k])
    /\ frames # << >> => fn # 0 /\ cir.cur # 0 /\ cir.fun # << >>
    /\ ScopesDeepEnough

\* IInv in two parts.
LEMMA IInvParts == IInv <=> RestOK /\ FramesOK
  BY DEF IInv, RestOK, FramesOK, TypeOK, BranchesRecorded, Good, Blocks

\* A stack, its top, and what pushing and popping make of it.
LEMMA StackLemma ==
    ASSUME NEW S, NEW s \in Seq(S), s # << >>
    PROVE  /\ Len(s) \in Nat /\ Len(s) > 0 /\ DOMAIN s = 1..Len(s)
           /\ Last(s) \in S /\ Last(s) = s[Len(s)]
           /\ Front(s) \in Seq(S) /\ Len(Front(s)) = Len(s) - 1
           /\ \A k \in 1..(Len(s) - 1) : Front(s)[k] = s[k]
<1>1. Len(s) \in Nat /\ Len(s) > 0 /\ DOMAIN s = 1..Len(s)
  OBVIOUS
<1>2. Last(s) = s[Len(s)] /\ s[Len(s)] \in S
  BY <1>1 DEF Last
<1>3. /\ Front(s) \in Seq(S) /\ Len(Front(s)) = Len(s) - 1
      /\ \A k \in 1..(Len(s) - 1) : Front(s)[k] = s[k]
  BY <1>1 DEF Front
<1>. QED
  BY <1>1, <1>2, <1>3

\* A stack whose top is replaced.
LEMMA ReplaceLemma ==
    ASSUME NEW S, NEW s \in Seq(S), s # << >>, NEW f \in S
    PROVE  /\ Append(Front(s), f) \in Seq(S) /\ Len(Append(Front(s), f)) = Len(s)
           /\ \A k \in 1..(Len(s) - 1) : Append(Front(s), f)[k] = s[k]
           /\ Append(Front(s), f)[Len(s)] = f
<1>. DEFINE r == Front(s)
<1>1. r \in Seq(S) /\ Len(r) = Len(s) - 1 /\ Len(s) \in Nat /\ \A k \in 1..(Len(s) - 1) : r[k] = s[k]
  BY StackLemma
<1>. HIDE DEF r
<1>2. /\ Append(r, f) \in Seq(S) /\ Len(Append(r, f)) = Len(s)
      /\ \A k \in 1..(Len(s) - 1) : Append(r, f)[k] = s[k]
      /\ Append(r, f)[Len(s)] = f
  BY <1>1
<1>. QED
  BY <1>2 DEF r

\* A stack whose top is replaced and pushed on.
LEMMA PushLemma ==
    ASSUME NEW S, NEW s \in Seq(S), s # << >>, NEW f \in S, NEW g \in S
    PROVE  /\ Front(s) \o <<f, g>> \in Seq(S) /\ Len(Front(s) \o <<f, g>>) = Len(s) + 1
           /\ \A k \in 1..(Len(s) - 1) : (Front(s) \o <<f, g>>)[k] = s[k]
           /\ (Front(s) \o <<f, g>>)[Len(s)] = f
           /\ (Front(s) \o <<f, g>>)[Len(s) + 1] = g
<1>. DEFINE r == Front(s)
<1>1. r \in Seq(S) /\ Len(r) = Len(s) - 1 /\ Len(s) \in Nat /\ \A k \in 1..(Len(s) - 1) : r[k] = s[k]
  BY StackLemma
<1>. HIDE DEF r
<1>2. <<f, g>> \in Seq(S) /\ Len(<<f, g>>) = 2 /\ <<f, g>>[1] = f /\ <<f, g>>[2] = g
  OBVIOUS
<1>3. /\ r \o <<f, g>> \in Seq(S) /\ Len(r \o <<f, g>>) = Len(s) + 1
      /\ \A k \in 1..(Len(s) - 1) : (r \o <<f, g>>)[k] = s[k]
      /\ (r \o <<f, g>>)[Len(s)] = f
      /\ (r \o <<f, g>>)[Len(s) + 1] = g
  BY <1>1, <1>2
<1>. QED
  BY <1>3 DEF r

\* The activations of a smaller file are activations of a larger one.
LEMMA FrameGrows ==
    ASSUME NEW n \in Nat, NEW m \in Nat, n <= m
    PROVE  FrameType(n) \subseteq FrameType(m)
<1>1. 0..n \subseteq 0..m /\ Seq(1..n) \subseteq Seq(1..m)
  OBVIOUS
<1>. QED
  BY <1>1 DEF FrameType

\* What an action of a method finds.
LEMMA InsideLemma ==
    ASSUME IInv, frames # << >>
    PROVE  /\ Len(cir.blk) \in Nat /\ frames \in Seq(FrameType(Len(cir.blk)))
           /\ Top \in FrameType(Len(cir.blk)) /\ HeldBlocks(Top) /\ Top.dep \in Nat
           /\ Good(cir) /\ cir.cur \in 1..Len(cir.blk) /\ Len(cir.fun) > 0
           /\ fn \in 1..Len(prog) /\ prog \in Programs
           /\ ret \in InstrRef /\ varRefs \in [VarNames -> InstrRef]
           /\ scopes \in Seq(Seq(Nodes)) /\ breaks \in Seq(1..Len(cir.blk))
<1>1. RestOK /\ FramesOK
  BY IInvParts
<1>2. Len(cir.blk) \in Nat /\ cir.cur \in 1..Len(cir.blk) /\ Len(cir.fun) > 0
  BY <1>1 DEF RestOK, FramesOK, Good, WellFormed, FileCIR
<1>3. Top \in FrameType(Len(cir.blk)) /\ HeldBlocks(Top)
  <2>. DEFINE F == FrameType(Len(cir.blk))
  <2>1. frames \in Seq(F)
    BY <1>1 DEF FramesOK
  <2>. HIDE DEF F
  <2>2. Top = frames[Len(frames)] /\ Len(frames) \in DOMAIN frames /\ Top \in F
    BY <2>1, StackLemma DEF Top
  <2>. QED
    BY <1>1, <2>2 DEF FramesOK, F
<1>4. fn \in 1..Len(prog)
  BY <1>1, ProgramsAssumption DEF RestOK, FramesOK
<1>. QED
  BY <1>1, <1>2, <1>3, <1>4 DEF RestOK, FramesOK, FrameType

\* The activations are still activations of the file when it has more blocks.
LEMMA OldFramesLemma ==
    ASSUME IInv, RestOK', frames # << >>, Len(cir.blk) <= Len(cir'.blk),
           NEW F, F = FrameType(Len(cir'.blk))
    PROVE  /\ frames \in Seq(F) /\ fn # 0
           /\ Len(frames) \in Nat /\ Len(frames) > 0 /\ DOMAIN frames = 1..Len(frames)
           /\ Top = frames[Len(frames)] /\ Top.dep \in Nat
           /\ \A k \in 1..Len(frames) : HeldBlocks(frames[k]) /\ frames[k].dep \in Nat
<1>1. Len(cir'.blk) \in Nat
  BY DEF RestOK, Good, WellFormed, FileCIR
<1>2. RestOK /\ FramesOK
  BY IInvParts
<1>3. Len(cir.blk) \in Nat /\ frames \in Seq(FrameType(Len(cir.blk)))
  BY InsideLemma
<1>4. FrameType(Len(cir.blk)) \subseteq F
  BY <1>1, <1>3, FrameGrows
<1>5. frames \in Seq(F)
  BY <1>3, <1>4
<1>6. /\ Len(frames) \in Nat /\ Len(frames) > 0 /\ DOMAIN frames = 1..Len(frames)
      /\ Top = frames[Len(frames)]
  BY <1>5, StackLemma DEF Top
<1>7. \A k \in 1..Len(frames) : frames[k].dep \in Nat
  <2>1. \A f \in F : f.dep \in Nat
    BY DEF FrameType
  <2>. QED
    BY <1>5, <1>6, <2>1
<1>. QED
  BY <1>2, <1>5, <1>6, <1>7 DEF FramesOK

\* The three ways an action changes the activations.
LEMMA LeaveLemma ==
    ASSUME IInv, RestOK', frames # << >>, status = "gen", fn' = fn,
           Len(cir.blk) <= Len(cir'.blk), cir'.cur # 0, cir'.fun # << >>,
           frames' = Front(frames),
           Len(scopes') >= Top.dep
    PROVE  IInv'
<1>. DEFINE n == Len(frames)
            F == FrameType(Len(cir'.blk))
<1>1. /\ frames \in Seq(F) /\ fn # 0 /\ n \in Nat /\ n > 0 /\ DOMAIN frames = 1..n
      /\ Top = frames[n] /\ Top.dep \in Nat
      /\ \A k \in 1..n : HeldBlocks(frames[k]) /\ frames[k].dep \in Nat
  BY OldFramesLemma
<1>. HIDE DEF F
<1>2. /\ frames' \in Seq(F) /\ Len(frames') = n - 1
      /\ \A k \in 1..(n - 1) : frames'[k] = frames[k]
  BY <1>1, StackLemma
<1>3. \A k \in DOMAIN frames' : HeldBlocks(frames'[k])
  BY <1>1, <1>2
<1>4. ScopesDeepEnough'
  <2>1. SUFFICES ASSUME n > 1
                 PROVE  /\ \A k \in 1..(n - 2) : frames'[k + 1].dep >= DepthBelow(frames'[k])
                        /\ Len(scopes') >= DepthBelow(frames'[n - 1])
    <3>1. n = 1 => frames' = << >>
      BY <1>2
    <3>2. n > 1 => Last(frames)' = frames'[n - 1]
      BY <1>2 DEF Last
    <3>. QED
      BY <1>1, <1>2, <3>1, <3>2 DEF ScopesDeepEnough, Top
  <2>2. \A k \in 1..(n - 1) : frames[k + 1].dep >= DepthBelow(frames[k])
    BY IInvParts DEF FramesOK, ScopesDeepEnough
  <2>3. Top.dep >= DepthBelow(frames[n - 1]) /\ DepthBelow(frames[n - 1]) \in Nat
    BY <1>1, <2>1, <2>2 DEF DepthBelow
  <2>4. Len(scopes') \in Nat
    BY DEF RestOK
  <2>. QED
    BY <1>1, <1>2, <2>1, <2>2, <2>3, <2>4
<1>5. FramesOK'
  BY <1>1, <1>2, <1>3, <1>4 DEF FramesOK, F
<1>. QED
  BY <1>5, IInvParts DEF IInv, RestOK, FramesOK, TypeOK, BranchesRecorded, Good, Blocks

\* An action that goes on with its own method.
LEMMA StayLemma ==
    ASSUME IInv, RestOK', frames # << >>, status = "gen", fn' = fn,
           Len(cir.blk) <= Len(cir'.blk), cir'.cur # 0, cir'.fun # << >>,
           NEW f, f \in FrameType(Len(cir'.blk)), HeldBlocks(f), f.dep = Top.dep,
           Stay(f), Len(scopes') >= DepthBelow(f)
    PROVE  IInv'
<1>. DEFINE n == Len(frames)
            F == FrameType(Len(cir'.blk))
<1>1. /\ frames \in Seq(F) /\ fn # 0 /\ n \in Nat /\ n > 0 /\ DOMAIN frames = 1..n
      /\ Top = frames[n] /\ Top.dep \in Nat
      /\ \A k \in 1..n : HeldBlocks(frames[k]) /\ frames[k].dep \in Nat
  BY OldFramesLemma
<1>0. f \in F
  OBVIOUS
<1>. HIDE DEF F
<1>2. /\ frames' \in Seq(F) /\ Len(frames') = n
      /\ \A k \in 1..(n - 1) : frames'[k] = frames[k]
      /\ frames'[n] = f
  <2>1. frames' = Append(Front(frames), f)
    BY DEF Stay
  <2>2. /\ Append(Front(frames), f) \in Seq(F) /\ Len(Append(Front(frames), f)) = n
        /\ \A k \in 1..(n - 1) : Append(Front(frames), f)[k] = frames[k]
        /\ Append(Front(frames), f)[n] = f
    <3>1. frames \in Seq(F) /\ frames # << >> /\ f \in F /\ Len(frames) = n
      BY <1>0, <1>1
    <3>. HIDE DEF n
    <3>. QED
      BY ONLY <3>1, ReplaceLemma, ZenonT(40)
  <2>. QED
    BY <2>1, <2>2
<1>3. \A k \in DOMAIN frames' : HeldBlocks(frames'[k])
  BY <1>1, <1>2
<1>4. ScopesDeepEnough'
  <2>1. Top' = f
    BY <1>2 DEF Last, Top
  <2>2. \A k \in 1..(n - 1) : frames[k + 1].dep >= DepthBelow(frames[k])
    BY IInvParts DEF FramesOK, ScopesDeepEnough
  <2>3. \A k \in 1..(n - 1) : frames'[k + 1].dep = frames[k + 1].dep
    BY <1>1, <1>2, SMTT(30)
  <2>4. \A k \in 1..(n - 1) : frames'[k + 1].dep >= DepthBelow(frames'[k])
    BY <1>1, <1>2, <2>2, <2>3, SMTT(30)
  <2>. QED
    BY <1>2, <2>1, <2>4 DEF ScopesDeepEnough
<1>5. FramesOK'
  BY <1>1, <1>2, <1>3, <1>4 DEF FramesOK, F
<1>. QED
  BY <1>5, IInvParts DEF IInv, RestOK, FramesOK, TypeOK, BranchesRecorded, Good, Blocks

\* An action that calls the cir_gen of a part of its expression.
LEMMA EnterLemma ==
    ASSUME IInv, RestOK', frames # << >>, status = "gen", fn' = fn,
           Len(cir.blk) <= Len(cir'.blk), cir'.cur # 0, cir'.fun # << >>,
           NEW f, f \in FrameType(Len(cir'.blk)), HeldBlocks(f), f.dep = Top.dep,
           NEW e \in Nodes, Enter(f, e), Len(scopes') >= DepthBelow(f)
    PROVE  IInv'
<1>. DEFINE n == Len(frames)
            F == FrameType(Len(cir'.blk))
            g == Activation(e, breaks', Len(scopes'))
<1>1. /\ frames \in Seq(F) /\ fn # 0 /\ n \in Nat /\ n > 0 /\ DOMAIN frames = 1..n
      /\ Top = frames[n] /\ Top.dep \in Nat
      /\ \A k \in 1..n : HeldBlocks(frames[k]) /\ frames[k].dep \in Nat
  BY OldFramesLemma
<1>0. f \in F
  OBVIOUS
<1>6. g \in F /\ HeldBlocks(g) /\ g.dep = Len(scopes') /\ DepthBelow(g) = Len(scopes')
  <2>1. /\ Len(cir'.blk) \in Nat /\ Len(scopes') \in Nat /\ breaks' \in Seq(1..Len(cir'.blk))
        /\ << >> \in Seq(Nodes) /\ 0 \in 0..Len(cir'.blk)
    BY DEF RestOK, Good, WellFormed, FileCIR
  <2>2. "start" \in Points /\ NoRef \in InstrRef
    BY DEF Points, NoRef, InstrRef
  <2>3. g \in F
    BY <2>1, <2>2 DEF Activation, FrameType
  <2>. QED
    BY <2>3 DEF Activation, HeldBlocks, DepthBelow, InBody
<1>. HIDE DEF F, g
<1>2. /\ frames' \in Seq(F) /\ Len(frames') = n + 1
      /\ \A k \in 1..(n - 1) : frames'[k] = frames[k]
      /\ frames'[n] = f /\ frames'[n + 1] = g
  BY <1>0, <1>1, <1>6, PushLemma DEF Enter, g
<1>3. \A k \in DOMAIN frames' : HeldBlocks(frames'[k])
  BY <1>1, <1>2, <1>6
<1>4. ScopesDeepEnough'
  <2>1. Top' = g
    BY <1>2 DEF Last, Top
  <2>2. \A k \in 1..(n - 1) : frames[k + 1].dep >= DepthBelow(frames[k])
    BY IInvParts DEF FramesOK, ScopesDeepEnough
  <2>3. \A k \in 1..(n - 1) : frames'[k + 1].dep = frames[k + 1].dep
    BY <1>1, <1>2
  <2>4. \A k \in 1..n : frames'[k + 1].dep >= DepthBelow(frames'[k])
    BY <1>1, <1>2, <1>6, <2>2, <2>3
  <2>5. Len(scopes') \in Nat
    BY DEF RestOK
  <2>. QED
    BY <1>1, <1>2, <1>6, <2>1, <2>4, <2>5 DEF ScopesDeepEnough
<1>5. FramesOK'
  BY <1>1, <1>2, <1>3, <1>4 DEF FramesOK, F
<1>. QED
  BY <1>5, IInvParts DEF IInv, RestOK, FramesOK, TypeOK, BranchesRecorded, Good, Blocks

-----------------------------------------------------------------------------
(* What the actions have in common.                                        *)

\* A node and its parts.
LEMMA NodeLemma ==
    ASSUME NEW n \in Nodes
    PROVE  /\ n.ty \in Types /\ n.kids \in Seq(Nodes)
           /\ \A k \in 1..Len(n.kids) : n.kids[k] \in Nodes /\ n.kids[k].ty \in Types
  BY ProgramsAssumption

\* The local variables of the activation that runs.
LEMMA TopLemma ==
    ASSUME IInv, frames # << >>
    PROVE  /\ Top.node \in Nodes /\ Top.i \in Nat
           /\ Top.keep \in InstrRef /\ Top.val \in InstrRef /\ Top.defers \in Seq(Nodes)
           /\ Top.head \in 0..Len(cir.blk) /\ Top.body \in 0..Len(cir.blk)
           /\ Top.alt \in 0..Len(cir.blk) /\ Top.after \in 0..Len(cir.blk)
  BY InsideLemma DEF FrameType

\* The prototype and the body of the function being generated.
LEMMA FunctionLemma ==
    ASSUME IInv, NEW F \in 1..Len(prog)
    PROVE  prog[F].node \in Nodes /\ prog[F].args \in Seq(VarNames)
<1>. DEFINE R == [name : STRING, args : Seq(VarNames), node : Nodes]
<1>1. prog \in Seq(R)
  BY ProgramsAssumption DEF IInv, TypeOK
<1>2. \A r \in R : r.node \in Nodes /\ r.args \in Seq(VarNames)
  OBVIOUS
<1>. HIDE DEF R
<1>3. prog[F] \in R
  BY <1>1
<1>. QED
  BY <1>2, <1>3

\* An action that changes the file, the last reference and the variables only.
LEMMA SteadyLemma ==
    ASSUME IInv, Steady, SameStacks, Good(cir'), Len(cir.blk) <= Len(cir'.blk),
           ret' \in InstrRef, varRefs' \in [VarNames -> InstrRef]
    PROVE  RestOK'
<1>1. RestOK
  BY IInvParts
<1>2. Len(cir.blk) \in Nat /\ Len(cir'.blk) \in Nat
  BY <1>1 DEF RestOK, Good, WellFormed, FileCIR
<1>3. breaks \in Seq(1..Len(cir'.blk)) /\ freed \subseteq 1..Len(cir'.blk)
  BY <1>1, <1>2 DEF RestOK
<1>. QED
  BY <1>1, <1>3 DEF RestOK, Steady, SameStacks

\* A file of n blocks under construction, with an insert point.
InFunction(c, n) == Good(c) /\ Len(c.blk) = n /\ c.cur # 0 /\ c.fun # << >>

\* What every action of a method finds.
Ready ==
    /\ status = "gen" /\ frames # << >>
    /\ Len(cir.blk) \in Nat /\ InFunction(cir, Len(cir.blk))
    /\ ret \in InstrRef /\ varRefs \in [VarNames -> InstrRef]
    /\ Top \in FrameType(Len(cir.blk)) /\ Top.node \in Nodes /\ HeldBlocks(Top)
    /\ Top.dep \in Nat /\ Len(scopes) \in Nat
    /\ Len(scopes) >= DepthBelow(Top) /\ Len(scopes) >= Top.dep

\* An action of a method finds an activation and a file to add to.
LEMMA ReadyLemma ==
    ASSUME IInv, NEW kinds, NEW point, At(kinds, point)
    PROVE  Ready /\ Top.node.kind \in kinds /\ Top.at = point
<1>1. status = "gen" /\ frames # << >> /\ Top.node.kind \in kinds /\ Top.at = point
  BY DEF At
<1>2. /\ Len(cir.blk) \in Nat /\ InFunction(cir, Len(cir.blk)) /\ Top.node \in Nodes
      /\ Top \in FrameType(Len(cir.blk)) /\ HeldBlocks(Top) /\ Top.dep \in Nat
      /\ ret \in InstrRef /\ varRefs \in [VarNames -> InstrRef]
      /\ Len(scopes) \in Nat
  BY <1>1, InsideLemma, TopLemma, SMTT(30) DEF InFunction
<1>3. Len(scopes) >= DepthBelow(Top)
  BY <1>1, IInvParts DEF FramesOK, ScopesDeepEnough
<1>4. Len(scopes) >= Top.dep
  BY <1>2, <1>3 DEF DepthBelow
<1>. QED
  BY <1>1, <1>2, <1>3, <1>4 DEF Ready

\* The operations that leave the number of blocks alone.
LEMMA BuildLemma ==
    ASSUME NEW n \in Nat, NEW c, InFunction(c, n), NEW b \in 1..n
    PROVE  /\ InFunction(AddBasicBlock(c, b), n)
           /\ InFunction(SetInsertPoint(c, b), n)
           /\ InFunction(CreateGoto(c, b), n)
<1>1. Good(c) /\ Len(c.fun) > 0 /\ c.cur # 0 /\ b \in 1..Len(c.blk) /\ Len(c.blk) = n
  BY DEF InFunction, Good, WellFormed, FileCIR
<1>2. InFunction(AddBasicBlock(c, b), n)
  <2>. DEFINE d == AddBasicBlock(c, b)
  <2>1. Good(d) /\ Len(d.blk) = n /\ d.cur = c.cur /\ Len(d.fun) = Len(c.fun)
    BY <1>1, AddBasicBlockLemma
  <2>. HIDE DEF d
  <2>2. d.fun # << >>
    BY <1>1, <2>1
  <2>3. InFunction(d, n)
    BY <1>1, <2>1, <2>2 DEF InFunction
  <2>. QED
    BY <2>3 DEF d
<1>3. InFunction(SetInsertPoint(c, b), n)
  BY <1>1, SetInsertPointLemma DEF InFunction
<1>4. InFunction(CreateGoto(c, b), n)
  BY <1>1, CreateGotoLemma DEF InFunction
<1>. QED
  BY <1>2, <1>3, <1>4

\* A branch on a condition.
LEMMA BuildGotoIfLemma ==
    ASSUME NEW n \in Nat, NEW c, InFunction(c, n), NEW ref \in InstrRef,
           NEW b1 \in 1..n, NEW b2 \in 1..n
    PROVE  InFunction(CreateGotoIf(c, ref, b1, b2), n)
  BY CreateGotoIfLemma DEF InFunction

\* A new block, and a new block that is added to the function.
LEMMA BuildBlockLemma ==
    ASSUME NEW n \in Nat, NEW c, InFunction(c, n), NEW base \in BlockNames
    PROVE  /\ InFunction(NewBlock(c, base), n + 1) /\ LastBlock(NewBlock(c, base)) = n + 1
           /\ InFunction(Added(c, base), n + 1) /\ LastBlock(Added(c, base)) = n + 1
<1>1. InFunction(NewBlock(c, base), n + 1) /\ LastBlock(NewBlock(c, base)) = n + 1
  BY NewBlockLemma DEF InFunction
<1>2. n + 1 \in Nat /\ n + 1 \in 1..(n + 1)
  OBVIOUS
<1>3. InFunction(AddBasicBlock(NewBlock(c, base), n + 1), n + 1)
  BY <1>1, <1>2, BuildLemma
<1>4. Added(c, base) = AddBasicBlock(NewBlock(c, base), n + 1)
  BY <1>1 DEF Added
<1>. QED
  BY <1>1, <1>3, <1>4 DEF InFunction, LastBlock

\* A new instruction, and the conversion of a value.
LEMMA BuildInstructionLemma ==
    ASSUME NEW n \in Nat, NEW c, InFunction(c, n), NEW i \in Instruction(n), ~Branches(i)
    PROVE  InFunction(Emit(c, i).c, n) /\ Emit(c, i).r \in InstrRef
<1>1. Good(c) /\ Len(c.fun) > 0 /\ c.cur # 0 /\ Len(c.blk) = n
  BY DEF InFunction, Good, WellFormed, FileCIR
<1>. QED
  BY <1>1, EmitLemma DEF InFunction

\* A conversion keeps the blocks.
LEMMA BuildConvertLemma ==
    ASSUME NEW n \in Nat, NEW c, InFunction(c, n),
           NEW ref \in InstrRef, NEW from, NEW to \in Types
    PROVE  /\ InFunction(Convert(c, ref, from, to).c, n)
           /\ Convert(c, ref, from, to).r \in InstrRef
<1>1. Good(c) /\ Len(c.fun) > 0 /\ c.cur # 0 /\ Len(c.blk) = n
  BY DEF InFunction, Good, WellFormed, FileCIR
<1>. QED
  BY <1>1, ConvertLemma DEF InFunction

\* Instructions with no, one or two operands.
LEMMA BuildOperandsLemma ==
    ASSUME NEW n \in Nat, NEW op \in Opcodes \ {"Goto", "GotoIf"}, NEW ty \in Types,
           NEW u \in InstrRef, NEW v \in InstrRef
    PROVE  /\ Instr(op, ty, << >>) \in Instruction(n) /\ ~Branches(Instr(op, ty, << >>))
           /\ Instr(op, ty, <<u>>) \in Instruction(n) /\ ~Branches(Instr(op, ty, <<u>>))
           /\ Instr(op, ty, <<u, v>>) \in Instruction(n) /\ ~Branches(Instr(op, ty, <<u, v>>))
<1>1. << >> \in Seq(InstrRef) /\ <<u>> \in Seq(InstrRef) /\ <<u, v>> \in Seq(InstrRef)
  OBVIOUS
<1>2. op \in Opcodes /\ op \notin {"Goto", "GotoIf"}
  OBVIOUS
<1>. QED
  BY <1>1, <1>2, InstrLemma

\* The opcodes that do not branch, and the types.
LEMMA NamesLemma ==
    /\ Opcodes \ {"Goto", "GotoIf"} =
          {"ConstNumber", "ConstBool", "ConstNull", "ConstVector", "ConstVoid", "ConstNever",
           "InitArg", "LoadVar", "VarInit", "StoreVar", "LoadGlobal", "StoreGlobal", "LoadString",
           "Deref", "StoreInPtr", "GepArray", "GepStruct", "Sizeof", "InlineAsm", "Cast", "Binary",
           "Call", "Return", "Phi"}
    /\ Types = {"val", "bool", "i64", "ptr", "array", "object", "void", "never", "none"}
    /\ NoRef \in InstrRef
  BY DEF Opcodes, Constants, Types, NoRef, InstrRef

\* An action that ends with an instruction and returns its reference.
LEMMA EmitAndLeaveLemma ==
    ASSUME IInv, Ready, Steady, SameStacks, NEW n \in Nat, n >= Len(cir.blk),
           NEW c, InFunction(c, n), NEW i \in Instruction(n), ~Branches(i), EmitAndLeave(c, i)
    PROVE  /\ ret' \in InstrRef
           /\ varRefs' \in [VarNames -> InstrRef] => IInv'
<1>. DEFINE e == Emit(c, i)
<1>1. InFunction(e.c, n) /\ e.r \in InstrRef
  BY BuildInstructionLemma
<1>2. cir' = e.c /\ frames' = Front(frames) /\ ret' = e.r
  BY DEF EmitAndLeave, Leave
<1>. HIDE DEF e
<1>3. /\ Good(cir') /\ Len(cir.blk) <= Len(cir'.blk) /\ cir'.cur # 0 /\ cir'.fun # << >>
      /\ ret' \in InstrRef
  BY <1>1, <1>2 DEF InFunction
<1>4. ASSUME varRefs' \in [VarNames -> InstrRef]
      PROVE  IInv'
  <2>1. RestOK'
    BY <1>3, <1>4, SteadyLemma
  <2>2. frames # << >> /\ status = "gen" /\ Len(scopes') >= Top.dep /\ fn' = fn
    BY DEF Ready, Steady, SameStacks
  <2>. QED
    BY <1>2, <1>3, <2>1, <2>2, LeaveLemma
<1>. QED
  BY <1>3, <1>4

\* An action that returns a reference and adds nothing.
LEMMA JustLeaveLemma ==
    ASSUME IInv, Ready, RestOK', fn' = fn, NEW n \in Nat, n >= Len(cir.blk),
           InFunction(cir', n), NEW r, Leave(r), Len(scopes') >= Top.dep
    PROVE  IInv'
<1>1. /\ Len(cir.blk) <= Len(cir'.blk) /\ cir'.cur # 0 /\ cir'.fun # << >>
      /\ frames # << >> /\ status = "gen" /\ frames' = Front(frames)
  BY DEF InFunction, Ready, Leave
<1>. QED
  BY <1>1, LeaveLemma

\* The same, where an error may be reported.
LEMMA LeftLemma ==
    ASSUME IInv, Ready, Steady, UNCHANGED <<varRefs, scopes, breaks, freed>>, errors' \in BOOLEAN,
           InFunction(cir', Len(cir.blk)), ret' \in InstrRef, frames' = Front(frames)
    PROVE  IInv'
<1>1. RestOK'
  BY IInvParts DEF RestOK, Ready, Steady, InFunction
<1>2. Leave(ret')
  BY DEF Leave
<1>. QED
  BY <1>1, <1>2, JustLeaveLemma DEF Ready, Steady

\* An error.
LEMMA ReportLemma ==
    ASSUME IInv, Ready, Report
    PROVE  IInv'
<1>1. /\ Steady /\ UNCHANGED <<cir, varRefs, scopes, breaks, freed>>
      /\ errors' = TRUE /\ ret' = NoRef /\ frames' = Front(frames)
  BY DEF Report, Leave
<1>2. InFunction(cir', Len(cir.blk)) /\ ret' \in InstrRef
  BY <1>1, NamesLemma DEF Ready
<1>. QED
  BY <1>1, <1>2, LeftLemma

\* An action that evaluates a part of the expression, and one that goes on.
LEMMA GoOnLemma ==
    ASSUME IInv, Ready, RestOK', fn' = fn, NEW n \in Nat, n >= Len(cir.blk),
           InFunction(cir', n), NEW f \in FrameType(n), HeldBlocks(f), f.dep = Top.dep,
           Len(scopes') >= DepthBelow(f),
           Stay(f) \/ \E e \in Nodes : Enter(f, e)
    PROVE  IInv'
<1>1. /\ Len(cir.blk) <= Len(cir'.blk) /\ cir'.cur # 0 /\ cir'.fun # << >>
      /\ frames # << >> /\ status = "gen" /\ f \in FrameType(Len(cir'.blk))
  BY DEF InFunction, Ready
<1>2. CASE Stay(f)
  BY <1>1, <1>2, StayLemma
<1>3. CASE \E e \in Nodes : Enter(f, e)
  <2>1. PICK e \in Nodes : Enter(f, e)
    BY <1>3
  <2>. QED
    BY <1>1, <2>1, EnterLemma
<1>. QED
  BY <1>2, <1>3

-----------------------------------------------------------------------------
(* Expressions without control flow.                                       *)

\* The operands of an expression have been evaluated.
LEMMA EvaluatedLemma ==
    ASSUME IInv, NEW kind, Evaluated(kind)
    PROVE  /\ Ready /\ Top.node.kind = kind /\ Top.i = Operands(Top.node)
           /\ Top.at \in {"start", "operand"}
  BY ReadyLemma DEF Evaluated

\* cir_gen of a literal and of a lone semicolon.
LEMMA ConstantLemma ==
    ASSUME IInv, Constant
    PROVE  IInv'
<1>. DEFINE i == Literal(Top.node.kind)
            Set == {i1 \in Instruction(Len(cir.blk)) : ~Branches(i1)}
<1>1. Ready
  BY ReadyLemma DEF Constant
<1>2. i \in Instruction(Len(cir.blk)) /\ ~Branches(i)
  <2>1. /\ Instr("ConstNumber", "val", << >>) \in Set /\ Instr("Sizeof", "val", << >>) \in Set
        /\ Instr("ConstBool", "bool", << >>) \in Set /\ Instr("LoadString", "ptr", << >>) \in Set
        /\ Instr("ConstNull", "ptr", << >>) \in Set /\ Instr("ConstVoid", "void", << >>) \in Set
    BY <1>1, BuildOperandsLemma, NamesLemma DEF Ready
  <2>. HIDE DEF Set
  <2>2. i \in Set
    BY <2>1 DEF Literal
  <2>. QED
    BY <2>2 DEF Set
<1>3. EmitAndLeave(cir, i) /\ Steady /\ SameStacks /\ varRefs' = varRefs
  BY DEF Constant
<1>. HIDE DEF i
<1>. QED
  BY <1>1, <1>2, <1>3, EmitAndLeaveLemma DEF Ready

\* VariableExprAST::cir_gen.
LEMMA VariableExprLemma ==
    ASSUME IInv, VariableExpr_gen
    PROVE  IInv'
<1>. DEFINE ref == varRefs[Top.node.x]
            i == IF Top.node.x \in Globals THEN Instr("LoadGlobal", Top.node.ty, << >>)
                 ELSE Instr("LoadVar", Top.node.ty, <<ref>>)
<1>1. Ready /\ Top.node.kind = "variable"
  BY ReadyLemma DEF VariableExpr_gen
<1>2. ref \in InstrRef /\ Top.node.ty \in Types
  BY <1>1, ProgramsAssumption DEF Ready
<1>3. EmitAndLeave(cir, i) /\ Steady /\ SameStacks /\ varRefs' = varRefs
  BY DEF VariableExpr_gen
<1>. HIDE DEF ref
<1>4. i \in Instruction(Len(cir.blk)) /\ ~Branches(i)
  BY <1>1, <1>2, BuildOperandsLemma, NamesLemma DEF Ready
<1>. HIDE DEF i
<1>. QED
  BY <1>1, <1>3, <1>4, EmitAndLeaveLemma DEF Ready

\* What the actions that only change the activations leave alone.
LEMMA UnchangedLemma ==
    ASSUME IInv, Ready, Steady, SameStacks, UNCHANGED <<cir, varRefs, ret>>
    PROVE  /\ RestOK' /\ fn' = fn /\ InFunction(cir', Len(cir.blk)) /\ scopes' = scopes
           /\ cir' = cir
<1>1. RestOK'
  BY IInvParts DEF RestOK, Steady, SameStacks
<1>. QED
  BY <1>1 DEF Ready, Steady, SameStacks

\* The evaluation of an operand.
LEMMA OperandLemma ==
    ASSUME IInv, Operand
    PROVE  IInv'
<1>. DEFINE i == Top.i + 1
            ref == IF Top.i = 0 THEN NoRef ELSE ret
            f == [Top EXCEPT !.at = "operand", !.i = i, !.keep = ref]
            e == Top.node.kids[Top.i + 1]
<1>1. Ready /\ Top.node.kind \notin Scoped \union {"if"} /\ DepthBelow(Top) = Top.dep
  BY ReadyLemma DEF Operand, At, DepthBelow, InBody, Scoped
<1>2. Enter(f, e) /\ Steady /\ SameStacks /\ UNCHANGED <<cir, varRefs, ret>>
  BY DEF Operand
<1>3. Top.i \in Nat /\ i \in Nat /\ e \in Nodes
  <2>1. Top.node.kids \in Seq(Nodes) /\ Top.i \in Nat /\ Top.i < Operands(Top.node)
    BY <1>1, TopLemma, NodeLemma DEF Operand, Ready
  <2>2. Operands(Top.node) <= Len(Top.node.kids) /\ Operands(Top.node) \in Int
    BY <2>1 DEF Operands
  <2>. QED
    BY <2>1, <2>2
<1>4. ref \in InstrRef /\ "operand" \in Points
  BY <1>1, NamesLemma DEF Ready, Points
<1>. HIDE DEF i, ref, e
<1>5. f \in FrameType(Len(cir.blk))
  BY <1>1, <1>3, <1>4 DEF FrameType, Ready
<1>6. f.dep = Top.dep /\ f.node = Top.node /\ f.at = "operand"
  BY <1>1 DEF FrameType, Ready
<1>. HIDE DEF f
<1>7. HeldBlocks(f) /\ DepthBelow(f) = Top.dep
  BY <1>1, <1>6 DEF HeldBlocks, DepthBelow, InBody
<1>. QED
  BY <1>1, <1>2, <1>3, <1>5, <1>6, <1>7, UnchangedLemma, GoOnLemma DEF Ready

\* VarExprAST::cir_gen: the variable gets a reference.
LEMMA VarExprLemma ==
    ASSUME IInv, VarExpr_gen
    PROVE  IInv'
<1>. DEFINE n == Len(cir.blk)
            e == IF Top.i = 0 THEN [c |-> cir, r |-> NoRef]
                 ELSE IF IsEmpty(ret) THEN [c |-> cir, r |-> ret]
                 ELSE Convert(cir, ret, Top.node.kids[1].ty, Top.node.ty)
            i == Instr("VarInit", Top.node.ty, <<e.r>>)
<1>1. Ready /\ Top.node.kind = "var"
  BY EvaluatedLemma DEF VarExpr_gen
<1>2. Top.node.x \in VarNames /\ Top.node.ty \in Types
  BY <1>1, NodeLemma, ProgramsAssumption DEF Ready
<1>3. InFunction(e.c, n) /\ e.r \in InstrRef
  BY <1>1, <1>2, BuildConvertLemma, NamesLemma DEF Ready
<1>4. EmitAndLeave(e.c, i) /\ Steady /\ SameStacks /\ varRefs' = [varRefs EXCEPT ![Top.node.x] = ret']
  BY DEF VarExpr_gen
<1>. HIDE DEF e
<1>5. i \in Instruction(n) /\ ~Branches(i)
  <2>1. n \in Nat /\ "VarInit" \in Opcodes \ {"Goto", "GotoIf"}
    BY <1>1, NamesLemma DEF Ready
  <2>. QED
    BY <1>2, <1>3, <2>1, BuildOperandsLemma
<1>. HIDE DEF i
<1>6. ret' \in InstrRef /\ (varRefs' \in [VarNames -> InstrRef] => IInv')
  BY <1>1, <1>3, <1>4, <1>5, EmitAndLeaveLemma DEF Ready
<1>. QED
  BY <1>1, <1>2, <1>4, <1>6 DEF Ready

\* equalOperator.
LEMMA AssignLemma ==
    ASSUME IInv, Assign_gen
    PROVE  IInv'
<1>. DEFINE n == Len(cir.blk)
            e == Convert(cir, ret, Top.node.kids[1].ty, Top.node.ty)
            ref == varRefs[Top.node.x]
            i == IF Top.node.x \in Globals THEN Instr("StoreGlobal", "void", <<e.r>>)
                 ELSE Instr("StoreVar", "void", <<ref, e.r>>)
<1>1. Ready /\ Top.node.kind = "assign"
  BY EvaluatedLemma DEF Assign_gen
<1>2. ref \in InstrRef /\ Top.node.ty \in Types
  BY <1>1, NodeLemma, ProgramsAssumption DEF Ready
<1>3. InFunction(e.c, n) /\ e.r \in InstrRef
  BY <1>1, <1>2, BuildConvertLemma DEF Ready
<1>4. EmitAndLeave(e.c, i) /\ Steady /\ SameStacks /\ varRefs' = varRefs
  BY DEF Assign_gen
<1>. HIDE DEF e, ref
<1>5. i \in Instruction(n) /\ ~Branches(i)
  BY <1>1, <1>2, <1>3, BuildOperandsLemma, NamesLemma DEF Ready
<1>. HIDE DEF i
<1>. QED
  BY <1>1, <1>3, <1>4, <1>5, EmitAndLeaveLemma DEF Ready

\* An operand of an addition.
LEMMA AsI64Lemma ==
    ASSUME NEW n \in Nat, NEW c, InFunction(c, n), NEW ref \in InstrRef, NEW op, NEW ty \in Types
    PROVE  LET e == AsI64(op, c, ref, ty)
           IN  InFunction(e.c, n) /\ e.r \in InstrRef /\ e.ty \in Types
<1>. DEFINE to == IF op = "+" /\ ty = "ptr" THEN "i64" ELSE ty
            e == Convert(c, ref, ty, to)
<1>1. to \in Types
  BY NamesLemma
<1>2. AsI64(op, c, ref, ty) = [c |-> e.c, r |-> e.r, ty |-> to]
  BY DEF AsI64
<1>. HIDE DEF to
<1>3. InFunction(e.c, n) /\ e.r \in InstrRef
  BY <1>1, BuildConvertLemma
<1>. QED
  BY <1>1, <1>2, <1>3

\* BinaryExprAST::cir_gen.
LEMMA BinaryExprLemma ==
    ASSUME IInv, BinaryExpr_gen
    PROVE  IInv'
<1>. DEFINE n == Len(cir.blk)
            op == Top.node.x
            left == AsI64(op, cir, Top.keep, Top.node.kids[1].ty)
            right == AsI64(op, left.c, ret, Top.node.kids[2].ty)
            e == Convert(right.c, right.r, right.ty, left.ty)
            i == Instr("Binary", Top.node.ty, <<left.r, e.r>>)
<1>1. Ready /\ Top.node.kind = "binary"
  BY EvaluatedLemma DEF BinaryExpr_gen
<1>2. /\ Top.keep \in InstrRef /\ Top.node.ty \in Types
      /\ Top.node.kids[1].ty \in Types /\ Top.node.kids[2].ty \in Types
  BY <1>1, TopLemma, NodeLemma, ProgramsAssumption, SMTT(30) DEF Ready
<1>3. /\ Steady /\ SameStacks /\ varRefs' = varRefs
      /\ (cir' = e.c /\ Leave(NoRef)) \/ EmitAndLeave(e.c, i)
  BY DEF BinaryExpr_gen
<1>4. InFunction(left.c, n) /\ left.r \in InstrRef /\ left.ty \in Types
  BY <1>1, <1>2, AsI64Lemma DEF Ready
<1>. HIDE DEF left
<1>5. InFunction(right.c, n) /\ right.r \in InstrRef
  BY <1>1, <1>2, <1>4, AsI64Lemma DEF Ready
<1>. HIDE DEF right
<1>6. InFunction(e.c, n) /\ e.r \in InstrRef
  BY <1>1, <1>4, <1>5, BuildConvertLemma DEF Ready
<1>. HIDE DEF e
<1>7. i \in Instruction(n) /\ ~Branches(i)
  <2>1. n \in Nat /\ "Binary" \in Opcodes \ {"Goto", "GotoIf"}
    BY <1>1, NamesLemma DEF Ready
  <2>. QED
    BY <1>2, <1>4, <1>6, <2>1, BuildOperandsLemma
<1>. HIDE DEF i
<1>8. CASE EmitAndLeave(e.c, i)
  BY <1>1, <1>3, <1>6, <1>7, <1>8, EmitAndLeaveLemma DEF Ready
<1>9. CASE cir' = e.c /\ Leave(NoRef)
  <2>1. ret' \in InstrRef /\ frames' = Front(frames) /\ errors' \in BOOLEAN
    BY <1>3, <1>9, NamesLemma, IInvParts DEF Leave, RestOK, SameStacks
  <2>. QED
    BY <1>1, <1>3, <1>6, <1>9, <2>1, LeftLemma DEF SameStacks
<1>. QED
  BY <1>3, <1>8, <1>9

\* The types of the arguments in a prototype.
LEMMA ProtoLemma ==
    ASSUME NEW f, NEW k \in DOMAIN Proto(f).args
    PROVE  Proto(f).args[k] \in Types
<1>1. CASE \E F \in 1..fn : prog[F].name = f
  BY <1>1, NamesLemma DEF Proto
<1>2. CASE ~(\E F \in 1..fn : prog[F].name = f) /\ f \in DOMAIN Externs
  BY <1>2, ProgramsAssumption DEF Proto
<1>3. CASE ~(\E F \in 1..fn : prog[F].name = f) /\ f \notin DOMAIN Externs
  BY <1>3 DEF Proto
<1>. QED
  BY <1>1, <1>2, <1>3

\* An argument of a call, and a member of a vector: it is kept, and the next
\* one is evaluated.
LEMMA KeepLemma ==
    ASSUME IInv, Ready, Top.node.kind \in {"call", "vector"}, NEW r \in InstrRef,
           Stay([Top EXCEPT !.at = "start", !.refs = Append(@, r)]),
           InFunction(cir', Len(cir.blk)), Steady, SameStacks, UNCHANGED <<varRefs, ret>>
    PROVE  IInv'
<1>. DEFINE refs == Append(Top.refs, r)
            f == [Top EXCEPT !.at = "start", !.refs = refs]
<1>1. Stay(f)
  BY DEF Ready, FrameType
<1>2. refs \in Seq(InstrRef) /\ "start" \in Points
  BY DEF Ready, FrameType, Points
<1>. HIDE DEF refs
<1>3. f \in FrameType(Len(cir.blk)) /\ f.dep = Top.dep /\ f.at = "start" /\ f.node = Top.node
  BY <1>2 DEF Ready, FrameType
<1>. HIDE DEF f
<1>4. HeldBlocks(f) /\ DepthBelow(f) = Top.dep
  BY <1>3 DEF HeldBlocks, DepthBelow, InBody
<1>5. RestOK'
  BY SteadyLemma DEF Ready, InFunction
<1>. QED
  BY <1>1, <1>3, <1>4, <1>5, GoOnLemma DEF Ready, Steady, SameStacks

\* The conversion of an argument.
LEMMA ArgumentLemma ==
    ASSUME IInv, Argument
    PROVE  IInv'
<1>. DEFINE p == Proto(Top.node.x)
            e == IF p.variadic THEN [c |-> cir, r |-> ret]
                 ELSE Convert(cir, ret, Top.node.kids[Top.i].ty, p.args[Top.i])
<1>1. Ready /\ Top.node.kind = "call"
  BY ReadyLemma DEF Argument
<1>2. /\ p.variadic \/ Top.i \in DOMAIN p.args
      /\ cir' = e.c /\ Stay([Top EXCEPT !.at = "start", !.refs = Append(@, e.r)])
      /\ Steady /\ SameStacks /\ UNCHANGED <<varRefs, ret>>
  BY DEF Argument
<1>3. Top.i \in DOMAIN p.args => p.args[Top.i] \in Types
  BY ProtoLemma
<1>. HIDE DEF p
<1>4. InFunction(e.c, Len(cir.blk)) /\ e.r \in InstrRef
  BY <1>1, <1>2, <1>3, BuildConvertLemma DEF Ready
<1>. HIDE DEF e
<1>. QED
  BY <1>1, <1>2, <1>4, KeepLemma

\* CallExprAST::cir_gen.
LEMMA CallExprLemma ==
    ASSUME IInv, CallExpr_gen
    PROVE  IInv'
<1>. DEFINE i == IF "Unreachable" \in Top.node.contains
                 THEN Instr("ConstNever", "never", << >>)
                 ELSE Instr("Call", Top.node.ty, Top.refs)
<1>1. Ready
  BY ReadyLemma DEF CallExpr_gen
<1>2. Top.node.ty \in Types /\ Top.refs \in Seq(InstrRef) /\ << >> \in Seq(InstrRef)
  BY <1>1, NodeLemma DEF Ready, FrameType
<1>3. i \in Instruction(Len(cir.blk)) /\ ~Branches(i)
  BY <1>1, <1>2, InstrLemma, NamesLemma DEF Ready
<1>4. EmitAndLeave(cir, i) /\ Steady /\ SameStacks /\ varRefs' = varRefs
  BY DEF CallExpr_gen
<1>. HIDE DEF i
<1>. QED
  BY <1>1, <1>3, <1>4, EmitAndLeaveLemma DEF Ready

\* ReturnAST::cir_gen: the conversion is to the type of the function.
LEMMA ReturnLemma ==
    ASSUME IInv, Return_gen
    PROVE  IInv'
<1>. DEFINE n == Len(cir.blk)
            e == Convert(cir, ret, Top.node.kids[1].ty, prog[fn].node.ty)
            i == Instr("Return", "never", <<e.r>>)
<1>1. Ready /\ Top.node.kind = "return"
  BY EvaluatedLemma DEF Return_gen
<1>2. Top.node.kids[1].ty \in Types /\ prog[fn].node.ty \in Types
  <2>1. fn \in 1..Len(prog)
    BY <1>1, InsideLemma DEF Ready
  <2>2. prog[fn].node.ty \in Types
    BY <2>1, FunctionLemma, NodeLemma
  <2>. QED
    BY <1>1, <2>2, NodeLemma, ProgramsAssumption DEF Ready
<1>3. InFunction(e.c, n) /\ e.r \in InstrRef
  BY <1>1, <1>2, BuildConvertLemma DEF Ready
<1>4. EmitAndLeave(e.c, i) /\ Steady /\ SameStacks /\ varRefs' = varRefs
  BY DEF Return_gen
<1>. HIDE DEF e
<1>5. i \in Instruction(n) /\ ~Branches(i)
  BY <1>1, <1>3, BuildOperandsLemma, NamesLemma DEF Ready
<1>. HIDE DEF i
<1>. QED
  BY <1>1, <1>3, <1>4, <1>5, EmitAndLeaveLemma DEF Ready

\* MatchExprAST::cir_gen.
LEMMA MatchExprLemma ==
    ASSUME IInv, MatchExpr_gen
    PROVE  IInv'
<1>1. Ready /\ Steady /\ SameStacks /\ UNCHANGED <<cir, varRefs>> /\ Leave(NoRef)
  BY ReadyLemma DEF MatchExpr_gen
<1>2. RestOK'
  BY <1>1, IInvParts, NamesLemma DEF RestOK, Steady, SameStacks, Leave
<1>. QED
  BY <1>1, <1>2, JustLeaveLemma DEF Ready, Steady, SameStacks

\* LabelExprAST::cir_gen: a block with the name of the label.
LEMMA LabelExprLemma ==
    ASSUME IInv, LabelExpr_gen
    PROVE  IInv'
<1>. DEFINE n == Len(cir.blk)
            c == NewBlock(cir, Top.node.x)
            b == LastBlock(c)
<1>1. Ready /\ Top.node.kind = "label"
  BY ReadyLemma DEF LabelExpr_gen
<1>2. Top.node.x \in BlockNames /\ n \in Nat
  BY <1>1, ProgramsAssumption DEF Ready, BlockNames
<1>3. InFunction(c, n + 1) /\ b \in 1..(n + 1)
  BY <1>1, <1>2, BuildBlockLemma DEF Ready
<1>4. cir' = SetInsertPoint(CreateGoto(AddBasicBlock(c, b), b), b)
  BY DEF LabelExpr_gen
<1>. HIDE DEF c, b
<1>5. InFunction(cir', n + 1)
  BY <1>2, <1>3, <1>4, BuildLemma
<1>6. Steady /\ SameStacks /\ varRefs' = varRefs /\ Leave(NoRef)
  BY DEF LabelExpr_gen
<1>7. RestOK'
  BY <1>1, <1>2, <1>5, <1>6, SteadyLemma, NamesLemma DEF InFunction, Leave, Ready
<1>. QED
  BY <1>1, <1>2, <1>5, <1>6, <1>7, JustLeaveLemma DEF Ready, Steady, SameStacks

\* An action that ends the compiler.
LEMMA AbortLemma ==
    ASSUME IInv, Abort
    PROVE  IInv'
  BY DEF IInv, Abort, TypeOK, Blocks, BranchesRecorded, ScopesDeepEnough

\* A break in a loop.
LEMMA BreakExprLemma ==
    ASSUME IInv, BreakExpr_gen
    PROVE  IInv'
<1>. DEFINE n == Len(cir.blk)
            c == CreateGoto(cir, Last(breaks))
            i == Instr("ConstVoid", "void", << >>)
<1>1. Ready
  BY ReadyLemma DEF BreakExpr_gen
<1>2. Last(breaks) \in 1..n
  BY <1>1, InsideLemma, StackLemma DEF BreakExpr_gen, Ready
<1>3. InFunction(c, n)
  BY <1>1, <1>2, BuildLemma DEF Ready
<1>4. i \in Instruction(n) /\ ~Branches(i)
  BY <1>1, BuildOperandsLemma, NamesLemma DEF Ready
<1>5. EmitAndLeave(c, i) /\ Steady /\ SameStacks /\ varRefs' = varRefs
  BY DEF BreakExpr_gen
<1>. HIDE DEF c, i
<1>. QED
  BY <1>1, <1>3, <1>4, <1>5, EmitAndLeaveLemma DEF Ready

\* A break reported as an error.
LEMMA BreakErrorLemma ==
    ASSUME IInv, BreakExpr_error
    PROVE  IInv'
  BY ReadyLemma, ReportLemma DEF BreakExpr_error

-----------------------------------------------------------------------------
(* Expressions on memory.                                                  *)

\* The child that is used in place, and the variable it is.
LEMMA InPlaceLemma ==
    ASSUME IInv, Ready, Top.node.kind \in Placed
    PROVE  /\ InPlace \in Nodes
           /\ InPlace.kind = "variable" => varRefs[InPlace.x] \in InstrRef
<1>1. Top.node.kids \in Seq(Nodes) /\ Top.node.kids # << >>
  BY ProgramsAssumption DEF Ready
<1>2. InPlace \in Nodes
  BY <1>1, StackLemma DEF InPlace
<1>. QED
  BY <1>2, ProgramsAssumption DEF Ready

\* UnaryExprAST: the address of a variable.
LEMMA AddrExprLemma ==
    ASSUME IInv, AddrExpr_gen
    PROVE  IInv'
<1>1. Ready /\ Top.node.kind = "addr"
  BY ReadyLemma DEF AddrExpr_gen
<1>2. /\ Leave(IF InPlace.kind = "variable" THEN varRefs[InPlace.x] ELSE NoRef)
      /\ Steady /\ SameStacks /\ UNCHANGED <<cir, varRefs>>
  BY DEF AddrExpr_gen
<1>3. ret' \in InstrRef /\ frames' = Front(frames) /\ errors' \in BOOLEAN
  BY <1>1, <1>2, InPlaceLemma, NamesLemma, IInvParts DEF Placed, Leave, SameStacks, RestOK
<1>. QED
  BY <1>1, <1>2, <1>3, LeftLemma DEF Ready, SameStacks

\* DerefExprAST::cir_gen.
LEMMA DerefExprLemma ==
    ASSUME IInv, DerefExpr_gen
    PROVE  IInv'
<1>. DEFINE ref == varRefs[InPlace.x]
            i == Instr("Deref", Top.node.ty, <<ref>>)
<1>1. Ready /\ Top.node.kind = "deref"
  BY ReadyLemma DEF DerefExpr_gen
<1>2. \/ EmitAndLeave(cir, i) /\ Steady /\ SameStacks /\ varRefs' = varRefs
      \/ Report
  BY DEF DerefExpr_gen
<1>3. ref \in InstrRef /\ Top.node.ty \in Types
  BY <1>1, InPlaceLemma, NodeLemma DEF DerefExpr_gen, Placed, Ready
<1>. HIDE DEF ref
<1>4. i \in Instruction(Len(cir.blk)) /\ ~Branches(i)
  BY <1>1, <1>3, BuildOperandsLemma, NamesLemma DEF Ready
<1>. HIDE DEF i
<1>5. CASE Report
  BY <1>1, <1>5, ReportLemma
<1>6. CASE EmitAndLeave(cir, i) /\ Steady /\ SameStacks /\ varRefs' = varRefs
  BY <1>1, <1>4, <1>6, EmitAndLeaveLemma DEF Ready
<1>. QED
  BY <1>2, <1>5, <1>6

\* The addresses of an element and of a member.
LEMMA GEPLemma ==
    ASSUME IInv, Ready, Top.node.kind \in Placed, NEW index,
           InPlace.kind # "variable" => IsEmpty(ret)
    PROVE  /\ LET e == GEP_index(index)
              IN  InFunction(e.c, Len(cir.blk)) /\ e.r \in InstrRef
           /\ InPlace.kind = "variable" =>
                  InFunction(GEP_member.c, Len(cir.blk)) /\ GEP_member.r \in InstrRef
<1>. DEFINE n == Len(cir.blk)
            ref == varRefs[InPlace.x]
            e == Convert(cir, ret, index.ty, "i64")
            i == Instr("GepArray", "ptr", <<ref, e.r>>)
            m == Instr("GepStruct", "ptr", <<ref>>)
<1>1. InPlace.kind = "variable" => ref \in InstrRef
  BY InPlaceLemma
<1>2. \/ GEP_index(index) = [c |-> cir, r |-> NoRef]
      \/ ~IsEmpty(ret) /\ GEP_index(index) = Emit(e.c, i)
  BY DEF GEP_index
<1>3. GEP_member = Emit(cir, m)
  BY DEF GEP_member
<1>. HIDE DEF ref
<1>4. InFunction(e.c, n) /\ e.r \in InstrRef
  BY BuildConvertLemma, NamesLemma DEF Ready
<1>. HIDE DEF e
<1>5. ref \in InstrRef => /\ i \in Instruction(n) /\ ~Branches(i)
                         /\ m \in Instruction(n) /\ ~Branches(m)
  BY <1>4, BuildOperandsLemma, NamesLemma DEF Ready
<1>. HIDE DEF i, m
<1>6. ref \in InstrRef => /\ InFunction(Emit(e.c, i).c, n) /\ Emit(e.c, i).r \in InstrRef
                         /\ InFunction(Emit(cir, m).c, n) /\ Emit(cir, m).r \in InstrRef
  BY <1>4, <1>5, BuildInstructionLemma DEF Ready
<1>7. InFunction(cir, n) /\ NoRef \in InstrRef
  BY NamesLemma DEF Ready
<1>. QED
  BY <1>1, <1>2, <1>3, <1>6, <1>7

\* What reads or writes at an address.
LEMMA LeaveWithLemma ==
    ASSUME IInv, Ready, NEW gep, InFunction(gep.c, Len(cir.blk)), gep.r \in InstrRef,
           NEW op \in Opcodes \ {"Goto", "GotoIf"}, NEW ty \in Types, NEW rest \in Seq(InstrRef),
           LeaveWith(gep, op, ty, rest)
    PROVE  IInv'
<1>. DEFINE t == IF op = "Deref" /\ IsEmpty(gep.r) THEN "none" ELSE ty
            uses == <<gep.r>> \o rest
            i == Instr(op, t, uses)
<1>1. t \in Types
  BY NamesLemma
<1>2. uses \in Seq(InstrRef)
  <2>1. <<gep.r>> \in Seq(InstrRef)
    OBVIOUS
  <2>. QED
    BY <2>1
<1>3. /\ EmitAndLeave(gep.c, i) /\ errors' = (errors \/ IsEmpty(gep.r))
      /\ Steady /\ UNCHANGED <<varRefs, scopes, breaks, freed>>
  BY DEF LeaveWith
<1>. HIDE DEF t, uses
<1>4. i \in Instruction(Len(cir.blk)) /\ ~Branches(i)
  BY <1>1, <1>2, InstrLemma DEF Ready
<1>. HIDE DEF i
<1>5. InFunction(Emit(gep.c, i).c, Len(cir.blk)) /\ Emit(gep.c, i).r \in InstrRef
  BY <1>4, BuildInstructionLemma DEF Ready
<1>6. /\ InFunction(cir', Len(cir.blk)) /\ ret' \in InstrRef /\ frames' = Front(frames)
      /\ errors' \in BOOLEAN
  BY <1>3, <1>5 DEF EmitAndLeave, Leave
<1>. QED
  BY <1>3, <1>6, LeftLemma

\* Elements and members.
LEMMA ElementLemma ==
    ASSUME IInv, ReadElement \/ WriteElement \/ ReadMember \/ WriteMember
    PROVE  IInv'
<1>1. Ready /\ Top.node.kind \in Placed
  BY ReadyLemma, EvaluatedLemma DEF ReadElement, WriteElement, ReadMember, WriteMember, Placed
<1>2. /\ Top.node.ty \in Types /\ "void" \in Types /\ << >> \in Seq(InstrRef)
      /\ <<ret>> \in Seq(InstrRef) /\ <<Top.keep>> \in Seq(InstrRef)
      /\ {"Deref", "StoreInPtr"} \subseteq Opcodes \ {"Goto", "GotoIf"}
  BY <1>1, NodeLemma, TopLemma, NamesLemma DEF Ready
<1>3. CASE ReadElement
  BY <1>1, <1>2, <1>3, GEPLemma, LeaveWithLemma DEF ReadElement
<1>4. CASE WriteElement
  BY <1>1, <1>2, <1>4, GEPLemma, LeaveWithLemma DEF WriteElement
<1>5. CASE ReadMember
  BY <1>1, <1>2, <1>5, GEPLemma, LeaveWithLemma DEF ReadMember
<1>6. CASE WriteMember
  BY <1>1, <1>2, <1>6, GEPLemma, LeaveWithLemma DEF WriteMember
<1>. QED
  BY <1>3, <1>4, <1>5, <1>6

\* SizeofExprAST::cir_gen and AsmExprAST::cir_gen.
LEMMA SizeofExprLemma ==
    ASSUME IInv, SizeofExpr_gen
    PROVE  IInv'
<1>. DEFINE i == Instr("Sizeof", "val", <<ret>>)
<1>1. Ready
  BY EvaluatedLemma DEF SizeofExpr_gen
<1>2. i \in Instruction(Len(cir.blk)) /\ ~Branches(i)
  BY <1>1, BuildOperandsLemma, NamesLemma DEF Ready
<1>3. EmitAndLeave(cir, i) /\ Steady /\ SameStacks /\ varRefs' = varRefs
  BY DEF SizeofExpr_gen
<1>. HIDE DEF i
<1>. QED
  BY <1>1, <1>2, <1>3, EmitAndLeaveLemma DEF Ready

\* The operands of assembly are variables.
LEMMA AsmExprLemma ==
    ASSUME IInv, AsmExpr_gen
    PROVE  IInv'
<1>. DEFINE args == Top.node.kids
            uses == [k \in DOMAIN args |-> varRefs[args[k].x]]
            i == Instr("InlineAsm", "none", uses)
<1>1. Ready /\ args \in Seq(Nodes)
  BY ReadyLemma, NodeLemma DEF AsmExpr_gen, Ready
<1>2. \/ Report
      \/ /\ \A k \in DOMAIN args : args[k].kind = "variable"
         /\ EmitAndLeave(cir, i) /\ Steady /\ SameStacks /\ varRefs' = varRefs
  BY DEF AsmExpr_gen
<1>3. CASE Report
  BY <1>1, <1>3, ReportLemma
<1>4. CASE /\ \A k \in DOMAIN args : args[k].kind = "variable"
           /\ EmitAndLeave(cir, i) /\ Steady /\ SameStacks /\ varRefs' = varRefs
  <2>1. DOMAIN args = 1..Len(args) /\ Len(args) \in Nat /\ \A k \in DOMAIN args : args[k] \in Nodes
    BY <1>1
  <2>2. \A k \in DOMAIN args : varRefs[args[k].x] \in InstrRef
    BY <1>1, <1>4, <2>1, ProgramsAssumption DEF Ready
  <2>. HIDE DEF args
  <2>3. uses \in Seq(InstrRef)
    BY <2>1, <2>2
  <2>. HIDE DEF uses
  <2>4. i \in Instruction(Len(cir.blk)) /\ ~Branches(i)
    BY <1>1, <2>3, InstrLemma, NamesLemma DEF Ready
  <2>. HIDE DEF i
  <2>. QED
    BY <1>1, <1>4, <2>4, EmitAndLeaveLemma DEF Ready
<1>. QED
  BY <1>2, <1>3, <1>4

\* CastExprAST::cir_gen, whatever the type it finds.
LEMMA CastExprLemma ==
    ASSUME IInv, CastExpr_gen
    PROVE  IInv'
<1>. DEFINE e == Convert(cir, ret, TypeAt(cir, ret), Top.node.ty)
<1>1. Ready
  BY EvaluatedLemma DEF CastExpr_gen
<1>2. cir' = e.c /\ Leave(e.r) /\ Steady /\ SameStacks /\ varRefs' = varRefs
  BY DEF CastExpr_gen
<1>3. InFunction(e.c, Len(cir.blk)) /\ e.r \in InstrRef
  BY <1>1, NodeLemma, BuildConvertLemma DEF Ready
<1>. HIDE DEF e
<1>4. /\ InFunction(cir', Len(cir.blk)) /\ ret' \in InstrRef /\ frames' = Front(frames)
      /\ errors' \in BOOLEAN
  BY <1>2, <1>3, IInvParts DEF Leave, SameStacks, RestOK
<1>. QED
  BY <1>1, <1>2, <1>4, LeftLemma DEF SameStacks

\* A member of a vector.
LEMMA VectorMemberLemma ==
    ASSUME IInv, VectorMember
    PROVE  IInv'
<1>1. Ready /\ Top.node.kind = "vector"
  BY ReadyLemma DEF VectorMember
<1>2. \/ /\ Stay([Top EXCEPT !.at = "start", !.refs = Append(@, ret)])
         /\ Steady /\ SameStacks /\ UNCHANGED <<cir, varRefs, ret>>
      \/ Report
  BY DEF VectorMember
<1>3. CASE Report
  BY <1>1, <1>3, ReportLemma
<1>. QED
  BY <1>1, <1>2, <1>3, KeepLemma DEF Ready

\* ConstantVectorExprAST::cir_gen.
LEMMA ConstantVectorLemma ==
    ASSUME IInv, ConstantVectorExpr_gen
    PROVE  IInv'
<1>. DEFINE i == Instr("ConstVector", "array", Top.refs)
<1>1. Ready
  BY ReadyLemma DEF ConstantVectorExpr_gen
<1>2. i \in Instruction(Len(cir.blk)) /\ ~Branches(i)
  BY <1>1, InstrLemma, NamesLemma DEF Ready, FrameType
<1>3. EmitAndLeave(cir, i) /\ Steady /\ SameStacks /\ varRefs' = varRefs
  BY DEF ConstantVectorExpr_gen
<1>. HIDE DEF i
<1>. QED
  BY <1>1, <1>2, <1>3, EmitAndLeaveLemma DEF Ready

\* Every expression on memory.
LEMMA MemoryLemma ==
    ASSUME IInv, Memory
    PROVE  IInv'
<1>1. CASE AddrExpr_gen \/ DerefExpr_gen \/ SizeofExpr_gen \/ CastExpr_gen \/ AsmExpr_gen
  BY <1>1, AddrExprLemma, DerefExprLemma, SizeofExprLemma, CastExprLemma, AsmExprLemma
<1>2. CASE ReadElement \/ ReadMember \/ WriteElement \/ WriteMember
  BY <1>2, ElementLemma
<1>3. CASE VectorMember \/ ConstantVectorExpr_gen
  BY <1>3, VectorMemberLemma, ConstantVectorLemma
<1>4. CASE StructMemberCallExpr_gen
  BY <1>4, ReadyLemma, ReportLemma DEF StructMemberCallExpr_gen
<1>5. CASE NotImplemented \/ Operand_missing
  BY <1>5, AbortLemma DEF NotImplemented, Operand_missing
<1>. QED
  BY <1>1, <1>2, <1>3, <1>4, <1>5 DEF Memory

\* The expressions on memory and the arguments of a call leave the stacks alone:
\* they return, keep a reference, or end the compiler.
LEMMA MemoryWays ==
    ASSUME Memory \/ Argument \/ Argument_missing
    PROVE  /\ status = "gen" /\ frames # << >>
           /\ Top.node.kind \notin Scoped \union {"if"}
           /\ UNCHANGED <<prog, fn, scopes, breaks, freed>>
           /\ \/ frames' = Front(frames)
              \/ \E r : Stay([Top EXCEPT !.at = "start", !.refs = Append(@, r)])
              \/ Abort
<1>1. CASE Argument \/ VectorMember
  BY <1>1 DEF Argument, VectorMember, Report, Leave, Steady, SameStacks, At, Scoped
<1>2. CASE AddrExpr_gen \/ DerefExpr_gen \/ StructMemberCallExpr_gen
  BY <1>2 DEF AddrExpr_gen, DerefExpr_gen, StructMemberCallExpr_gen, EmitAndLeave, Report, Leave,
              Steady, SameStacks, At, Scoped
<1>3. CASE ReadElement \/ ReadMember \/ WriteElement \/ WriteMember
  BY <1>3 DEF ReadElement, ReadMember, WriteElement, WriteMember, LeaveWith, EmitAndLeave, Leave,
              Steady, Evaluated, At, Scoped
<1>4. CASE SizeofExpr_gen \/ CastExpr_gen \/ ConstantVectorExpr_gen \/ AsmExpr_gen
  BY <1>4 DEF SizeofExpr_gen, CastExpr_gen, ConstantVectorExpr_gen, AsmExpr_gen, EmitAndLeave,
              Report, Leave, Steady, SameStacks, Evaluated, At, Scoped
<1>5. CASE NotImplemented \/ Operand_missing \/ Argument_missing
  BY <1>5 DEF NotImplemented, Operand_missing, Argument_missing, Abort, Evaluated, At, Scoped
<1>. QED
  BY <1>1, <1>2, <1>3, <1>4, <1>5 DEF Memory

-----------------------------------------------------------------------------
(* Scopes.                                                                 *)

\* An action that changes the scopes and blocksForBreak too.
LEMMA StacksLemma ==
    ASSUME IInv, Ready, Steady, NEW n \in Nat, n >= Len(cir.blk), InFunction(cir', n),
           ret' \in InstrRef, varRefs' \in [VarNames -> InstrRef],
           scopes' \in Seq(Seq(Nodes)), breaks' \in Seq(1..n),
           freed' \in {freed, freed \union {Top.after}}, Top.after \in 1..n,
           errors' = errors
    PROVE  RestOK' /\ fn' = fn
<1>1. RestOK
  BY IInvParts
<1>2. freed' \subseteq 1..n
  <2>1. freed \subseteq 1..n
    BY <1>1 DEF RestOK, Ready
  <2>. QED
    BY <2>1
<1>3. Good(cir') /\ Len(cir'.blk) = n
  BY DEF InFunction
<1>. QED
  BY <1>1, <1>2, <1>3 DEF RestOK, Steady

\* The same when no block is destroyed.
LEMMA StacksLemma2 ==
    ASSUME IInv, Ready, Steady, NEW n \in Nat, n >= Len(cir.blk), InFunction(cir', n),
           ret' \in InstrRef, varRefs' \in [VarNames -> InstrRef],
           scopes' \in Seq(Seq(Nodes)), breaks' \in Seq(1..n),
           freed' = freed, errors' = errors
    PROVE  RestOK' /\ fn' = fn
<1>1. RestOK
  BY IInvParts
<1>2. freed' \subseteq 1..n
  BY <1>1 DEF RestOK, Ready
<1>3. Good(cir') /\ Len(cir'.blk) = n
  BY DEF InFunction
<1>. QED
  BY <1>1, <1>2, <1>3 DEF RestOK, Steady

\* The same when the file does not change.
LEMMA ScopesOnlyLemma ==
    ASSUME IInv, Ready, Steady, ret' \in InstrRef, scopes' \in Seq(Seq(Nodes)),
           UNCHANGED <<cir, varRefs, breaks, freed, errors>>
    PROVE  /\ RestOK' /\ fn' = fn /\ InFunction(cir', Len(cir.blk)) /\ Len(scopes') \in Nat
           /\ cir' = cir
<1>1. RestOK'
  BY IInvParts DEF RestOK, Steady
<1>. QED
  BY <1>1 DEF Ready, Steady

\* The scopes after one is opened, emptied, added to and closed.
LEMMA ScopesLemma ==
    ASSUME NEW s \in Seq(Seq(Nodes))
    PROVE  /\ Append(s, << >>) \in Seq(Seq(Nodes)) /\ Len(Append(s, << >>)) = Len(s) + 1
           /\ s # << >> =>
                /\ Front(s) \in Seq(Seq(Nodes)) /\ Len(Front(s)) = Len(s) - 1
                /\ Last(s) \in Seq(Nodes)
                /\ \A e \in Seq(Nodes) : /\ [s EXCEPT ![Len(s)] = e] \in Seq(Seq(Nodes))
                                         /\ Len([s EXCEPT ![Len(s)] = e]) = Len(s)
<1>1. << >> \in Seq(Nodes)
  OBVIOUS
<1>. DEFINE S == Seq(Nodes)
<1>2. << >> \in S /\ s \in Seq(S)
  BY <1>1
<1>. HIDE DEF S
<1>3. Append(s, << >>) \in Seq(S) /\ Len(Append(s, << >>)) = Len(s) + 1
  BY <1>2
<1>4. ASSUME s # << >>
      PROVE  /\ Front(s) \in Seq(S) /\ Len(Front(s)) = Len(s) - 1
             /\ Last(s) \in S
             /\ \A e \in S : /\ [s EXCEPT ![Len(s)] = e] \in Seq(S)
                             /\ Len([s EXCEPT ![Len(s)] = e]) = Len(s)
  <2>1. Len(s) \in 1..Len(s) /\ Front(s) \in Seq(S) /\ Len(Front(s)) = Len(s) - 1 /\ Last(s) \in S
    BY <1>2, <1>4, StackLemma
  <2>2. \A e \in S : /\ [s EXCEPT ![Len(s)] = e] \in Seq(S)
                     /\ Len([s EXCEPT ![Len(s)] = e]) = Len(s)
    BY <1>2, <2>1
  <2>. QED
    BY <2>1, <2>2
<1>. QED
  BY <1>3, <1>4 DEF S

\* Before endScope the innermost scope exists.
LEMMA OpenLemma ==
    ASSUME IInv, NEW kinds, NEW point, At(kinds, point), kinds \subseteq Scoped,
           point \in {"body", "endScope"}
    PROVE  /\ Ready /\ Top.node.kind \in kinds /\ Top.at = point /\ DepthBelow(Top) = Top.dep + 1
           /\ scopes \in Seq(Seq(Nodes)) /\ scopes # << >> /\ breaks \in Seq(1..Len(cir.blk))
<1>1. Ready /\ Top.node.kind \in kinds /\ Top.at = point
  BY ReadyLemma
<1>2. DepthBelow(Top) = Top.dep + 1
  BY <1>1 DEF DepthBelow, InBody
<1>3. scopes \in Seq(Seq(Nodes)) /\ breaks \in Seq(1..Len(cir.blk))
  BY <1>1, InsideLemma DEF Ready
<1>4. scopes # << >>
  BY <1>1, <1>2, <1>3 DEF Ready
<1>. QED
  BY <1>1, <1>2, <1>3, <1>4

\* DeferExprAST::cir_gen: the innermost scope grows.
LEMMA DeferExprLemma ==
    ASSUME IInv, DeferExpr_gen
    PROVE  IInv'
<1>. DEFINE n == Len(cir.blk)
            i == Instr("ConstVoid", "void", << >>)
            r == Emit(cir, i)
            e == Append(scopes[Len(scopes)], Top.node.kids[1])
<1>1. Ready /\ Top.node.kind = "defer" /\ DepthBelow(Top) = Top.dep
  BY ReadyLemma DEF DeferExpr_gen, DepthBelow, InBody, Ready
<1>2. scopes \in Seq(Seq(Nodes)) /\ breaks \in Seq(1..n) /\ Top.node.kids[1] \in Nodes
  <2>1. scopes \in Seq(Seq(Nodes)) /\ breaks \in Seq(1..n)
    BY <1>1, InsideLemma DEF Ready
  <2>2. Top.node \in Nodes /\ Len(Top.node.kids) = 1
    BY <1>1, ProgramsAssumption DEF Ready
  <2>. QED
    BY <2>1, <2>2, NodeLemma
<1>3. scopes' = [scopes EXCEPT ![Len(scopes)] = e]
  BY DEF DeferExpr_gen
<1>4. scopes' \in Seq(Seq(Nodes)) /\ Len(scopes') = Len(scopes)
  <2>1. CASE scopes = << >>
    <3>1. DOMAIN scopes' = {} /\ scopes' = << >>
      BY <1>3, <2>1
    <3>. QED
      BY <1>2, <2>1, <3>1
  <2>2. CASE scopes # << >>
    <3>1. Last(scopes) \in Seq(Nodes) /\ Last(scopes) = scopes[Len(scopes)]
      BY <1>2, <2>2, ScopesLemma DEF Last
    <3>2. e \in Seq(Nodes)
      BY <1>2, <3>1
    <3>. HIDE DEF e
    <3>. QED
      BY <1>2, <1>3, <2>2, <3>2, ScopesLemma
  <2>. QED
    BY <2>1, <2>2
<1>5. i \in Instruction(n) /\ ~Branches(i)
  BY <1>1, BuildOperandsLemma, NamesLemma DEF Ready
<1>6. InFunction(r.c, n) /\ r.r \in InstrRef
  BY <1>1, <1>5, BuildInstructionLemma DEF Ready
<1>7. /\ cir' = r.c /\ Leave(r.r) /\ ret' = r.r /\ Steady
      /\ UNCHANGED <<varRefs, breaks, freed, errors>>
  BY DEF DeferExpr_gen, EmitAndLeave, Leave
<1>. HIDE DEF r, i, e
<1>8. RestOK' /\ fn' = fn
  <2>1. /\ ret' \in InstrRef /\ varRefs' \in [VarNames -> InstrRef] /\ breaks' \in Seq(1..n)
        /\ InFunction(cir', n) /\ n \in Nat /\ n >= Len(cir.blk)
    BY <1>1, <1>2, <1>6, <1>7 DEF Ready
  <2>. QED
    BY <1>1, <1>4, <1>7, <2>1, StacksLemma2
<1>. QED
  BY <1>1, <1>4, <1>6, <1>7, <1>8, JustLeaveLemma DEF Ready

\* The beginning of a scope.
LEMMA ScopeExprLemma ==
    ASSUME IInv, ScopeExpr_gen
    PROVE  IInv'
<1>. DEFINE f == [Top EXCEPT !.at = "body"]
<1>1. Ready /\ Top.node.kind = "scope" /\ DepthBelow(Top) = Top.dep
  BY ReadyLemma DEF ScopeExpr_gen, DepthBelow, InBody, Ready
<1>2. /\ scopes' = Append(scopes, << >>) /\ Stay(f) /\ Steady
      /\ UNCHANGED <<cir, varRefs, ret, breaks, freed, errors>>
  BY DEF ScopeExpr_gen, OpenScope
<1>3. scopes \in Seq(Seq(Nodes)) /\ breaks \in Seq(1..Len(cir.blk))
  BY <1>1, InsideLemma DEF Ready
<1>4. scopes' \in Seq(Seq(Nodes)) /\ Len(scopes') = Len(scopes) + 1
  BY <1>2, <1>3, ScopesLemma
<1>5. f \in FrameType(Len(cir.blk)) /\ f.dep = Top.dep /\ f.node = Top.node /\ f.at = "body"
  BY <1>1 DEF FrameType, Ready, Points
<1>6. RestOK' /\ fn' = fn /\ InFunction(cir', Len(cir.blk))
  BY <1>1, <1>2, <1>4, ScopesOnlyLemma DEF Ready
<1>. HIDE DEF f
<1>7. HeldBlocks(f) /\ DepthBelow(f) = Top.dep + 1
  BY <1>1, <1>5 DEF HeldBlocks, DepthBelow, InBody, Scoped
<1>. QED
  BY <1>1, <1>2, <1>4, <1>5, <1>6, <1>7, GoOnLemma, SMTT(30) DEF Ready

\* The next statement of a body.
LEMMA NextStatementLemma ==
    ASSUME IInv, NextStatement
    PROVE  IInv'
<1>. DEFINE i == Top.i + 1
            f == [Top EXCEPT !.i = i]
            e == Top.node.kids[Top.i + 1]
<1>1. Ready /\ Top.at = "body"
  BY ReadyLemma DEF NextStatement
<1>2. Enter(f, e) /\ Steady /\ SameStacks /\ UNCHANGED <<cir, varRefs, ret>>
  BY DEF NextStatement
<1>3. Top.i \in Nat /\ i \in Nat /\ e \in Nodes
  BY <1>1, TopLemma, NodeLemma, SMTT(30) DEF NextStatement, Ready
<1>. HIDE DEF i, e
<1>4. f \in FrameType(Len(cir.blk))
  BY <1>1, <1>3 DEF FrameType, Ready
<1>5. /\ f.dep = Top.dep /\ f.node = Top.node /\ f.at = Top.at /\ f.head = Top.head
      /\ f.body = Top.body /\ f.alt = Top.alt /\ f.after = Top.after
  BY <1>1 DEF FrameType, Ready
<1>. HIDE DEF f
<1>6. HeldBlocks(f) /\ DepthBelow(f) = DepthBelow(Top)
  BY <1>1, <1>5 DEF HeldBlocks, DepthBelow, InBody, Ready
<1>. QED
  BY <1>1, <1>2, <1>3, <1>4, <1>5, <1>6, UnchangedLemma, GoOnLemma DEF Ready

\* The beginning of endScope: there is a scope to end.
LEMMA EndScopeLemma ==
    ASSUME IInv, EndScope
    PROVE  IInv'
<1>. DEFINE val == IF Top.node.kids = << >> THEN NoRef ELSE ret
            defers == Last(scopes)
            f == [Top EXCEPT !.at = "endScope", !.defers = defers, !.val = val]
<1>1. /\ Ready /\ DepthBelow(Top) = Top.dep + 1 /\ Top.at = "body"
      /\ scopes \in Seq(Seq(Nodes)) /\ scopes # << >> /\ breaks \in Seq(1..Len(cir.blk))
  <2>1. \E kinds : At(kinds, "body") /\ kinds \subseteq Scoped
    BY DEF EndScope, Scoped
  <2>. QED
    BY <2>1, OpenLemma
<1>2. /\ scopes' = [scopes EXCEPT ![Len(scopes)] = << >>] /\ Stay(f) /\ Steady
      /\ UNCHANGED <<cir, varRefs, ret, breaks, freed, errors>>
  BY DEF EndScope
<1>3. << >> \in Seq(Nodes)
  OBVIOUS
<1>4. scopes' \in Seq(Seq(Nodes)) /\ Len(scopes') = Len(scopes) /\ defers \in Seq(Nodes)
  BY <1>1, <1>2, <1>3, ScopesLemma
<1>5. val \in InstrRef /\ "endScope" \in Points
  BY <1>1, NamesLemma DEF Ready, Points
<1>. HIDE DEF val, defers
<1>6. f \in FrameType(Len(cir.blk))
  BY <1>1, <1>4, <1>5 DEF FrameType, Ready
<1>7. /\ f.dep = Top.dep /\ f.node = Top.node /\ f.at = "endScope" /\ f.head = Top.head
      /\ f.body = Top.body /\ f.alt = Top.alt /\ f.after = Top.after
  BY <1>1 DEF FrameType, Ready
<1>8. RestOK' /\ fn' = fn /\ InFunction(cir', Len(cir.blk))
  BY <1>1, <1>2, <1>4, ScopesOnlyLemma DEF Ready
<1>. HIDE DEF f
<1>9. HeldBlocks(f) /\ DepthBelow(f) = DepthBelow(Top)
  BY <1>1, <1>7 DEF HeldBlocks, DepthBelow, InBody, Ready
<1>10. Len(scopes') >= DepthBelow(f) /\ HeldBlocks(f) /\ f.dep = Top.dep
  BY <1>1, <1>4, <1>7, <1>9 DEF Ready
<1>11. Ready /\ Len(cir.blk) \in Nat /\ Stay(f)
  BY <1>1, <1>2 DEF Ready
<1>. QED
  BY <1>6, <1>8, <1>10, <1>11, GoOnLemma

\* A deferred expression.
LEMMA RunDeferLemma ==
    ASSUME IInv, RunDefer
    PROVE  IInv'
<1>. DEFINE defers == Tail(Top.defers)
            e == Head(Top.defers)
            f == [Top EXCEPT !.defers = defers]
<1>1. Ready /\ Top.at = "endScope"
  BY ReadyLemma DEF RunDefer
<1>2. Enter(f, e) /\ Steady /\ SameStacks /\ UNCHANGED <<cir, varRefs, ret>>
  BY DEF RunDefer
<1>3. defers \in Seq(Nodes) /\ e \in Nodes
  BY <1>1, TopLemma DEF RunDefer, Ready
<1>. HIDE DEF defers, e
<1>4. f \in FrameType(Len(cir.blk))
  BY <1>1, <1>3 DEF FrameType, Ready
<1>5. /\ f.dep = Top.dep /\ f.node = Top.node /\ f.at = Top.at /\ f.head = Top.head
      /\ f.body = Top.body /\ f.alt = Top.alt /\ f.after = Top.after
  BY <1>1 DEF FrameType, Ready
<1>. HIDE DEF f
<1>6. HeldBlocks(f) /\ DepthBelow(f) = DepthBelow(Top)
  BY <1>1, <1>5 DEF HeldBlocks, DepthBelow, InBody, Ready
<1>. QED
  BY <1>1, <1>2, <1>3, <1>4, <1>5, <1>6, UnchangedLemma, GoOnLemma DEF Ready

\* The end of a scope.
LEMMA CloseScopeLemma ==
    ASSUME IInv, NEW kind \in Scoped, CloseScope(kind)
    PROVE  /\ Ready /\ Top.node.kind = kind /\ Top.at = "endScope"
           /\ scopes' \in Seq(Seq(Nodes)) /\ Len(scopes') \in Nat /\ Len(scopes') >= Top.dep
           /\ breaks \in Seq(1..Len(cir.blk))
<1>1. /\ Ready /\ Top.node.kind = kind /\ Top.at = "endScope" /\ DepthBelow(Top) = Top.dep + 1
      /\ scopes \in Seq(Seq(Nodes)) /\ scopes # << >> /\ breaks \in Seq(1..Len(cir.blk))
  BY OpenLemma DEF CloseScope
<1>2. scopes' = Front(scopes)
  BY DEF CloseScope
<1>3. scopes' \in Seq(Seq(Nodes)) /\ Len(scopes') = Len(scopes) - 1
  BY <1>1, <1>2, ScopesLemma
<1>. QED
  BY <1>1, <1>3 DEF Ready

\* The end of a scope.
LEMMA ScopeEndLemma ==
    ASSUME IInv, ScopeExpr_end
    PROVE  IInv'
<1>1. /\ Ready /\ scopes' \in Seq(Seq(Nodes)) /\ Len(scopes') >= Top.dep
      /\ breaks \in Seq(1..Len(cir.blk))
  BY CloseScopeLemma DEF ScopeExpr_end, Scoped
<1>2. Leave(Top.val) /\ Steady /\ UNCHANGED <<cir, varRefs, breaks, freed, errors>>
  BY DEF ScopeExpr_end
<1>3. ret' \in InstrRef
  BY <1>1, <1>2, TopLemma DEF Ready, Leave
<1>4. RestOK' /\ fn' = fn /\ InFunction(cir', Len(cir.blk))
  BY <1>1, <1>2, <1>3, ScopesOnlyLemma DEF Ready
<1>. QED
  BY <1>1, <1>2, <1>4, JustLeaveLemma DEF Ready

-----------------------------------------------------------------------------
(* if.                                                                     *)

\* The condition of an if.
LEMMA IfExprLemma ==
    ASSUME IInv, IfExpr_gen
    PROVE  IInv'
<1>. DEFINE f == [Top EXCEPT !.at = "cond"]
            e == Top.node.kids[1]
<1>1. Ready /\ Top.node.kind = "if"
  BY ReadyLemma DEF IfExpr_gen
<1>2. Enter(f, e) /\ Steady /\ SameStacks /\ UNCHANGED <<cir, varRefs, ret>>
  BY DEF IfExpr_gen
<1>3. e \in Nodes
  BY <1>1, NodeLemma, ProgramsAssumption DEF Ready
<1>4. f \in FrameType(Len(cir.blk)) /\ f.dep = Top.dep /\ f.node = Top.node /\ f.at = "cond"
  BY <1>1 DEF FrameType, Ready, Points
<1>. HIDE DEF f, e
<1>5. HeldBlocks(f) /\ DepthBelow(f) = Top.dep
  BY <1>1, <1>4 DEF HeldBlocks, DepthBelow, InBody
<1>. QED
  BY <1>1, <1>2, <1>3, <1>4, <1>5, UnchangedLemma, GoOnLemma DEF Ready

\* The condition and the branches of an if are nodes.
LEMMA IfNodeLemma ==
    ASSUME NEW n \in Nodes, n.kind = "if"
    PROVE  /\ n.kids[1] \in Nodes /\ n.kids[2] \in Nodes
           /\ n.kids[1].ty \in Types /\ n.kids[2].ty \in Types
           /\ Len(n.kids) = 3 => n.kids[3] \in Nodes /\ n.kids[3].ty \in Types
<1>1. Len(n.kids) \in {2, 3}
  BY ProgramsAssumption
<1>. QED
  BY <1>1, NodeLemma

\* The three blocks of an if, the second one not added yet.
LEMMA IfThenLemma ==
    ASSUME IInv, IfExpr_then
    PROVE  IInv'
<1>. DEFINE n == Len(cir.blk)
            e == Convert(cir, ret, Top.node.kids[1].ty, "bool")
            c1 == NewBlock(e.c, "then")
            c2 == NewBlock(AddBasicBlock(c1, LastBlock(c1)), "else")
            c3 == NewBlock(c2, "ifcont")
            then == LastBlock(c1)
            else == LastBlock(c2)
            after == LastBlock(c3)
            f == [Top EXCEPT !.at = "then", !.body = then, !.alt = else, !.after = after]
            g == Top.node.kids[2]
<1>1. Ready /\ Top.node.kind = "if"
  <2>1. At({"if"}, "cond")
    BY DEF IfExpr_then
  <2>. QED
    BY <2>1, ReadyLemma
<1>2. Top.node.kids[1].ty \in Types /\ g \in Nodes /\ n \in Nat
  BY <1>1, IfNodeLemma DEF Ready
<1>3. InFunction(e.c, n) /\ e.r \in InstrRef
  BY <1>1, <1>2, BuildConvertLemma, NamesLemma DEF Ready
<1>. DEFINE F == FrameType(n + 3)
<1>4. /\ cir' = SetInsertPoint(CreateGotoIf(c3, e.r, then, else), then) /\ Enter(f, g)
      /\ Steady /\ SameStacks /\ UNCHANGED <<varRefs, ret>>
  BY DEF IfExpr_then
<1>. HIDE DEF e, g
<1>5. InFunction(c1, n + 1) /\ then = n + 1
  BY <1>2, <1>3, BuildBlockLemma DEF BlockNames
<1>. HIDE DEF c1
<1>6. InFunction(AddBasicBlock(c1, then), n + 1)
  BY <1>2, <1>5, BuildLemma
<1>7. InFunction(c2, n + 2) /\ else = n + 2
  <2>1. n + 1 \in Nat /\ (n + 1) + 1 = n + 2 /\ "else" \in BlockNames
    BY <1>2 DEF BlockNames
  <2>. QED
    BY <1>6, <2>1, BuildBlockLemma
<1>. HIDE DEF c2
<1>8. InFunction(c3, n + 3) /\ after = n + 3
  <2>1. n + 2 \in Nat /\ (n + 2) + 1 = n + 3 /\ "ifcont" \in BlockNames
    BY <1>2 DEF BlockNames
  <2>. QED
    BY <1>7, <2>1, BuildBlockLemma
<1>. HIDE DEF c3
<1>9. InFunction(CreateGotoIf(c3, e.r, then, else), n + 3)
  BY <1>2, <1>3, <1>5, <1>7, <1>8, BuildGotoIfLemma
<1>10. InFunction(cir', n + 3)
  <2>1. n + 3 \in Nat /\ then \in 1..(n + 3)
    BY <1>2, <1>5
  <2>. QED
    BY <1>4, <1>9, <2>1, BuildLemma
<1>11. RestOK' /\ fn' = fn /\ scopes' = scopes
  BY <1>1, <1>2, <1>4, <1>10, SteadyLemma DEF InFunction, Ready, Steady, SameStacks
<1>12. Top \in F
  BY <1>1, <1>2, FrameGrows DEF Ready
<1>13. f \in F
  <2>1. then \in 0..(n + 3) /\ else \in 0..(n + 3) /\ after \in 0..(n + 3) /\ "then" \in Points
    BY <1>2, <1>5, <1>7, <1>8 DEF Points
  <2>. HIDE DEF then, else, after
  <2>. QED
    BY <1>12, <2>1 DEF FrameType
<1>14. /\ f.at = "then" /\ f.dep = Top.dep /\ f.node = Top.node
       /\ f.body # 0 /\ f.alt # 0 /\ f.after # 0
  BY <1>2, <1>5, <1>7, <1>8, <1>12, SMTT(30) DEF FrameType
<1>. HIDE DEF f
<1>15. HeldBlocks(f) /\ DepthBelow(f) = Top.dep
  BY <1>1, <1>14 DEF HeldBlocks, DepthBelow, InBody
<1>16. n + 3 \in Nat /\ n + 3 >= Len(cir.blk) /\ Len(scopes') >= DepthBelow(f)
  BY <1>1, <1>2, <1>11, <1>15 DEF Ready
<1>. QED
  BY <1>1, <1>2, <1>4, <1>10, <1>11, <1>13, <1>14, <1>15, <1>16, GoOnLemma

\* The blocks that an if, a while, a for or a loop has made and will use.
LEMMA HeldLemma ==
    ASSUME IInv, Ready
    PROVE  /\ Top.node.kind = "if" /\ Top.at \in {"then", "else"} =>
                 /\ Top.body \in 1..Len(cir.blk) /\ Top.alt \in 1..Len(cir.blk)
                 /\ Top.after \in 1..Len(cir.blk)
           /\ Top.node.kind = "while" /\ Top.at \in {"cond", "body", "endScope"} =>
                 Top.head \in 1..Len(cir.blk) /\ Top.body \in 1..Len(cir.blk)
           /\ Top.node.kind = "for" /\ Top.at \in {"cond", "body", "endScope", "step"} =>
                 Top.head \in 1..Len(cir.blk)
           /\ Top.node.kind = "loop" /\ Top.at \in {"body", "endScope"} =>
                 Top.head \in 1..Len(cir.blk)
           /\ Top.node.kind \in {"for", "while"} /\ Top.at \in {"body", "endScope", "step"} =>
                 Top.after \in 1..Len(cir.blk)
<1>1. /\ Len(cir.blk) \in Nat /\ Top.head \in 0..Len(cir.blk) /\ Top.body \in 0..Len(cir.blk)
      /\ Top.alt \in 0..Len(cir.blk) /\ Top.after \in 0..Len(cir.blk)
  BY TopLemma DEF Ready
<1>. QED
  BY <1>1 DEF Ready, HeldBlocks

\* The code around Else.
LEMMA BranchesLemma ==
    ASSUME IInv, Ready, Top.node.kind = "if", Top.at \in {"then", "else"},
           NEW c, InFunction(c, Len(cir.blk)), NEW diverts
    PROVE  InFunction(ElseBlock(c), Len(cir.blk)) /\ InFunction(MergeBlock(c, diverts), Len(cir.blk))
<1>. DEFINE n == Len(cir.blk)
            d == CreateGoto(c, Top.after)
<1>1. n \in Nat /\ Top.alt \in 1..n /\ Top.after \in 1..n
  BY HeldLemma DEF Ready
<1>2. InFunction(d, n)
  BY <1>1, BuildLemma
<1>. HIDE DEF d
<1>3. \A e \in {c, d} : \A b \in {Top.alt, Top.after} : InFunction(SetInsertPoint(AddBasicBlock(e, b), b), n)
  BY <1>1, <1>2, BuildLemma
<1>. QED
  BY <1>3 DEF ElseBlock, MergeBlock, d

\* The end of an if without else.
LEMMA IfNoElseLemma ==
    ASSUME IInv, IfExpr_noElse
    PROVE  IInv'
<1>. DEFINE n == Len(cir.blk)
            d == ElseBlock(cir)
            c == MergeBlock(d, FALSE)
            i == Instr("ConstVoid", "void", << >>)
<1>1. Ready /\ Top.node.kind = "if" /\ Top.at = "then" /\ n \in Nat
  BY ReadyLemma DEF IfExpr_noElse, Ready
<1>2. InFunction(d, n)
  BY <1>1, BranchesLemma DEF Ready
<1>3. EmitAndLeave(c, i) /\ Steady /\ SameStacks /\ varRefs' = varRefs
  BY DEF IfExpr_noElse
<1>. HIDE DEF d
<1>4. InFunction(c, n)
  BY <1>1, <1>2, BranchesLemma
<1>5. i \in Instruction(n) /\ ~Branches(i)
  BY <1>1, BuildOperandsLemma, NamesLemma
<1>. HIDE DEF c, i
<1>. QED
  BY <1>1, <1>3, <1>4, <1>5, EmitAndLeaveLemma DEF Ready

\* From Then to Else: the block Then ended in is kept.
LEMMA IfElseLemma ==
    ASSUME IInv, IfExpr_else
    PROVE  IInv'
<1>. DEFINE n == Len(cir.blk)
            cur == cir.cur
            f == [Top EXCEPT !.at = "else", !.keep = ret, !.body = cur]
            e == Top.node.kids[3]
<1>1. Ready /\ Top.node.kind = "if" /\ Top.at = "then" /\ n \in Nat
  BY ReadyLemma DEF IfExpr_else, Ready
<1>2. e \in Nodes
  BY <1>1, IfNodeLemma DEF IfExpr_else, Ready
<1>3. InFunction(cir', n)
  BY <1>1, BranchesLemma DEF IfExpr_else, Ready
<1>4. Enter(f, e) /\ Steady /\ SameStacks /\ UNCHANGED <<varRefs, ret>>
  BY DEF IfExpr_else
<1>5. cur \in 0..n /\ cur # 0 /\ ret \in InstrRef /\ "else" \in Points
  BY <1>1 DEF Ready, InFunction, Good, WellFormed, FileCIR, Points
<1>6. Top.alt # 0 /\ Top.after # 0
  BY <1>1, HeldLemma
<1>. HIDE DEF cur, e
<1>7. f \in FrameType(n)
  BY <1>1, <1>5 DEF FrameType, Ready
<1>8. /\ f.at = "else" /\ f.dep = Top.dep /\ f.node = Top.node
      /\ f.body # 0 /\ f.alt # 0 /\ f.after # 0
  BY <1>1, <1>5, <1>6 DEF FrameType, Ready
<1>. HIDE DEF f
<1>9. HeldBlocks(f) /\ DepthBelow(f) = Top.dep
  BY <1>1, <1>8 DEF HeldBlocks, DepthBelow, InBody
<1>10. RestOK' /\ fn' = fn /\ scopes' = scopes
  BY <1>1, <1>3, <1>4, SteadyLemma DEF InFunction, Ready, Steady, SameStacks
<1>. QED
  BY <1>1, <1>2, <1>3, <1>4, <1>7, <1>8, <1>9, <1>10, GoOnLemma DEF Ready

\* The end of an if: the phi is made of blocks and references it holds.
LEMMA IfMergeLemma ==
    ASSUME IInv, IfExpr_merge
    PROVE  IInv'
<1>. DEFINE n == Len(cir.blk)
            then == Top.node.kids[2]
            else == Top.node.kids[3]
            e == IF else.ty = "void" THEN [c |-> cir, r |-> ret]
                 ELSE Convert(cir, ret, else.ty, then.ty)
            c == MergeBlock(e.c, Diverts(else))
            i == IF Diverts(then) \/ Diverts(else) \/ then.ty = "void"
                 THEN Instr("ConstVoid", "void", << >>)
                 ELSE PhiInstr(then.ty, Top.body, Top.keep, Top.alt, e.r)
<1>1. Ready /\ Top.node.kind = "if" /\ Top.at = "else" /\ n \in Nat
  BY ReadyLemma DEF IfExpr_merge, Ready
<1>2. then.ty \in Types
  BY <1>1, IfNodeLemma DEF Ready
<1>3. InFunction(e.c, n) /\ e.r \in InstrRef
  BY <1>1, <1>2, BuildConvertLemma DEF Ready
<1>4. EmitAndLeave(c, i) /\ Steady /\ SameStacks /\ varRefs' = varRefs
  BY DEF IfExpr_merge
<1>5. Top.body \in 1..n /\ Top.alt \in 1..n /\ Top.keep \in InstrRef
  BY <1>1, HeldLemma, TopLemma DEF Ready
<1>. HIDE DEF e, then, else
<1>6. InFunction(c, n)
  BY <1>1, <1>3, BranchesLemma
<1>7. i \in Instruction(n) /\ ~Branches(i)
  <2>1. Instr("ConstVoid", "void", << >>) \in Instruction(n) /\ ~Branches(Instr("ConstVoid", "void", << >>))
    BY <1>1, BuildOperandsLemma, NamesLemma
  <2>2. /\ PhiInstr(then.ty, Top.body, Top.keep, Top.alt, e.r) \in Instruction(n)
        /\ ~Branches(PhiInstr(then.ty, Top.body, Top.keep, Top.alt, e.r))
    BY <1>1, <1>2, <1>3, <1>5, BranchLemma
  <2>. QED
    BY <2>1, <2>2
<1>. HIDE DEF c, i
<1>. QED
  BY <1>1, <1>4, <1>6, <1>7, EmitAndLeaveLemma DEF Ready

\* An early return: the scopes and blocksForBreak are left as they are.
LEMMA AbandonLemma ==
    ASSUME IInv, Ready, Steady, UNCHANGED <<cir, varRefs, scopes, breaks, errors>>,
           Leave(NoRef), freed' \in {freed, freed \union {Top.after}},
           freed' = freed \/ Top.after \in 1..Len(cir.blk)
    PROVE  IInv'
<1>1. RestOK'
  BY IInvParts, NamesLemma DEF RestOK, Steady, Leave
<1>. QED
  BY <1>1, JustLeaveLemma DEF Ready, Steady

\* An if that gives up.
LEMMA IfAbandonLemma ==
    ASSUME IInv, IfExpr_abandon
    PROVE  IInv'
<1>1. Ready /\ Top.node.kind = "if"
  BY ReadyLemma DEF IfExpr_abandon
<1>2. /\ Steady /\ UNCHANGED <<cir, varRefs, scopes, breaks, errors>> /\ Leave(NoRef)
      /\ freed' = IF Top.at = "else" THEN freed \union {Top.after} ELSE freed
  BY DEF IfExpr_abandon
<1>. QED
  BY <1>1, <1>2, HeldLemma, AbandonLemma

-----------------------------------------------------------------------------
(* Loops.                                                                  *)

\* The block of an infinite loop.
LEMMA LoopExprLemma ==
    ASSUME IInv, LoopExpr_gen
    PROVE  IInv'
<1>. DEFINE n == Len(cir.blk)
            c == NewBlock(cir, "loop_infinite")
            b == LastBlock(c)
            f == [Top EXCEPT !.at = "body", !.head = b]
<1>1. Ready /\ Top.node.kind = "loop" /\ n \in Nat /\ DepthBelow(Top) = Top.dep
  BY ReadyLemma DEF LoopExpr_gen, Ready, DepthBelow, InBody
<1>2. InFunction(c, n + 1) /\ b = n + 1
  BY <1>1, BuildBlockLemma DEF Ready, BlockNames
<1>3. /\ cir' = SetInsertPoint(CreateGoto(AddBasicBlock(c, b), b), b) /\ Stay(f)
      /\ scopes' = Append(scopes, << >>)
      /\ Steady /\ UNCHANGED <<varRefs, ret, breaks, freed, errors>>
  BY DEF LoopExpr_gen, OpenScope
<1>. HIDE DEF c
<1>4. InFunction(cir', n + 1)
  <2>1. InFunction(AddBasicBlock(c, b), n + 1) /\ b \in 1..(n + 1) /\ n + 1 \in Nat
    BY <1>1, <1>2, BuildLemma
  <2>2. InFunction(CreateGoto(AddBasicBlock(c, b), b), n + 1)
    BY <2>1, BuildLemma
  <2>. QED
    BY <1>3, <2>1, <2>2, BuildLemma
<1>5. scopes \in Seq(Seq(Nodes)) /\ breaks \in Seq(1..(n + 1))
  BY <1>1, InsideLemma DEF Ready
<1>6. scopes' \in Seq(Seq(Nodes)) /\ Len(scopes') = Len(scopes) + 1
  BY <1>3, <1>5, ScopesLemma
<1>7. RestOK' /\ fn' = fn
  <2>1. /\ n + 1 \in Nat /\ n + 1 >= Len(cir.blk) /\ ret' \in InstrRef
        /\ varRefs' \in [VarNames -> InstrRef] /\ breaks' \in Seq(1..(n + 1))
    BY <1>1, <1>3, <1>5 DEF Ready
  <2>. QED
    BY <1>1, <1>3, <1>4, <1>6, <2>1, StacksLemma2
<1>8. Top \in FrameType(n + 1)
  BY <1>1, FrameGrows DEF Ready
<1>9. f \in FrameType(n + 1)
  <2>1. b \in 0..(n + 1) /\ "body" \in Points
    BY <1>1, <1>2 DEF Points
  <2>. HIDE DEF b
  <2>. QED
    BY <1>8, <2>1 DEF FrameType
<1>10. f.at = "body" /\ f.dep = Top.dep /\ f.node = Top.node /\ f.head # 0
  BY <1>1, <1>2, <1>8 DEF FrameType
<1>. HIDE DEF f
<1>11. HeldBlocks(f) /\ DepthBelow(f) = Top.dep + 1
  BY <1>1, <1>10 DEF HeldBlocks, DepthBelow, InBody, Scoped
<1>12. n + 1 \in Nat /\ n + 1 >= Len(cir.blk) /\ Len(scopes') >= DepthBelow(f)
  BY <1>1, <1>6, <1>11 DEF Ready
<1>. QED
  BY <1>1, <1>3, <1>4, <1>7, <1>9, <1>10, <1>11, <1>12, GoOnLemma

\* An action that closes a scope, adds an instruction and returns.
LEMMA EmitAndCloseLemma ==
    ASSUME IInv, Ready, Steady, scopes' \in Seq(Seq(Nodes)), Len(scopes') >= Top.dep,
           NEW n \in Nat, n >= Len(cir.blk), NEW c, InFunction(c, n),
           NEW i \in Instruction(n), ~Branches(i), EmitAndLeave(c, i),
           breaks' \in Seq(1..n), UNCHANGED <<varRefs, freed, errors>>
    PROVE  IInv'
<1>. DEFINE r == Emit(c, i)
<1>1. InFunction(r.c, n) /\ r.r \in InstrRef
  BY BuildInstructionLemma
<1>2. cir' = r.c /\ Leave(r.r) /\ ret' = r.r
  BY DEF EmitAndLeave, Leave
<1>. HIDE DEF r
<1>3. InFunction(cir', n) /\ ret' \in InstrRef /\ varRefs' \in [VarNames -> InstrRef]
  BY <1>1, <1>2 DEF Ready
<1>4. RestOK' /\ fn' = fn
  BY <1>3, StacksLemma2
<1>. QED
  BY <1>2, <1>3, <1>4, JustLeaveLemma

\* The branch back of an infinite loop.
LEMMA LoopEndLemma ==
    ASSUME IInv, LoopExpr_end
    PROVE  IInv'
<1>. DEFINE n == Len(cir.blk)
            c == CreateGoto(cir, Top.head)
            i == Instr("ConstNever", "never", << >>)
<1>1. /\ Ready /\ Top.node.kind = "loop" /\ Top.at = "endScope"
      /\ scopes' \in Seq(Seq(Nodes)) /\ Len(scopes') >= Top.dep /\ breaks \in Seq(1..n)
  BY CloseScopeLemma DEF LoopExpr_end, Scoped
<1>2. n \in Nat /\ InFunction(cir, n) /\ Top.head \in 1..n
  BY <1>1, HeldLemma DEF Ready
<1>3. InFunction(c, n)
  BY <1>2, BuildLemma
<1>4. i \in Instruction(n) /\ ~Branches(i)
  BY <1>2, BuildOperandsLemma, NamesLemma
<1>5. EmitAndLeave(c, i) /\ Steady /\ UNCHANGED <<varRefs, breaks, freed, errors>>
  BY DEF LoopExpr_end
<1>. HIDE DEF c, i
<1>6. breaks' \in Seq(1..n) /\ n >= Len(cir.blk)
  BY <1>1, <1>2, <1>5
<1>. QED
  BY <1>1, <1>2, <1>3, <1>4, <1>5, <1>6, EmitAndCloseLemma

\* An infinite loop that gives up.
LEMMA LoopAbandonLemma ==
    ASSUME IInv, LoopExpr_abandon
    PROVE  IInv'
<1>1. Ready
  BY ReadyLemma DEF LoopExpr_abandon
<1>2. Steady /\ UNCHANGED <<cir, varRefs, scopes, breaks, errors, freed>> /\ Leave(NoRef)
  BY DEF LoopExpr_abandon, SameStacks
<1>. QED
  BY <1>1, <1>2, AbandonLemma

\* The condition block of a while.
LEMMA WhileExprLemma ==
    ASSUME IInv, WhileExpr_gen
    PROVE  IInv'
<1>. DEFINE n == Len(cir.blk)
            c == Added(cir, "while")
            head == LastBlock(c)
            e == SetInsertPoint(CreateGoto(c, head), head)
            d == Added(e, "loop_while")
            body == LastBlock(d)
            f == [Top EXCEPT !.at = "cond", !.head = head, !.body = body]
            g == Top.node.kids[1]
<1>1. Ready /\ Top.node.kind = "while" /\ n \in Nat
  BY ReadyLemma DEF WhileExpr_gen, Ready
<1>2. g \in Nodes
  BY <1>1, NodeLemma, ProgramsAssumption DEF Ready
<1>3. InFunction(c, n + 1) /\ head = n + 1
  BY <1>1, BuildBlockLemma DEF Ready, BlockNames
<1>4. cir' = d /\ Enter(f, g) /\ Steady /\ SameStacks /\ UNCHANGED <<varRefs, ret>>
  BY DEF WhileExpr_gen
<1>. HIDE DEF c, g
<1>5. InFunction(e, n + 1)
  BY <1>1, <1>3, BuildLemma
<1>. HIDE DEF e
<1>6. InFunction(d, n + 2) /\ body = n + 2
  <2>1. n + 1 \in Nat /\ (n + 1) + 1 = n + 2 /\ "loop_while" \in BlockNames
    BY <1>1 DEF BlockNames
  <2>. QED
    BY <1>5, <2>1, BuildBlockLemma
<1>. HIDE DEF d
<1>7. RestOK' /\ fn' = fn /\ scopes' = scopes
  BY <1>1, <1>4, <1>6, SteadyLemma DEF InFunction, Ready, Steady, SameStacks
<1>8. Top \in FrameType(n + 2)
  BY <1>1, FrameGrows DEF Ready
<1>9. f \in FrameType(n + 2)
  <2>1. head \in 0..(n + 2) /\ body \in 0..(n + 2) /\ "cond" \in Points
    BY <1>1, <1>3, <1>6 DEF Points
  <2>. HIDE DEF head, body
  <2>. QED
    BY <1>8, <2>1 DEF FrameType
<1>10. f.at = "cond" /\ f.dep = Top.dep /\ f.node = Top.node /\ f.head # 0 /\ f.body # 0
  BY <1>1, <1>3, <1>6, <1>8 DEF FrameType
<1>. HIDE DEF f
<1>11. HeldBlocks(f) /\ DepthBelow(f) = Top.dep
  BY <1>1, <1>10 DEF HeldBlocks, DepthBelow, InBody
<1>12. /\ n + 2 \in Nat /\ n + 2 >= Len(cir.blk) /\ Len(scopes') >= DepthBelow(f)
       /\ InFunction(cir', n + 2)
  BY <1>1, <1>4, <1>6, <1>7, <1>11 DEF Ready
<1>. QED
  BY <1>1, <1>2, <1>4, <1>7, <1>9, <1>10, <1>11, <1>12, GoOnLemma

\* blocksForBreak with one more block.
LEMMA BreaksLemma ==
    ASSUME NEW n \in Nat, NEW m \in Nat, n <= m, NEW b \in Seq(1..n), NEW k \in 1..m
    PROVE  Append(b, k) \in Seq(1..m)
<1>1. b \in Seq(1..m)
  OBVIOUS
<1>. QED
  BY <1>1

\* The body of a while: blocksForBreak gets the block after it.
LEMMA WhileBodyLemma ==
    ASSUME IInv, WhileExpr_body
    PROVE  IInv'
<1>. DEFINE n == Len(cir.blk)
            c == Added(cir, "afterloop_while")
            after == LastBlock(c)
            f == [Top EXCEPT !.at = "body", !.after = after]
            g == Top.node.kids[2]
<1>1. Ready /\ Top.node.kind = "while" /\ Top.at = "cond" /\ n \in Nat /\ DepthBelow(Top) = Top.dep
  BY ReadyLemma DEF WhileExpr_body, Ready, DepthBelow, InBody
<1>2. g \in Nodes /\ Top.head \in 1..n /\ Top.body \in 1..n
  BY <1>1, NodeLemma, HeldLemma, ProgramsAssumption DEF Ready
<1>3. InFunction(c, n + 1) /\ after = n + 1
  BY <1>1, BuildBlockLemma DEF Ready, BlockNames
<1>4. /\ cir' = SetInsertPoint(CreateGotoIf(c, ret, Top.body, after), Top.body)
      /\ breaks' = Append(breaks, after) /\ scopes' = Append(scopes, << >>)
      /\ Steady /\ UNCHANGED <<varRefs, ret, freed, errors>> /\ Enter(f, g)
  BY DEF WhileExpr_body, OpenScope
<1>. HIDE DEF c, g
<1>5. n + 1 \in Nat /\ n + 1 >= n /\ Top.body \in 1..(n + 1) /\ after \in 1..(n + 1)
  BY <1>1, <1>2, <1>3
<1>. HIDE DEF after
<1>6. InFunction(CreateGotoIf(c, ret, Top.body, after), n + 1)
  BY <1>1, <1>3, <1>5, BuildGotoIfLemma DEF Ready
<1>7. InFunction(cir', n + 1)
  BY <1>4, <1>5, <1>6, BuildLemma
<1>8. scopes \in Seq(Seq(Nodes)) /\ breaks \in Seq(1..n)
  BY <1>1, InsideLemma DEF Ready
<1>9. scopes' \in Seq(Seq(Nodes)) /\ Len(scopes') = Len(scopes) + 1
  BY <1>4, <1>8, ScopesLemma
<1>10. RestOK' /\ fn' = fn
  <2>1. /\ ret' \in InstrRef /\ varRefs' \in [VarNames -> InstrRef]
        /\ breaks' \in Seq(1..(n + 1)) /\ n + 1 >= Len(cir.blk)
    BY <1>1, <1>4, <1>5, <1>8, BreaksLemma DEF Ready
  <2>. QED
    BY <1>1, <1>4, <1>5, <1>7, <1>9, <2>1, StacksLemma2
<1>11. Top \in FrameType(n + 1)
  BY <1>1, <1>5, FrameGrows DEF Ready
<1>12. f \in FrameType(n + 1)
  <2>1. after \in 0..(n + 1) /\ "body" \in Points
    BY <1>5 DEF Points
  <2>. QED
    BY <1>11, <2>1 DEF FrameType
<1>13. /\ f.at = "body" /\ f.dep = Top.dep /\ f.node = Top.node
       /\ f.head # 0 /\ f.body # 0 /\ f.after # 0
  BY <1>1, <1>2, <1>5, <1>11 DEF FrameType
<1>. HIDE DEF f
<1>14. HeldBlocks(f) /\ DepthBelow(f) = Top.dep + 1
  BY <1>1, <1>13 DEF HeldBlocks, DepthBelow, InBody, Scoped
<1>15. n + 1 >= Len(cir.blk) /\ Len(scopes') >= DepthBelow(f)
  BY <1>1, <1>5, <1>9, <1>14 DEF Ready
<1>. QED
  BY <1>1, <1>2, <1>4, <1>5, <1>7, <1>10, <1>12, <1>13, <1>14, <1>15, GoOnLemma

\* A while that gives up.
LEMMA WhileAbandonLemma ==
    ASSUME IInv, WhileExpr_abandon
    PROVE  IInv'
<1>1. Ready
  BY ReadyLemma DEF WhileExpr_abandon
<1>2. Steady /\ UNCHANGED <<cir, varRefs, scopes, breaks, errors, freed>> /\ Leave(NoRef)
  BY DEF WhileExpr_abandon, SameStacks
<1>. QED
  BY <1>1, <1>2, AbandonLemma

\* blocksForBreak with one block less; an empty one stays typed.
LEMMA PopLemma ==
    ASSUME NEW n \in Nat, NEW b \in Seq(1..n)
    PROVE  Front(b) \in Seq(1..n)
  BY DEF Front

\* The end of a while.
LEMMA WhileEndLemma ==
    ASSUME IInv, WhileExpr_end
    PROVE  IInv'
<1>. DEFINE n == Len(cir.blk)
            d == CreateGoto(cir, Top.head)
            c == SetInsertPoint(d, Top.after)
            i == Instr("ConstNever", "never", << >>)
<1>1. /\ Ready /\ Top.node.kind = "while" /\ Top.at = "endScope"
      /\ scopes' \in Seq(Seq(Nodes)) /\ Len(scopes') >= Top.dep /\ breaks \in Seq(1..n)
  BY CloseScopeLemma DEF WhileExpr_end, Scoped
<1>2. n \in Nat /\ InFunction(cir, n) /\ Top.head \in 1..n /\ Top.after \in 1..n
  BY <1>1, HeldLemma DEF Ready
<1>3. InFunction(d, n)
  BY <1>2, BuildLemma
<1>4. /\ EmitAndLeave(c, i) /\ breaks' = Front(breaks)
      /\ Steady /\ UNCHANGED <<varRefs, freed, errors>>
  BY DEF WhileExpr_end
<1>. HIDE DEF d
<1>5. InFunction(c, n)
  BY <1>2, <1>3, BuildLemma
<1>6. i \in Instruction(n) /\ ~Branches(i)
  BY <1>2, BuildOperandsLemma, NamesLemma
<1>. HIDE DEF c, i
<1>7. breaks' \in Seq(1..n) /\ n >= Len(cir.blk)
  BY <1>1, <1>2, <1>4, PopLemma
<1>. QED
  BY <1>1, <1>2, <1>4, <1>5, <1>6, <1>7, EmitAndCloseLemma

\* The initial value of a for.
LEMMA ForExprLemma ==
    ASSUME IInv, ForExpr_gen
    PROVE  IInv'
<1>. DEFINE f == [Top EXCEPT !.at = "init"]
            e == Top.node.kids[1]
<1>1. Ready /\ Top.node.kind = "for"
  BY ReadyLemma DEF ForExpr_gen
<1>2. Enter(f, e) /\ Steady /\ SameStacks /\ UNCHANGED <<cir, varRefs, ret>>
  BY DEF ForExpr_gen
<1>3. e \in Nodes
  BY <1>1, NodeLemma, ProgramsAssumption DEF Ready
<1>4. f \in FrameType(Len(cir.blk)) /\ f.dep = Top.dep /\ f.node = Top.node /\ f.at = "init"
  BY <1>1 DEF FrameType, Ready, Points
<1>. HIDE DEF f, e
<1>5. HeldBlocks(f) /\ DepthBelow(f) = Top.dep
  BY <1>1, <1>4 DEF HeldBlocks, DepthBelow, InBody
<1>. QED
  BY <1>1, <1>2, <1>3, <1>4, <1>5, UnchangedLemma, GoOnLemma DEF Ready

\* The variable and the condition block of a for.
LEMMA ForCondLemma ==
    ASSUME IInv, ForExpr_cond
    PROVE  IInv'
<1>. DEFINE n == Len(cir.blk)
            start == Convert(cir, ret, Top.node.kids[1].ty, "val")
            i == Instr("VarInit", "val", <<start.r>>)
            var == Emit(start.c, i)
            c == Added(var.c, "loop_for_cond")
            cond == LastBlock(c)
            ref == var.r
            f == [Top EXCEPT !.at = "cond", !.keep = ref, !.head = cond]
            g == Top.node.kids[2]
<1>1. Ready /\ Top.node.kind = "for" /\ n \in Nat
  <2>1. At({"for"}, "init")
    BY DEF ForExpr_cond
  <2>2. Ready /\ Top.node.kind = "for"
    BY <2>1, ReadyLemma
  <2>. QED
    BY <2>2 DEF Ready
<1>2. g \in Nodes /\ Top.node.x \in VarNames
  BY <1>1, NodeLemma, ProgramsAssumption DEF Ready
<1>3. InFunction(start.c, n) /\ start.r \in InstrRef
  BY <1>1, BuildConvertLemma, NamesLemma DEF Ready
<1>4. /\ cir' = SetInsertPoint(CreateGoto(c, cond), cond)
      /\ varRefs' = [varRefs EXCEPT ![Top.node.x] = ref] /\ Enter(f, g)
      /\ Steady /\ SameStacks /\ UNCHANGED ret
  BY DEF ForExpr_cond
<1>. HIDE DEF start, g
<1>5. i \in Instruction(n) /\ ~Branches(i)
  BY <1>1, <1>3, BuildOperandsLemma, NamesLemma
<1>. HIDE DEF i
<1>6. InFunction(var.c, n) /\ ref \in InstrRef
  BY <1>1, <1>3, <1>5, BuildInstructionLemma
<1>. HIDE DEF var, ref
<1>7. InFunction(c, n + 1) /\ cond = n + 1
  BY <1>1, <1>6, BuildBlockLemma DEF BlockNames
<1>. HIDE DEF c
<1>8. InFunction(cir', n + 1) /\ n + 1 \in Nat
  BY <1>1, <1>4, <1>7, BuildLemma
<1>9. RestOK' /\ fn' = fn /\ scopes' = scopes
  <2>1. varRefs' \in [VarNames -> InstrRef] /\ ret' \in InstrRef
    BY <1>1, <1>2, <1>4, <1>6 DEF Ready
  <2>. QED
    BY <1>1, <1>4, <1>8, <2>1, SteadyLemma DEF InFunction, Steady, SameStacks
<1>10. Top \in FrameType(n + 1)
  BY <1>1, FrameGrows DEF Ready
<1>11. f \in FrameType(n + 1)
  <2>1. cond \in 0..(n + 1) /\ "cond" \in Points
    BY <1>1, <1>7 DEF Points
  <2>. HIDE DEF cond
  <2>. QED
    BY <1>6, <1>10, <2>1 DEF FrameType
<1>12. f.at = "cond" /\ f.dep = Top.dep /\ f.node = Top.node /\ f.head # 0
  BY <1>1, <1>7, <1>10 DEF FrameType
<1>. HIDE DEF f
<1>13. HeldBlocks(f) /\ DepthBelow(f) = Top.dep
  BY <1>1, <1>12 DEF HeldBlocks, DepthBelow, InBody
<1>14. n + 1 >= Len(cir.blk) /\ Len(scopes') >= DepthBelow(f)
  BY <1>1, <1>9, <1>13 DEF Ready
<1>. QED
  BY <1>1, <1>2, <1>4, <1>8, <1>9, <1>11, <1>12, <1>13, <1>14, GoOnLemma

\* The body of a for: blocksForBreak gets the block after it.
LEMMA ForBodyLemma ==
    ASSUME IInv, ForExpr_body
    PROVE  IInv'
<1>. DEFINE n == Len(cir.blk)
            c == Added(cir, "loop_for")
            body == LastBlock(c)
            d == NewBlock(c, "afterloop")
            after == LastBlock(d)
            f == [Top EXCEPT !.at = "body", !.after = after]
            g == Top.node.kids[3]
<1>1. Ready /\ Top.node.kind = "for" /\ Top.at = "cond" /\ n \in Nat /\ DepthBelow(Top) = Top.dep
  BY ReadyLemma DEF ForExpr_body, Ready, DepthBelow, InBody
<1>2. g \in Nodes /\ Top.head \in 1..n
  BY <1>1, NodeLemma, HeldLemma, ProgramsAssumption DEF Ready
<1>3. InFunction(c, n + 1) /\ body = n + 1
  BY <1>1, BuildBlockLemma DEF Ready, BlockNames
<1>4. /\ cir' = SetInsertPoint(CreateGotoIf(d, ret, body, after), body)
      /\ breaks' = Append(breaks, after) /\ scopes' = Append(scopes, << >>)
      /\ Steady /\ UNCHANGED <<varRefs, ret, freed, errors>> /\ Enter(f, g)
  BY DEF ForExpr_body, OpenScope
<1>. HIDE DEF c, g
<1>5. InFunction(d, n + 2) /\ after = n + 2
  <2>1. n + 1 \in Nat /\ (n + 1) + 1 = n + 2 /\ "afterloop" \in BlockNames
    BY <1>1 DEF BlockNames
  <2>. QED
    BY <1>3, <2>1, BuildBlockLemma
<1>. HIDE DEF d
<1>6. n + 2 \in Nat /\ n + 2 >= n /\ body \in 1..(n + 2) /\ after \in 1..(n + 2)
  BY <1>1, <1>3, <1>5
<1>. HIDE DEF after, body
<1>7. InFunction(CreateGotoIf(d, ret, body, after), n + 2)
  BY <1>1, <1>5, <1>6, BuildGotoIfLemma DEF Ready
<1>8. InFunction(cir', n + 2)
  BY <1>4, <1>6, <1>7, BuildLemma
<1>9. scopes \in Seq(Seq(Nodes)) /\ breaks \in Seq(1..n)
  BY <1>1, InsideLemma DEF Ready
<1>10. scopes' \in Seq(Seq(Nodes)) /\ Len(scopes') = Len(scopes) + 1
  BY <1>4, <1>9, ScopesLemma
<1>11. RestOK' /\ fn' = fn
  <2>1. /\ ret' \in InstrRef /\ varRefs' \in [VarNames -> InstrRef]
        /\ breaks' \in Seq(1..(n + 2)) /\ n + 2 >= Len(cir.blk)
    BY <1>1, <1>4, <1>6, <1>9, BreaksLemma DEF Ready
  <2>. QED
    BY <1>1, <1>4, <1>6, <1>8, <1>10, <2>1, StacksLemma2
<1>12. Top \in FrameType(n + 2)
  BY <1>1, <1>6, FrameGrows DEF Ready
<1>13. f \in FrameType(n + 2)
  <2>1. after \in 0..(n + 2) /\ "body" \in Points
    BY <1>6 DEF Points
  <2>. QED
    BY <1>12, <2>1 DEF FrameType
<1>14. /\ f.at = "body" /\ f.dep = Top.dep /\ f.node = Top.node
       /\ f.head # 0 /\ f.after # 0
  BY <1>1, <1>2, <1>6, <1>12 DEF FrameType
<1>. HIDE DEF f
<1>15. HeldBlocks(f) /\ DepthBelow(f) = Top.dep + 1
  BY <1>1, <1>14 DEF HeldBlocks, DepthBelow, InBody, Scoped
<1>16. n + 2 >= Len(cir.blk) /\ Len(scopes') >= DepthBelow(f)
  BY <1>1, <1>6, <1>10, <1>15 DEF Ready
<1>. QED
  BY <1>1, <1>2, <1>4, <1>6, <1>8, <1>11, <1>13, <1>14, <1>15, <1>16, GoOnLemma

\* The step of a for, out of its scope.
LEMMA ForStepLemma ==
    ASSUME IInv, ForExpr_step
    PROVE  IInv'
<1>. DEFINE n == Len(cir.blk)
            f == [Top EXCEPT !.at = "step"]
            g == Top.node.kids[4]
<1>1. /\ Ready /\ Top.node.kind = "for" /\ Top.at = "endScope"
      /\ scopes' \in Seq(Seq(Nodes)) /\ Len(scopes') >= Top.dep /\ breaks \in Seq(1..n)
  BY CloseScopeLemma DEF ForExpr_step, Scoped
<1>2. g \in Nodes /\ Top.head \in 1..n /\ Top.after \in 1..n /\ n \in Nat
  BY <1>1, NodeLemma, HeldLemma, ProgramsAssumption DEF Ready
<1>3. /\ Enter(f, g) /\ breaks' = Front(breaks)
      /\ Steady /\ UNCHANGED <<cir, varRefs, ret, freed, errors>>
  BY DEF ForExpr_step
<1>. HIDE DEF g
<1>4. f \in FrameType(n)
  BY <1>1 DEF FrameType, Ready, Points
<1>5. /\ f.at = "step" /\ f.dep = Top.dep /\ f.node = Top.node
      /\ f.head # 0 /\ f.after # 0
  BY <1>1, <1>2 DEF FrameType, Ready
<1>. HIDE DEF f
<1>6. HeldBlocks(f) /\ DepthBelow(f) = Top.dep
  BY <1>1, <1>5 DEF HeldBlocks, DepthBelow, InBody
<1>7. /\ ret' \in InstrRef /\ varRefs' \in [VarNames -> InstrRef]
      /\ InFunction(cir', n) /\ n >= Len(cir.blk) /\ breaks' \in Seq(1..n)
  BY <1>1, <1>2, <1>3, PopLemma DEF Ready
<1>8. RestOK' /\ fn' = fn
  BY <1>1, <1>2, <1>3, <1>7, StacksLemma2
<1>9. Len(scopes') >= DepthBelow(f)
  BY <1>1, <1>6
<1>. QED
  BY <1>1, <1>2, <1>3, <1>4, <1>5, <1>6, <1>7, <1>8, <1>9, GoOnLemma

\* The end of a for: load, add, store, branch back.
LEMMA ForEndLemma ==
    ASSUME IInv, ForExpr_end
    PROVE  IInv'
<1>. DEFINE n == Len(cir.blk)
            step == Convert(cir, ret, Top.node.kids[4].ty, "val")
            i1 == Instr("LoadVar", "val", <<Top.keep>>)
            curVar == Emit(step.c, i1)
            i2 == Instr("Binary", "val", <<curVar.r, step.r>>)
            nextVar == Emit(curVar.c, i2)
            i3 == Instr("StoreVar", "void", <<Top.keep, nextVar.r>>)
            store == Emit(nextVar.c, i3)
            c == CreateGoto(store.c, Top.head)
            d == AddBasicBlock(c, Top.after)
            e == SetInsertPoint(d, Top.after)
            i == Instr("ConstVoid", "void", << >>)
<1>1. Ready /\ Top.node.kind = "for" /\ Top.at = "step" /\ n \in Nat
  <2>1. At({"for"}, "step")
    BY DEF ForExpr_end
  <2>2. Ready /\ Top.node.kind = "for" /\ Top.at = "step"
    BY <2>1, ReadyLemma
  <2>. QED
    BY <2>2 DEF Ready
<1>2. Top.head \in 1..n /\ Top.after \in 1..n /\ Top.keep \in InstrRef
  BY <1>1, HeldLemma, TopLemma DEF Ready
<1>3. EmitAndLeave(e, i) /\ Steady /\ SameStacks /\ varRefs' = varRefs
  BY DEF ForExpr_end
<1>4. InFunction(step.c, n) /\ step.r \in InstrRef
  BY <1>1, BuildConvertLemma, NamesLemma DEF Ready
<1>. HIDE DEF step
<1>5. InFunction(curVar.c, n) /\ curVar.r \in InstrRef
  <2>1. i1 \in Instruction(n) /\ ~Branches(i1)
    BY <1>1, <1>2, BuildOperandsLemma, NamesLemma
  <2>. HIDE DEF i1
  <2>. QED
    BY <1>1, <1>4, <2>1, BuildInstructionLemma
<1>. HIDE DEF curVar
<1>6. InFunction(nextVar.c, n) /\ nextVar.r \in InstrRef
  <2>1. i2 \in Instruction(n) /\ ~Branches(i2)
    BY <1>1, <1>4, <1>5, BuildOperandsLemma, NamesLemma
  <2>. HIDE DEF i2
  <2>. QED
    BY <1>1, <1>5, <2>1, BuildInstructionLemma
<1>. HIDE DEF nextVar
<1>7. InFunction(store.c, n)
  <2>1. i3 \in Instruction(n) /\ ~Branches(i3)
    BY <1>1, <1>2, <1>6, BuildOperandsLemma, NamesLemma
  <2>. HIDE DEF i3
  <2>. QED
    BY <1>1, <1>6, <2>1, BuildInstructionLemma
<1>. HIDE DEF store
<1>8. InFunction(c, n)
  BY <1>1, <1>2, <1>7, BuildLemma
<1>. HIDE DEF c
<1>9. InFunction(d, n)
  BY <1>1, <1>2, <1>8, BuildLemma
<1>. HIDE DEF d
<1>10. InFunction(e, n)
  BY <1>1, <1>2, <1>9, BuildLemma
<1>11. i \in Instruction(n) /\ ~Branches(i)
  BY <1>1, BuildOperandsLemma, NamesLemma
<1>. HIDE DEF e, i
<1>. QED
  BY <1>1, <1>3, <1>10, <1>11, EmitAndLeaveLemma DEF Ready

\* A for that gives up: the block it destroys is one of the file.
LEMMA ForAbandonLemma ==
    ASSUME IInv, ForExpr_abandon
    PROVE  IInv'
<1>1. Ready /\ Top.node.kind = "for"
  BY ReadyLemma DEF ForExpr_abandon
<1>2. /\ Steady /\ UNCHANGED <<cir, varRefs, scopes, breaks, errors>> /\ Leave(NoRef)
      /\ freed' = IF Top.at \in {"body", "step"} THEN freed \union {Top.after} ELSE freed
  BY DEF ForExpr_abandon
<1>. QED
  BY <1>1, <1>2, HeldLemma, AbandonLemma

-----------------------------------------------------------------------------
(* Functions and the file.                                                 *)

\* A new function, with its entry block, in a file of any state.
LEMMA NewFunctionLemma ==
    ASSUME NEW c, Good(c), NEW n \in Nat, n = Len(c.blk)
    PROVE  LET d == Added(AddFunction(c), "entry")
           IN  InFunction(SetInsertPoint(d, LastBlock(d)), n + 1)
<1>. DEFINE a == AddFunction(c)
            b == NewBlock(a, "entry")
            d == AddBasicBlock(b, LastBlock(b))
            e == SetInsertPoint(d, n + 1)
<1>1. Good(a) /\ Len(a.blk) = n /\ Len(a.fun) = Len(c.fun) + 1 /\ Len(c.fun) \in Nat
  BY AddFunctionLemma DEF Good, WellFormed, FileCIR
<1>. HIDE DEF a
<1>2. Good(b) /\ Len(b.blk) = n + 1 /\ LastBlock(b) = n + 1 /\ b.fun = a.fun
  BY <1>1, NewBlockLemma DEF BlockNames
<1>3. Len(b.fun) > 0
  BY <1>1, <1>2
<1>. HIDE DEF b
<1>4. Good(d) /\ Len(d.blk) = n + 1 /\ Len(d.fun) > 0
  BY <1>2, <1>3, AddBasicBlockLemma
<1>. HIDE DEF d
<1>5. Good(e) /\ Len(e.blk) = n + 1 /\ e.cur = n + 1 /\ e.fun = d.fun
  BY <1>4, SetInsertPointLemma
<1>6. InFunction(e, n + 1)
  BY <1>4, <1>5 DEF InFunction
<1>7. LastBlock(d) = n + 1
  BY <1>4 DEF LastBlock
<1>8. d = Added(a, "entry")
  BY DEF d, b, Added
<1>. QED
  BY <1>6, <1>7, <1>8 DEF a, e

\* The beginning of a function, in a file that may have none.
LEMMA FunctionGenLemma ==
    ASSUME IInv, FunctionAST_gen
    PROVE  IInv'
<1>. DEFINE n == Len(cir.blk)
            g == Activation(prog[fn'].node, breaks, Len(scopes))
            f == [g EXCEPT !.at = "args"]
<1>1. RestOK /\ frames = << >> /\ status = "gen" /\ fn < Len(prog)
  BY IInvParts DEF FunctionAST_gen
<1>2. Good(cir) /\ n \in Nat /\ fn \in Nat /\ Len(prog) \in Nat
  BY <1>1, ProgramsAssumption DEF RestOK, Good, WellFormed, FileCIR
<1>3. InFunction(cir', n + 1)
  BY <1>2, NewFunctionLemma DEF FunctionAST_gen
<1>4. /\ fn' = fn + 1 /\ varRefs' = [x \in VarNames |-> NoRef] /\ frames' = <<f>>
      /\ UNCHANGED <<prog, status, ret, scopes, breaks, freed, errors>>
  BY DEF FunctionAST_gen
<1>5. fn' \in 1..Len(prog)
  BY <1>1, <1>2, <1>4
<1>6. prog[fn'].node \in Nodes
  BY <1>5, FunctionLemma
<1>7. /\ scopes' \in Seq(Seq(Nodes)) /\ breaks' \in Seq(1..(n + 1)) /\ freed' \subseteq 1..(n + 1)
  BY <1>1, <1>2, <1>4 DEF RestOK
<1>8. RestOK'
  <2>1. varRefs' \in [VarNames -> InstrRef]
    BY <1>4, NamesLemma
  <2>2. fn' \in 0..Len(prog')
    BY <1>4, <1>5
  <2>3. Good(cir') /\ Len(cir'.blk) = n + 1
    BY <1>3 DEF InFunction
  <2>. QED
    BY <1>1, <1>4, <1>7, <2>1, <2>2, <2>3 DEF RestOK
<1>. DEFINE F == FrameType(n + 1)
<1>9. f \in F /\ f.node = prog[fn'].node /\ f.at = "args" /\ f.dep = Len(scopes)
  <2>1. /\ << >> \in Seq(Nodes) /\ NoRef \in InstrRef /\ 0 \in 0..(n + 1)
        /\ breaks \in Seq(1..(n + 1)) /\ Len(scopes) \in Nat /\ "args" \in Points /\ "start" \in Points
    BY <1>2, <1>4, <1>7, NamesLemma DEF Points
  <2>2. g \in F
    BY <1>6, <2>1 DEF Activation, FrameType
  <2>3. g.node = prog[fn'].node /\ g.dep = Len(scopes)
    BY DEF Activation
  <2>. HIDE DEF g
  <2>. QED
    BY <2>1, <2>2, <2>3 DEF FrameType
<1>. HIDE DEF f, F
<1>10. frames' \in Seq(F) /\ Len(frames') = 1 /\ frames'[1] = f /\ Top' = f
  BY <1>4, <1>9 DEF Top, Last
<1>11. HeldBlocks(f) /\ DepthBelow(f) = Len(scopes')
  BY <1>4, <1>9 DEF HeldBlocks, DepthBelow, InBody
<1>12. FramesOK'
  <2>1. ScopesDeepEnough'
    BY <1>4, <1>7, <1>10, <1>11 DEF ScopesDeepEnough
  <2>2. \A k \in DOMAIN frames' : HeldBlocks(frames'[k])
    BY <1>10, <1>11
  <2>3. fn' # 0 /\ cir'.cur # 0 /\ cir'.fun # << >> /\ Len(cir'.blk) = n + 1
    BY <1>3, <1>5 DEF InFunction
  <2>. QED
    BY <1>10, <2>1, <2>2, <2>3 DEF FramesOK, F
<1>. QED
  BY <1>8, <1>12, IInvParts DEF IInv, RestOK, FramesOK, TypeOK, BranchesRecorded, Good, Blocks

\* An argument of a function.
LEMMA FunctionArgLemma ==
    ASSUME IInv, FunctionAST_arg
    PROVE  IInv'
<1>. DEFINE n == Len(cir.blk)
            i == Instr("InitArg", "ptr", << >>)
            e == Emit(cir, i)
            k == Top.i + 1
            x == prog[fn].args[Top.i + 1]
            f == [Top EXCEPT !.i = k]
<1>1. Ready /\ Top.at = "args" /\ n \in Nat /\ Top.i \in Nat
  BY ReadyLemma, TopLemma DEF FunctionAST_arg, Ready
<1>2. x \in VarNames
  <2>1. fn \in 1..Len(prog)
    BY <1>1, InsideLemma DEF Ready
  <2>2. prog[fn].args \in Seq(VarNames)
    BY <2>1, FunctionLemma
  <2>. QED
    BY <1>1, <2>2 DEF FunctionAST_arg
<1>3. i \in Instruction(n) /\ ~Branches(i)
  BY <1>1, BuildOperandsLemma, NamesLemma
<1>4. /\ cir' = e.c /\ varRefs' = [varRefs EXCEPT ![x] = e.r] /\ Stay(f)
      /\ Steady /\ SameStacks /\ UNCHANGED ret
  BY DEF FunctionAST_arg
<1>. HIDE DEF i, x
<1>5. InFunction(e.c, n) /\ e.r \in InstrRef
  BY <1>1, <1>3, BuildInstructionLemma DEF Ready
<1>. HIDE DEF e
<1>6. RestOK' /\ fn' = fn /\ scopes' = scopes /\ InFunction(cir', n)
  <2>1. varRefs' \in [VarNames -> InstrRef] /\ ret' \in InstrRef
    BY <1>1, <1>2, <1>4, <1>5 DEF Ready
  <2>. QED
    BY <1>1, <1>4, <1>5, <2>1, SteadyLemma DEF InFunction, Steady, SameStacks
<1>7. f \in FrameType(n)
  <2>1. k \in Nat
    BY <1>1
  <2>. HIDE DEF k
  <2>. QED
    BY <1>1, <2>1 DEF FrameType, Ready
<1>8. f.at = "args" /\ f.dep = Top.dep
  BY <1>1 DEF FrameType, Ready
<1>. HIDE DEF f
<1>9. HeldBlocks(f) /\ DepthBelow(f) = Top.dep
  BY <1>8 DEF HeldBlocks, DepthBelow, InBody
<1>. QED
  BY <1>1, <1>4, <1>6, <1>7, <1>8, <1>9, GoOnLemma DEF Ready

\* The scope of a function.
LEMMA FunctionBodyLemma ==
    ASSUME IInv, FunctionAST_body
    PROVE  IInv'
<1>. DEFINE f == [Top EXCEPT !.at = "body", !.i = 0]
<1>1. Ready /\ Top.node.kind = "function" /\ DepthBelow(Top) = Top.dep
  BY ReadyLemma DEF FunctionAST_body, DepthBelow, InBody, Ready
<1>2. /\ scopes' = Append(scopes, << >>) /\ Stay(f) /\ Steady
      /\ UNCHANGED <<cir, varRefs, ret, breaks, freed, errors>>
  BY DEF FunctionAST_body, OpenScope
<1>3. scopes \in Seq(Seq(Nodes))
  BY <1>1, InsideLemma DEF Ready
<1>4. scopes' \in Seq(Seq(Nodes)) /\ Len(scopes') = Len(scopes) + 1
  BY <1>2, <1>3, ScopesLemma
<1>5. f \in FrameType(Len(cir.blk)) /\ f.dep = Top.dep /\ f.node = Top.node /\ f.at = "body"
  BY <1>1 DEF FrameType, Ready, Points
<1>6. RestOK' /\ fn' = fn /\ InFunction(cir', Len(cir.blk))
  BY <1>1, <1>2, <1>4, ScopesOnlyLemma DEF Ready
<1>. HIDE DEF f
<1>7. HeldBlocks(f) /\ DepthBelow(f) = Top.dep + 1
  BY <1>1, <1>5 DEF HeldBlocks, DepthBelow, InBody, Scoped
<1>. QED
  BY <1>1, <1>2, <1>4, <1>5, <1>6, <1>7, GoOnLemma, SMTT(30) DEF Ready

\* What a function returns, and the end of its code.
LEMMA EpilogueLemma ==
    ASSUME IInv, Ready
    PROVE  InFunction(Epilogue(Returned), Len(cir.blk))
<1>. DEFINE n == Len(cir.blk)
            e == Returned
            never == Instr("ConstNever", "never", << >>)
<1>1. n \in Nat /\ InFunction(cir, n) /\ Top.val \in InstrRef /\ Top.node.ty \in Types
  BY TopLemma, NodeLemma DEF Ready
<1>2. InFunction(e.c, n) /\ e.r \in InstrRef
  <2>1. /\ Instr("ConstVoid", "void", << >>) \in Instruction(n)
        /\ ~Branches(Instr("ConstVoid", "void", << >>))
        /\ Instr("ConstNumber", "val", << >>) \in Instruction(n)
        /\ ~Branches(Instr("ConstNumber", "val", << >>))
    BY <1>1, BuildOperandsLemma, NamesLemma
  <2>2. \A i \in Instruction(n) : ~Branches(i) => InFunction(Emit(cir, i).c, n) /\ Emit(cir, i).r \in InstrRef
    BY <1>1, BuildInstructionLemma
  <2>. QED
    BY <1>1, <2>1, <2>2 DEF Returned
<1>. HIDE DEF e
<1>. DEFINE v == IF TypeAt(e.c, e.r) = Top.node.ty THEN e
                 ELSE Emit(e.c, Instr("Cast", Top.node.ty, <<e.r>>))
<1>3. InFunction(v.c, n) /\ v.r \in InstrRef
  <2>1. /\ Instr("Cast", Top.node.ty, <<e.r>>) \in Instruction(n)
        /\ ~Branches(Instr("Cast", Top.node.ty, <<e.r>>))
    BY <1>1, <1>2, BuildOperandsLemma, NamesLemma
  <2>. QED
    BY <1>1, <1>2, <2>1, BuildInstructionLemma
<1>4. Epilogue(e) \in {AddInstruction(e.c, never), e.c,
                       AddInstruction(v.c, Instr("Return", "never", <<v.r>>))}
  BY DEF Epilogue
<1>. HIDE DEF v
<1>5. InFunction(AddInstruction(e.c, never), n)
  <2>1. never \in Instruction(n) /\ ~Branches(never)
    BY <1>1, BuildOperandsLemma, NamesLemma
  <2>. QED
    BY <1>1, <1>2, <2>1, BuildInstructionLemma DEF Emit
<1>6. InFunction(AddInstruction(v.c, Instr("Return", "never", <<v.r>>)), n)
  <2>1. /\ Instr("Return", "never", <<v.r>>) \in Instruction(n)
        /\ ~Branches(Instr("Return", "never", <<v.r>>))
    BY <1>1, <1>3, BuildOperandsLemma, NamesLemma
  <2>. QED
    BY <1>1, <1>3, <2>1, BuildInstructionLemma DEF Emit
<1>. QED
  BY <1>2, <1>4, <1>5, <1>6 DEF e

\* The end of a function.
LEMMA FunctionEndLemma ==
    ASSUME IInv, FunctionAST_end
    PROVE  IInv'
<1>. DEFINE n == Len(cir.blk)
<1>1. /\ Ready /\ scopes' \in Seq(Seq(Nodes)) /\ Len(scopes') >= Top.dep /\ breaks \in Seq(1..n)
      /\ n \in Nat
  BY CloseScopeLemma DEF FunctionAST_end, Scoped, Ready
<1>2. /\ cir' = Epilogue(Returned) /\ Leave(ret)
      /\ Steady /\ UNCHANGED <<varRefs, ret, breaks, freed, errors>>
  BY DEF FunctionAST_end, Leave
<1>3. InFunction(cir', n)
  BY <1>1, <1>2, EpilogueLemma
<1>4. /\ ret' \in InstrRef /\ varRefs' \in [VarNames -> InstrRef] /\ breaks' \in Seq(1..n)
      /\ n >= Len(cir.blk)
  BY <1>1, <1>2 DEF Ready
<1>5. RestOK' /\ fn' = fn
  BY <1>1, <1>2, <1>3, <1>4, StacksLemma2
<1>. QED
  BY <1>1, <1>2, <1>3, <1>4, <1>5, JustLeaveLemma

\* Once nothing is being generated the scopes no longer matter.
LEMMA FileLemma ==
    ASSUME IInv, FunctionAST_noValue \/ FileAST_generated \/ fixFileCIR \/ checkFileCIR
    PROVE  IInv'
<1>1. RestOK /\ FramesOK
  BY IInvParts
<1>2. CASE FunctionAST_noValue
  <2>1. scopes' \in Seq(Seq(Nodes))
    BY <1>2, CloseScopeLemma DEF FunctionAST_noValue, Scoped
  <2>2. /\ status' = "aborted"
        /\ UNCHANGED <<prog, fn, cir, varRefs, frames, ret, breaks, freed, errors>>
    BY <1>2 DEF FunctionAST_noValue
  <2>. QED
    BY <2>1, <2>2 DEF IInv, TypeOK, Blocks, BranchesRecorded, ScopesDeepEnough
<1>3. CASE FileAST_generated \/ checkFileCIR
  <2>1. /\ status' \in {"gen", "generated", "fixed", "checked", "aborted"} /\ status' # "gen"
        /\ UNCHANGED <<prog, fn, cir, varRefs, frames, ret, scopes, breaks, freed, errors>>
    BY <1>3 DEF FileAST_generated, checkFileCIR
  <2>. QED
    BY <2>1 DEF IInv, TypeOK, Blocks, BranchesRecorded, ScopesDeepEnough
<1>4. CASE fixFileCIR
  <2>1. /\ cir' = FixFile(cir) /\ status' = "fixed"
        /\ UNCHANGED <<prog, fn, varRefs, frames, ret, scopes, breaks, freed, errors>>
    BY <1>4 DEF fixFileCIR
  <2>2. Good(cir') /\ Len(cir'.blk) = Len(cir.blk) /\ cir'.cur = cir.cur /\ cir'.fun = cir.fun
    BY <1>1, <2>1, FixFileLemma DEF RestOK
  <2>3. RestOK'
    BY <1>1, <2>1, <2>2 DEF RestOK
  <2>4. FramesOK'
    BY <1>1, <2>1, <2>2 DEF FramesOK, ScopesDeepEnough
  <2>. QED
    BY <2>3, <2>4, IInvParts DEF IInv, RestOK, FramesOK, TypeOK, BranchesRecorded, Good, Blocks
<1>. QED
  BY <1>2, <1>3, <1>4


-----------------------------------------------------------------------------
(* The invariant.                                                          *)

\* The empty file.
LEMMA InitLemma ==
    ASSUME Init
    PROVE  IInv
<1>1. /\ cir = EmptyFile /\ frames = << >> /\ scopes = << >> /\ breaks = << >> /\ freed = {}
      /\ prog \in Programs /\ fn = 0 /\ ret = NoRef /\ errors = FALSE /\ status = "gen"
      /\ varRefs = [x \in VarNames |-> NoRef]
  BY DEF Init
<1>2. Good(cir)
  BY <1>1 DEF Good, EmptyFile, WellFormed, FileCIR, Recorded
<1>3. fn \in 0..Len(prog)
  BY <1>1, ProgramsAssumption
<1>4. RestOK
  <2>1. varRefs \in [VarNames -> InstrRef] /\ ret \in InstrRef
    BY <1>1, NamesLemma
  <2>2. scopes \in Seq(Seq(Nodes)) /\ breaks \in Seq(1..Len(cir.blk)) /\ freed \subseteq 1..Len(cir.blk)
    BY <1>1
  <2>3. errors \in BOOLEAN /\ status \in {"gen", "generated", "fixed", "checked", "aborted"}
    BY <1>1
  <2>. QED
    BY <1>1, <1>2, <1>3, <2>1, <2>2, <2>3 DEF RestOK
<1>5. FramesOK
  BY <1>1 DEF FramesOK, ScopesDeepEnough
<1>. QED
  BY <1>4, <1>5, IInvParts

\* Every step of the generation keeps the invariant.
LEMMA NextLemma ==
    ASSUME IInv, [Next]_vars
    PROVE  IInv'
<1>1. CASE Simple
  BY <1>1, ConstantLemma, VariableExprLemma, OperandLemma, VarExprLemma, AssignLemma,
     BinaryExprLemma, ArgumentLemma, CallExprLemma, ReturnLemma, DeferExprLemma, MatchExprLemma,
     LabelExprLemma, AbortLemma, BreakExprLemma, BreakErrorLemma
  DEF Simple, Argument_missing, GotoExpr_gen, BreakExpr_dangling
<1>2. CASE Control
  <2>1. CASE ScopeExpr_gen \/ NextStatement \/ EndScope \/ RunDefer \/ ScopeExpr_end
    BY <2>1, ScopeExprLemma, NextStatementLemma, EndScopeLemma, RunDeferLemma, ScopeEndLemma
  <2>2. CASE \/ IfExpr_gen \/ IfExpr_then \/ IfExpr_untyped \/ IfExpr_noElse
             \/ IfExpr_else \/ IfExpr_merge \/ IfExpr_abandon
    BY <2>2, IfExprLemma, IfThenLemma, AbortLemma, IfNoElseLemma, IfElseLemma, IfMergeLemma,
       IfAbandonLemma DEF IfExpr_untyped
  <2>3. CASE \/ LoopExpr_gen \/ LoopExpr_end \/ LoopExpr_abandon
             \/ WhileExpr_gen \/ WhileExpr_body \/ WhileExpr_abandon \/ WhileExpr_end
    BY <2>3, LoopExprLemma, LoopEndLemma, LoopAbandonLemma, WhileExprLemma, WhileBodyLemma,
       WhileAbandonLemma, WhileEndLemma
  <2>4. CASE \/ ForExpr_gen \/ ForExpr_cond \/ ForExpr_body \/ ForExpr_step
             \/ ForExpr_end \/ ForExpr_abandon
    BY <2>4, ForExprLemma, ForCondLemma, ForBodyLemma, ForStepLemma, ForEndLemma, ForAbandonLemma
  <2>. QED
    BY <1>2, <2>1, <2>2, <2>3, <2>4 DEF Control
<1>3. CASE File
  BY <1>3, FunctionGenLemma, FunctionArgLemma, FunctionBodyLemma, FunctionEndLemma, FileLemma
  DEF File
<1>4. CASE UNCHANGED vars
  BY <1>4 DEF vars, IInv, TypeOK, Blocks, BranchesRecorded, ScopesDeepEnough, Top
<1>. QED
  BY <1>1, <1>2, <1>3, <1>4, MemoryLemma DEF Next, Done

\* The invariant holds throughout.
THEOREM Invariance == Spec => []IInv
<1>1. Init => IInv
  BY InitLemma
<1>2. IInv /\ [Next]_vars => IInv'
  BY NextLemma
<1>. QED
  BY <1>1, <1>2, PTL DEF Spec

\* Whatever the file, the generation only refers to instructions, blocks and
\* references that exist: the FileCIR stays well formed, and the activations
\* and both static stacks hold blocks of it.
THEOREM TypeCorrect == Spec => []TypeOK
<1>1. IInv => TypeOK
  BY DEF IInv
<1>. QED
  BY <1>1, Invariance, PTL

\* Whatever the file, each branch is recorded in the predecessors of the
\* blocks it goes to, at every moment of the generation and after fixFileCIR.
THEOREM BranchesAlwaysRecorded == Spec => []BranchesRecorded
<1>1. IInv => BranchesRecorded
  BY DEF IInv
<1>. QED
  BY <1>1, Invariance, PTL

-----------------------------------------------------------------------------
(* The static stacks.  blocksForBreak: for every file it holds the blocks  *)
(* after the loops that enclose the statement being generated, and nothing *)
(* else.  Scopes: it has one entry for each open scope, and the            *)
(* expressions deferred in it are all generated when it is closed.         *)

\* What an action of a method finds while no block has been destroyed.
Watched == IInv /\ BreaksMatchLoops /\ status = "gen" /\ frames # << >> /\ freed = {}

\* An activation that has pushed nothing on blocksForBreak.
Outside(f) == ~(f.node.kind \in {"for", "while"} /\ InBody(f))

\* The activations and what they found on blocksForBreak.
LEMMA WatchedLemma ==
    ASSUME Watched
    PROVE  /\ frames \in Seq(FrameType(Len(cir.blk)))
           /\ Len(frames) \in Nat /\ Len(frames) > 0 /\ DOMAIN frames = 1..Len(frames)
           /\ Top = frames[Len(frames)] /\ Top \in FrameType(Len(cir.blk))
           /\ frames[1].brk = << >>
           /\ \A k \in 1..(Len(frames) - 1) : frames[k + 1].brk = BreaksBelow(frames[k])
           /\ breaks = BreaksBelow(Top)
<1>1. frames \in Seq(FrameType(Len(cir.blk))) /\ Top \in FrameType(Len(cir.blk)) /\ frames # << >>
  BY InsideLemma DEF Watched
<1>2. /\ Len(frames) \in Nat /\ Len(frames) > 0 /\ DOMAIN frames = 1..Len(frames)
      /\ Top = frames[Len(frames)]
  BY <1>1, StackLemma DEF Top
<1>3. /\ frames[1].brk = << >>
      /\ \A k \in 1..(Len(frames) - 1) : frames[k + 1].brk = BreaksBelow(frames[k])
      /\ breaks = BreaksBelow(Top)
  BY DEF Watched, BreaksMatchLoops
<1>. QED
  BY <1>1, <1>2, <1>3

-----------------------------------------------------------------------------
(* The ways an action changes the activations.                             *)

\* A method that returns leaves blocksForBreak as it found it.
LEMMA LeaveBreaks ==
    ASSUME Watched, frames' = Front(frames), breaks' = Top.brk
    PROVE  BreaksMatchLoops'
<1>. DEFINE n == Len(frames)
<1>1. /\ frames \in Seq(FrameType(Len(cir.blk))) /\ frames # << >>
      /\ n \in Nat /\ n > 0 /\ Top = frames[n]
      /\ frames[1].brk = << >>
      /\ \A k \in 1..(n - 1) : frames[k + 1].brk = BreaksBelow(frames[k])
  BY WatchedLemma DEF Watched
<1>2. /\ frames' \in Seq(FrameType(Len(cir.blk))) /\ Len(frames') = n - 1
      /\ \A k \in 1..(n - 1) : frames'[k] = frames[k]
  BY <1>1, StackLemma
<1>3. CASE n = 1
  <2>1. frames' = << >> /\ breaks' = << >>
    BY <1>1, <1>2, <1>3
  <2>. QED
    BY <2>1 DEF BreaksMatchLoops
<1>4. CASE n > 1
  <2>1. frames' # << >> /\ Top' = frames[n - 1]
    BY <1>1, <1>2, <1>4 DEF Top, Last
  <2>2. frames'[1].brk = << >>
    BY <1>1, <1>2, <1>4
  <2>3. \A k \in 1..(Len(frames') - 1) : frames'[k + 1].brk = BreaksBelow(frames'[k])
    BY <1>1, <1>2
  <2>4. breaks' = BreaksBelow(frames[n - 1])
    <3>1. n - 1 \in 1..(n - 1) /\ (n - 1) + 1 = n
      BY <1>1, <1>4
    <3>2. frames[(n - 1) + 1].brk = BreaksBelow(frames[n - 1])
      BY <1>1, <3>1
    <3>. QED
      BY <1>1, <3>1, <3>2
  <2>5. BreaksBelow(Top)' = BreaksBelow(frames[n - 1])
    BY <2>1 DEF BreaksBelow, InBody
  <2>6. \A k \in 1..(Len(frames') - 1) : frames'[k + 1].brk = BreaksBelow(frames[k])'
    BY <2>3 DEF BreaksBelow, InBody
  <2>. QED
    BY <2>1, <2>2, <2>4, <2>5, <2>6 DEF BreaksMatchLoops
<1>5. n = 1 \/ n > 1
  <2>1. n \in Nat /\ n > 0
    BY <1>1
  <2>. HIDE DEF n
  <2>. QED
    BY <2>1
<1>. QED
  BY <1>3, <1>4, <1>5

\* A method that goes on has pushed what its new point says.
LEMMA StayBreaks ==
    ASSUME Watched, NEW f, Stay(f), f.brk = Top.brk, breaks' = BreaksBelow(f)
    PROVE  BreaksMatchLoops'
<1>. DEFINE n == Len(frames)
            F == FrameType(Len(cir.blk)) \union {f}
<1>1. /\ frames \in Seq(FrameType(Len(cir.blk))) /\ frames # << >>
      /\ n \in Nat /\ n > 0 /\ Top = frames[n]
      /\ frames[1].brk = << >>
      /\ \A k \in 1..(n - 1) : frames[k + 1].brk = BreaksBelow(frames[k])
  BY WatchedLemma DEF Watched
<1>2. frames \in Seq(F) /\ f \in F
  BY <1>1
<1>. HIDE DEF F
<1>3. /\ frames' \in Seq(F) /\ Len(frames') = n
      /\ \A k \in 1..(n - 1) : frames'[k] = frames[k]
      /\ frames'[n] = f
  BY <1>1, <1>2, ReplaceLemma DEF Stay
<1>4. frames' # << >> /\ Top' = f
  BY <1>1, <1>3 DEF Top, Last
<1>5. frames'[1].brk = << >>
  BY <1>1, <1>3
<1>6. ASSUME NEW k \in 1..(n - 1)
      PROVE  frames'[k + 1].brk = BreaksBelow(frames'[k])
  <2>1. frames'[k] = frames[k] /\ frames[k + 1].brk = BreaksBelow(frames[k])
    BY <1>1, <1>3
  <2>2. frames'[k + 1].brk = frames[k + 1].brk
    BY <1>1, <1>3
  <2>. QED
    BY <2>1, <2>2
<1>. QED
  BY <1>3, <1>4, <1>5, <1>6 DEF BreaksMatchLoops, BreaksBelow, InBody

\* A method that calls another one hands blocksForBreak on.
LEMMA EnterBreaks ==
    ASSUME Watched, NEW f, NEW e, Enter(f, e), f.brk = Top.brk, breaks' = BreaksBelow(f)
    PROVE  BreaksMatchLoops'
<1>. DEFINE n == Len(frames)
            g == Activation(e, breaks', Len(scopes'))
            F == FrameType(Len(cir.blk)) \union {f, g}
<1>1. /\ frames \in Seq(FrameType(Len(cir.blk))) /\ frames # << >>
      /\ n \in Nat /\ n > 0 /\ Top = frames[n]
      /\ frames[1].brk = << >>
      /\ \A k \in 1..(n - 1) : frames[k + 1].brk = BreaksBelow(frames[k])
  BY WatchedLemma DEF Watched
<1>2. frames \in Seq(F) /\ f \in F /\ g \in F
  BY <1>1
<1>3. g.brk = breaks' /\ BreaksBelow(g) = breaks'
  BY DEF Activation, BreaksBelow, InBody
<1>4. frames' = Front(frames) \o <<f, g>>
  BY DEF Enter
<1>. HIDE DEF F, g
<1>5. /\ frames' \in Seq(F) /\ Len(frames') = n + 1
      /\ \A k \in 1..(n - 1) : frames'[k] = frames[k]
      /\ frames'[n] = f /\ frames'[n + 1] = g
  BY <1>1, <1>2, <1>4, PushLemma
<1>6. frames' # << >> /\ Top' = g
  BY <1>1, <1>5 DEF Top, Last
<1>7. frames'[1].brk = << >>
  BY <1>1, <1>5
<1>8. ASSUME NEW k \in 1..n
      PROVE  frames'[k + 1].brk = BreaksBelow(frames'[k])
  <2>1. CASE k = n
    BY <1>3, <1>5, <2>1
  <2>2. CASE k # n
    <3>1. k \in 1..(n - 1)
      BY <1>1, <2>2
    <3>2. frames'[k] = frames[k] /\ frames[k + 1].brk = BreaksBelow(frames[k])
      BY <1>1, <1>5, <3>1
    <3>3. frames'[k + 1].brk = frames[k + 1].brk
      BY <1>1, <1>5, <3>1
    <3>. QED
      BY <3>2, <3>3
  <2>. QED
    BY <2>1, <2>2
<1>. QED
  BY <1>1, <1>3, <1>5, <1>6, <1>7, <1>8 DEF BreaksMatchLoops, BreaksBelow, InBody

\* A method that has pushed nothing returns and pops nothing.
LEMMA ReturnBreaks ==
    ASSUME Watched, frames' = Front(frames), breaks' = breaks, Outside(Top)
    PROVE  BreaksMatchLoops'
<1>1. breaks' = Top.brk
  BY WatchedLemma DEF Outside, BreaksBelow
<1>. QED
  BY <1>1, LeaveBreaks

\* A method goes on, or calls another one, with the same loops open.
LEMMA SameBreaks ==
    ASSUME Watched, breaks' = breaks,
           NEW f, f.brk = Top.brk, f.node = Top.node,
           \/ Outside(Top) /\ Outside(f)
           \/ InBody(Top) /\ InBody(f) /\ f.after = Top.after
    PROVE  /\ Stay(f) => BreaksMatchLoops'
           /\ \A e : Enter(f, e) => BreaksMatchLoops'
<1>1. breaks' = BreaksBelow(f)
  BY WatchedLemma DEF Outside, BreaksBelow
<1>. QED
  BY <1>1, StayBreaks, EnterBreaks

-----------------------------------------------------------------------------
(* The actions.                                                            *)

\* The expressions on memory push and pop nothing.
LEMMA MemoryBreaks ==
    ASSUME Watched, Memory \/ Argument \/ Argument_missing
    PROVE  BreaksMatchLoops'
<1>1. /\ Outside(Top) /\ breaks' = breaks
      /\ \/ frames' = Front(frames)
         \/ \E r : Stay([Top EXCEPT !.at = "start", !.refs = Append(@, r)])
         \/ Abort
  BY MemoryWays DEF Outside, Scoped
<1>2. CASE frames' = Front(frames)
  BY <1>1, <1>2, ReturnBreaks
<1>3. ASSUME NEW r, Stay([Top EXCEPT !.at = "start", !.refs = Append(@, r)])
      PROVE  BreaksMatchLoops'
  <2>. DEFINE f == [Top EXCEPT !.at = "start", !.refs = Append(@, r)]
  <2>1. Stay(f)
    BY <1>3
  <2>2. f.brk = Top.brk /\ f.node = Top.node
    BY WatchedLemma DEF FrameType
  <2>. HIDE DEF f
  <2>3. Outside(f)
    BY <1>1, <2>2, MemoryWays DEF Outside, Scoped
  <2>. QED
    BY <1>1, <2>1, <2>2, <2>3, SameBreaks
<1>4. CASE Abort
  BY <1>4 DEF Abort, BreaksMatchLoops
<1>. QED
  BY <1>1, <1>2, <1>3, <1>4

\* The expressions without control flow push and pop nothing.
LEMMA SimpleBreaks ==
    ASSUME Watched, Simple
    PROVE  BreaksMatchLoops'
<1>1. CASE Operand
  <2>. DEFINE f == [Top EXCEPT !.at = "operand", !.i = @ + 1,
                               !.keep = IF Top.i = 0 THEN NoRef ELSE ret]
  <2>1. /\ Enter(f, Top.node.kids[Top.i + 1]) /\ breaks' = breaks
        /\ Top.node.kind \notin {"for", "while"}
    BY <1>1 DEF Operand, SameStacks, At
  <2>2. f.brk = Top.brk /\ f.node = Top.node /\ f.after = Top.after
    BY WatchedLemma DEF FrameType
  <2>. HIDE DEF f
  <2>3. Outside(Top) /\ Outside(f)
    BY <2>1, <2>2 DEF Outside
  <2>. QED
    BY <2>1, <2>2, <2>3, SameBreaks
<1>2. CASE \/ Constant \/ VariableExpr_gen \/ VarExpr_gen \/ Assign_gen \/ BinaryExpr_gen
           \/ CallExpr_gen \/ Return_gen
  <2>1. frames' = Front(frames) /\ breaks' = breaks
    BY <1>2 DEF Constant, VariableExpr_gen, VarExpr_gen, Assign_gen, BinaryExpr_gen,
                CallExpr_gen, Return_gen, EmitAndLeave, Leave, SameStacks
  <2>2. Top.node.kind \notin {"for", "while"}
    BY <1>2 DEF Constant, Literals, VariableExpr_gen, VarExpr_gen, Assign_gen, BinaryExpr_gen,
                CallExpr_gen, Return_gen, Evaluated, At
  <2>. QED
    BY <2>1, <2>2, ReturnBreaks DEF Outside
<1>3. CASE \/ DeferExpr_gen \/ MatchExpr_gen \/ LabelExpr_gen \/ BreakExpr_gen \/ BreakExpr_error
  <2>1. frames' = Front(frames) /\ breaks' = breaks
    BY <1>3 DEF DeferExpr_gen, MatchExpr_gen, LabelExpr_gen, BreakExpr_gen, BreakExpr_error,
                Report, EmitAndLeave, Leave, SameStacks
  <2>2. Top.node.kind \notin {"for", "while"}
    BY <1>3 DEF DeferExpr_gen, MatchExpr_gen, LabelExpr_gen, BreakExpr_gen, BreakExpr_error, At
  <2>. QED
    BY <2>1, <2>2, ReturnBreaks DEF Outside
<1>4. CASE GotoExpr_gen \/ BreakExpr_dangling
  BY <1>4 DEF GotoExpr_gen, BreakExpr_dangling, Abort, BreaksMatchLoops
<1>. QED
  BY <1>1, <1>2, <1>3, <1>4, MemoryBreaks DEF Simple

\* Scopes and conditionals push and pop nothing either.
LEMMA ScopeBreaks ==
    ASSUME Watched,
           ScopeExpr_gen \/ NextStatement \/ EndScope \/ RunDefer \/ ScopeExpr_end
    PROVE  BreaksMatchLoops'
<1>1. CASE ScopeExpr_gen
  <2>. DEFINE f == [Top EXCEPT !.at = "body"]
  <2>1. Stay(f) /\ breaks' = breaks /\ Top.node.kind = "scope"
    BY <1>1 DEF ScopeExpr_gen, At
  <2>2. f.brk = Top.brk /\ f.node = Top.node /\ f.after = Top.after
    BY WatchedLemma DEF FrameType
  <2>. HIDE DEF f
  <2>. QED
    BY <2>1, <2>2, SameBreaks DEF Outside
<1>2. CASE NextStatement
  <2>. DEFINE f == [Top EXCEPT !.i = @ + 1]
  <2>1. /\ Enter(f, Top.node.kids[Top.i + 1]) /\ breaks' = breaks
        /\ Top.node.kind \in {"scope", "loop", "function"}
    BY <1>2 DEF NextStatement, SameStacks, At
  <2>2. f.brk = Top.brk /\ f.node = Top.node /\ f.after = Top.after
    BY WatchedLemma DEF FrameType
  <2>. HIDE DEF f
  <2>. QED
    BY <2>1, <2>2, SameBreaks DEF Outside
<1>3. CASE EndScope
  <2>. DEFINE f == [Top EXCEPT !.at = "endScope", !.defers = Last(scopes),
                               !.val = IF Top.node.kids = << >> THEN NoRef ELSE ret]
  <2>1. Stay(f) /\ breaks' = breaks /\ Top.at = "body"
    BY <1>3 DEF EndScope, At
  <2>2. f.brk = Top.brk /\ f.node = Top.node /\ f.after = Top.after /\ f.at = "endScope"
    BY WatchedLemma DEF FrameType
  <2>. HIDE DEF f
  <2>3. InBody(Top) /\ InBody(f)
    BY <2>1, <2>2 DEF InBody
  <2>. QED
    BY <2>1, <2>2, <2>3, SameBreaks
<1>4. CASE RunDefer
  <2>. DEFINE f == [Top EXCEPT !.defers = Tail(@)]
  <2>1. Enter(f, Head(Top.defers)) /\ breaks' = breaks /\ Top.at = "endScope"
    BY <1>4 DEF RunDefer, SameStacks, At
  <2>2. f.brk = Top.brk /\ f.node = Top.node /\ f.after = Top.after /\ f.at = Top.at
    BY WatchedLemma DEF FrameType
  <2>. HIDE DEF f
  <2>3. InBody(Top) /\ InBody(f)
    BY <2>1, <2>2 DEF InBody
  <2>. QED
    BY <2>1, <2>2, <2>3, SameBreaks
<1>5. CASE ScopeExpr_end
  <2>1. frames' = Front(frames) /\ breaks' = breaks /\ Top.node.kind = "scope"
    BY <1>5 DEF ScopeExpr_end, CloseScope, Leave, At
  <2>. QED
    BY <2>1, ReturnBreaks DEF Outside
<1>. QED
  BY <1>1, <1>2, <1>3, <1>4, <1>5

\* The same for if.
LEMMA IfBreaks ==
    ASSUME Watched,
           \/ IfExpr_gen \/ IfExpr_then \/ IfExpr_untyped \/ IfExpr_noElse
           \/ IfExpr_else \/ IfExpr_merge \/ IfExpr_abandon
    PROVE  BreaksMatchLoops'
<1>1. CASE IfExpr_gen
  <2>. DEFINE f == [Top EXCEPT !.at = "cond"]
  <2>1. Enter(f, Top.node.kids[1]) /\ breaks' = breaks /\ Top.node.kind = "if"
    BY <1>1 DEF IfExpr_gen, SameStacks, At
  <2>2. f.brk = Top.brk /\ f.node = Top.node
    BY WatchedLemma DEF FrameType
  <2>. HIDE DEF f
  <2>. QED
    BY <2>1, <2>2, SameBreaks DEF Outside
<1>2. CASE IfExpr_then
  <2>1. PICK then, else, after :
           Enter([Top EXCEPT !.at = "then", !.body = then, !.alt = else, !.after = after],
                 Top.node.kids[2])
    BY <1>2 DEF IfExpr_then
  <2>. DEFINE f == [Top EXCEPT !.at = "then", !.body = then, !.alt = else, !.after = after]
  <2>2. breaks' = breaks /\ Top.node.kind = "if"
    BY <1>2 DEF IfExpr_then, SameStacks, At
  <2>3. f.brk = Top.brk /\ f.node = Top.node
    BY WatchedLemma DEF FrameType
  <2>. HIDE DEF f
  <2>. QED
    BY <2>1, <2>2, <2>3, SameBreaks DEF Outside, f
<1>3. CASE IfExpr_else
  <2>. DEFINE f == [Top EXCEPT !.at = "else", !.keep = ret, !.body = cir.cur]
  <2>1. Enter(f, Top.node.kids[3]) /\ breaks' = breaks /\ Top.node.kind = "if"
    BY <1>3 DEF IfExpr_else, SameStacks, At
  <2>2. f.brk = Top.brk /\ f.node = Top.node
    BY WatchedLemma DEF FrameType
  <2>. HIDE DEF f
  <2>. QED
    BY <2>1, <2>2, SameBreaks DEF Outside
<1>4. CASE IfExpr_noElse \/ IfExpr_merge \/ IfExpr_abandon
  <2>1. frames' = Front(frames) /\ breaks' = breaks /\ Top.node.kind = "if"
    BY <1>4 DEF IfExpr_noElse, IfExpr_merge, IfExpr_abandon, EmitAndLeave, Leave, SameStacks, At
  <2>. QED
    BY <2>1, ReturnBreaks DEF Outside
<1>5. CASE IfExpr_untyped
  BY <1>5 DEF IfExpr_untyped, Abort, BreaksMatchLoops
<1>. QED
  BY <1>1, <1>2, <1>3, <1>4, <1>5

\* An infinite loop pushes nothing.
LEMMA LoopBreaks ==
    ASSUME Watched, LoopExpr_gen \/ LoopExpr_end \/ LoopExpr_abandon
    PROVE  BreaksMatchLoops'
<1>1. CASE LoopExpr_gen
  <2>1. PICK b : Stay([Top EXCEPT !.at = "body", !.head = b])
    BY <1>1 DEF LoopExpr_gen
  <2>. DEFINE f == [Top EXCEPT !.at = "body", !.head = b]
  <2>2. breaks' = breaks /\ Top.node.kind = "loop"
    BY <1>1 DEF LoopExpr_gen, At
  <2>3. f.brk = Top.brk /\ f.node = Top.node
    BY WatchedLemma DEF FrameType
  <2>4. Stay(f)
    BY <2>1
  <2>. HIDE DEF f
  <2>. QED
    BY <2>2, <2>3, <2>4, SameBreaks DEF Outside
<1>2. CASE LoopExpr_end \/ LoopExpr_abandon
  <2>1. frames' = Front(frames) /\ breaks' = breaks /\ Top.node.kind = "loop"
    BY <1>2 DEF LoopExpr_end, LoopExpr_abandon, CloseScope, EmitAndLeave, Leave, SameStacks, At
  <2>. QED
    BY <2>1, ReturnBreaks DEF Outside
<1>. QED
  BY <1>1, <1>2

\* What a loop has pushed is on top, and popping it gives what the loop found.
LEMMA PoppedLemma ==
    ASSUME Watched, Top.node.kind \in {"for", "while"}, InBody(Top), breaks' = Front(breaks)
    PROVE  breaks' = Top.brk
<1>. DEFINE n == Len(cir.blk)
<1>1. breaks = Append(Top.brk, Top.after)
  BY WatchedLemma DEF BreaksBelow
<1>2. Top.brk \in Seq(1..n) /\ Top.after \in 0..n /\ n \in Nat
  <2>1. n \in Nat
    BY InsideLemma DEF Watched
  <2>. QED
    BY <2>1, WatchedLemma DEF FrameType
<1>3. Top.brk \in Seq(0..n)
  BY <1>2
<1>. HIDE DEF n
<1>. QED
  BY <1>1, <1>2, <1>3 DEF Front

\* A while pushes the block after it when its body begins, and pops it at the end.
LEMMA WhileBreaks ==
    ASSUME Watched, WhileExpr_gen \/ WhileExpr_body \/ WhileExpr_abandon \/ WhileExpr_end
    PROVE  BreaksMatchLoops'
<1>1. CASE WhileExpr_gen
  <2>1. PICK head, body :
           Enter([Top EXCEPT !.at = "cond", !.head = head, !.body = body], Top.node.kids[1])
    BY <1>1 DEF WhileExpr_gen
  <2>. DEFINE f == [Top EXCEPT !.at = "cond", !.head = head, !.body = body]
  <2>2. breaks' = breaks /\ Top.at = "start"
    BY <1>1 DEF WhileExpr_gen, SameStacks, At
  <2>3. f.brk = Top.brk /\ f.node = Top.node /\ f.at = "cond"
    BY WatchedLemma DEF FrameType
  <2>4. Enter(f, Top.node.kids[1])
    BY <2>1
  <2>. HIDE DEF f
  <2>. QED
    BY <2>2, <2>3, <2>4, SameBreaks DEF Outside, InBody
<1>2. CASE WhileExpr_body
  <2>1. PICK after : /\ breaks' = Append(breaks, after)
                     /\ Enter([Top EXCEPT !.at = "body", !.after = after], Top.node.kids[2])
    BY <1>2 DEF WhileExpr_body
  <2>. DEFINE f == [Top EXCEPT !.at = "body", !.after = after]
  <2>2. Top.node.kind = "while" /\ Top.at = "cond"
    BY <1>2 DEF WhileExpr_body, At
  <2>3. f.brk = Top.brk /\ f.node = Top.node /\ f.at = "body" /\ f.after = after
    BY WatchedLemma DEF FrameType
  <2>4. Enter(f, Top.node.kids[2])
    BY <2>1
  <2>. HIDE DEF f
  <2>5. breaks' = BreaksBelow(f)
    BY <2>1, <2>2, <2>3, WatchedLemma DEF BreaksBelow, InBody
  <2>. QED
    BY <2>3, <2>4, <2>5, EnterBreaks
<1>3. CASE WhileExpr_abandon
  <2>1. frames' = Front(frames) /\ breaks' = breaks /\ Top.at = "cond"
    BY <1>3 DEF WhileExpr_abandon, Leave, SameStacks, At
  <2>. QED
    BY <2>1, ReturnBreaks DEF Outside, InBody
<1>4. CASE WhileExpr_end
  <2>1. /\ frames' = Front(frames) /\ breaks' = Front(breaks)
        /\ Top.node.kind = "while" /\ InBody(Top)
    BY <1>4 DEF WhileExpr_end, CloseScope, EmitAndLeave, Leave, At, InBody
  <2>. QED
    BY <2>1, PoppedLemma, LeaveBreaks
<1>. QED
  BY <1>1, <1>2, <1>3, <1>4

\* A for pops the block after it before its step is generated.  One that gives
\* up in its body or step destroys that block.
LEMMA ForBreaks ==
    ASSUME Watched,
           \/ ForExpr_gen \/ ForExpr_cond \/ ForExpr_body \/ ForExpr_step
           \/ ForExpr_end \/ ForExpr_abandon
    PROVE  BreaksMatchLoops'
<1>1. CASE ForExpr_gen
  <2>. DEFINE f == [Top EXCEPT !.at = "init"]
  <2>1. Enter(f, Top.node.kids[1]) /\ breaks' = breaks /\ Top.at = "start"
    BY <1>1 DEF ForExpr_gen, SameStacks, At
  <2>2. f.brk = Top.brk /\ f.node = Top.node /\ f.at = "init"
    BY WatchedLemma DEF FrameType
  <2>. HIDE DEF f
  <2>. QED
    BY <2>1, <2>2, SameBreaks DEF Outside, InBody
<1>2. CASE ForExpr_cond
  <2>1. PICK keep, head :
           Enter([Top EXCEPT !.at = "cond", !.keep = keep, !.head = head], Top.node.kids[2])
    BY <1>2 DEF ForExpr_cond
  <2>. DEFINE f == [Top EXCEPT !.at = "cond", !.keep = keep, !.head = head]
  <2>2. breaks' = breaks /\ Top.at = "init"
    BY <1>2 DEF ForExpr_cond, SameStacks, At
  <2>3. f.brk = Top.brk /\ f.node = Top.node /\ f.at = "cond"
    BY WatchedLemma DEF FrameType
  <2>4. Enter(f, Top.node.kids[2])
    BY <2>1
  <2>. HIDE DEF f
  <2>. QED
    BY <2>2, <2>3, <2>4, SameBreaks DEF Outside, InBody
<1>3. CASE ForExpr_body
  <2>1. PICK after : /\ breaks' = Append(breaks, after)
                     /\ Enter([Top EXCEPT !.at = "body", !.after = after], Top.node.kids[3])
    BY <1>3 DEF ForExpr_body
  <2>. DEFINE f == [Top EXCEPT !.at = "body", !.after = after]
  <2>2. Top.node.kind = "for" /\ Top.at = "cond"
    BY <1>3 DEF ForExpr_body, At
  <2>3. f.brk = Top.brk /\ f.node = Top.node /\ f.at = "body" /\ f.after = after
    BY WatchedLemma DEF FrameType
  <2>4. Enter(f, Top.node.kids[3])
    BY <2>1
  <2>. HIDE DEF f
  <2>5. breaks' = BreaksBelow(f)
    BY <2>1, <2>2, <2>3, WatchedLemma DEF BreaksBelow, InBody
  <2>. QED
    BY <2>3, <2>4, <2>5, EnterBreaks
<1>4. CASE ForExpr_step
  <2>. DEFINE f == [Top EXCEPT !.at = "step"]
  <2>1. /\ Enter(f, Top.node.kids[4]) /\ breaks' = Front(breaks)
        /\ Top.node.kind = "for" /\ InBody(Top)
    BY <1>4 DEF ForExpr_step, CloseScope, At, InBody
  <2>2. f.brk = Top.brk /\ f.at = "step"
    BY WatchedLemma DEF FrameType
  <2>. HIDE DEF f
  <2>3. breaks' = BreaksBelow(f)
    BY <2>1, <2>2, PoppedLemma DEF BreaksBelow, InBody
  <2>. QED
    BY <2>1, <2>2, <2>3, EnterBreaks
<1>5. CASE ForExpr_end
  <2>1. frames' = Front(frames) /\ breaks' = breaks /\ Top.at = "step"
    BY <1>5 DEF ForExpr_end, EmitAndLeave, Leave, SameStacks, At
  <2>. QED
    BY <2>1, ReturnBreaks DEF Outside, InBody
<1>6. CASE ForExpr_abandon
  <2>1. /\ frames' = Front(frames) /\ breaks' = breaks
        /\ freed' = IF Top.at \in {"body", "step"} THEN freed \union {Top.after} ELSE freed
        /\ Top.at \in {"init", "cond", "body", "step"}
    BY <1>6 DEF ForExpr_abandon, Leave, At
  <2>2. CASE Top.at \in {"body", "step"}
    BY <2>1, <2>2 DEF BreaksMatchLoops
  <2>3. CASE Top.at \notin {"body", "step"}
    BY <2>1, <2>3, ReturnBreaks DEF Outside, InBody
  <2>. QED
    BY <2>2, <2>3
<1>. QED
  BY <1>1, <1>2, <1>3, <1>4, <1>5, <1>6

\* A function begins and ends with nothing on blocksForBreak.
LEMMA FunctionBreaks ==
    ASSUME IInv, BreaksMatchLoops, File
    PROVE  BreaksMatchLoops'
<1>1. CASE FunctionAST_gen
  <2>1. /\ status = "gen" /\ frames = << >> /\ UNCHANGED <<breaks, freed>>
        /\ frames' = <<[Activation(prog[fn'].node, breaks, Len(scopes)) EXCEPT !.at = "args"]>>
    BY <1>1 DEF FunctionAST_gen
  <2>2. SUFFICES ASSUME freed' = {}
                 PROVE  BreaksMatchLoops'
    BY DEF BreaksMatchLoops
  <2>3. breaks = << >>
    BY <2>1, <2>2 DEF BreaksMatchLoops
  <2>. DEFINE f == [Activation(prog[fn'].node, breaks, Len(scopes)) EXCEPT !.at = "args"]
  <2>4. f.brk = << >> /\ f.at = "args"
    BY <2>3 DEF Activation
  <2>5. frames' = <<f>>
    BY <2>1
  <2>. HIDE DEF f
  <2>6. frames' # << >> /\ Len(frames') = 1 /\ frames'[1] = f
    BY <2>5
  <2>7. Top' = f
    BY <2>6 DEF Top, Last
  <2>8. BreaksBelow(Top)' = << >>
    BY <2>4, <2>7 DEF BreaksBelow, InBody
  <2>. QED
    BY <2>1, <2>3, <2>4, <2>6, <2>8 DEF BreaksMatchLoops
<1>2. CASE FunctionAST_noValue \/ FileAST_generated \/ fixFileCIR \/ checkFileCIR
  BY <1>2 DEF FunctionAST_noValue, FileAST_generated, fixFileCIR, checkFileCIR, BreaksMatchLoops
<1>3. CASE FunctionAST_arg \/ FunctionAST_body \/ FunctionAST_end
  <2>1. /\ status = "gen" /\ frames # << >> /\ Top.node.kind = "function"
        /\ breaks' = breaks /\ freed' = freed
    BY <1>3 DEF FunctionAST_arg, FunctionAST_body, FunctionAST_end, CloseScope, SameStacks, At
  <2>2. SUFFICES ASSUME Watched
                 PROVE  BreaksMatchLoops'
    BY <2>1 DEF Watched, BreaksMatchLoops
  <2>3. CASE FunctionAST_arg
    <3>. DEFINE f == [Top EXCEPT !.i = @ + 1]
    <3>1. Stay(f)
      BY <2>3 DEF FunctionAST_arg
    <3>2. f.brk = Top.brk /\ f.node = Top.node
      BY <2>2, WatchedLemma DEF FrameType
    <3>. HIDE DEF f
    <3>. QED
      BY <2>1, <2>2, <3>1, <3>2, SameBreaks DEF Outside
  <2>4. CASE FunctionAST_body
    <3>. DEFINE f == [Top EXCEPT !.at = "body", !.i = 0]
    <3>1. Stay(f)
      BY <2>4 DEF FunctionAST_body
    <3>2. f.brk = Top.brk /\ f.node = Top.node
      BY <2>2, WatchedLemma DEF FrameType
    <3>. HIDE DEF f
    <3>. QED
      BY <2>1, <2>2, <3>1, <3>2, SameBreaks DEF Outside
  <2>5. CASE FunctionAST_end
    <3>1. frames' = Front(frames)
      BY <2>5 DEF FunctionAST_end
    <3>. QED
      BY <2>1, <2>2, <3>1, ReturnBreaks DEF Outside
  <2>. QED
    BY <1>3, <2>3, <2>4, <2>5
<1>. QED
  BY <1>1, <1>2, <1>3 DEF File

-----------------------------------------------------------------------------
(* The theorem.                                                            *)

\* A block that has been destroyed stays so, and only a method that runs
\* generates.
LEMMA FreedGrows ==
    ASSUME Simple \/ Memory \/ Control
    PROVE  freed \subseteq freed' /\ status = "gen" /\ frames # << >>
<1>1. CASE Simple /\ ~(Argument \/ Argument_missing)
  BY <1>1 DEF Simple, Constant, VariableExpr_gen, Operand, VarExpr_gen, Assign_gen,
     BinaryExpr_gen, CallExpr_gen, Return_gen, DeferExpr_gen, MatchExpr_gen, LabelExpr_gen,
     GotoExpr_gen, BreakExpr_gen, BreakExpr_dangling, BreakExpr_error, Report, Abort, SameStacks,
     Evaluated, At
<1>2. CASE Control
  <2>1. CASE \/ ScopeExpr_gen \/ NextStatement \/ EndScope \/ RunDefer \/ ScopeExpr_end
             \/ LoopExpr_gen \/ LoopExpr_end \/ LoopExpr_abandon
    BY <2>1 DEF ScopeExpr_gen, NextStatement, EndScope, RunDefer, ScopeExpr_end, LoopExpr_gen,
       LoopExpr_end, LoopExpr_abandon, CloseScope, SameStacks, At
  <2>2. CASE \/ IfExpr_gen \/ IfExpr_then \/ IfExpr_untyped \/ IfExpr_noElse
             \/ IfExpr_else \/ IfExpr_merge \/ IfExpr_abandon
    BY <2>2 DEF IfExpr_gen, IfExpr_then, IfExpr_untyped, IfExpr_noElse, IfExpr_else,
       IfExpr_merge, IfExpr_abandon, Abort, SameStacks, At
  <2>3. CASE \/ WhileExpr_gen \/ WhileExpr_body \/ WhileExpr_abandon \/ WhileExpr_end
             \/ ForExpr_gen \/ ForExpr_cond \/ ForExpr_body \/ ForExpr_step
             \/ ForExpr_end \/ ForExpr_abandon
    BY <2>3 DEF WhileExpr_gen, WhileExpr_body, WhileExpr_abandon, WhileExpr_end, ForExpr_gen,
       ForExpr_cond, ForExpr_body, ForExpr_step, ForExpr_end, ForExpr_abandon, CloseScope,
       SameStacks, At
  <2>. QED
    BY <1>2, <2>1, <2>2, <2>3 DEF Control
<1>. QED
  BY <1>1, <1>2, MemoryWays

\* Whatever the file, as long as no early return has destroyed a block, a
\* break leaves the innermost for or while it is written in, and one outside
\* of them is an error (BreakExprAST::cir_gen and blocksForBreak).
THEOREM BreaksAlwaysMatchLoops == Spec => []BreaksMatchLoops
<1>1. Init => BreaksMatchLoops
  BY DEF Init, BreaksMatchLoops
<1>2. IInv /\ BreaksMatchLoops /\ [Next]_vars => BreaksMatchLoops'
  <2>1. SUFFICES ASSUME IInv, BreaksMatchLoops, [Next]_vars
                 PROVE  BreaksMatchLoops'
    OBVIOUS
  <2>2. CASE Simple \/ Memory \/ Control
    <3>1. freed \subseteq freed' /\ status = "gen" /\ frames # << >>
      BY <2>2, FreedGrows
    <3>2. CASE freed = {}
      <4>1. Watched
        BY <2>1, <3>1, <3>2 DEF Watched
      <4>. QED
        BY <2>2, <4>1, SimpleBreaks, MemoryBreaks, ScopeBreaks, IfBreaks, LoopBreaks, WhileBreaks,
           ForBreaks DEF Control
    <3>3. CASE freed # {}
      <4>1. freed' # {}
        BY <3>1, <3>3
      <4>. QED
        BY <4>1 DEF BreaksMatchLoops
    <3>. QED
      BY <3>2, <3>3
  <2>3. CASE File
    BY <2>1, <2>3, FunctionBreaks
  <2>4. CASE UNCHANGED vars
    BY <2>1, <2>4 DEF vars, BreaksMatchLoops, BreaksBelow, InBody, Top
  <2>. QED
    BY <2>1, <2>2, <2>3, <2>4 DEF Next, Done
<1>. QED
  BY <1>1, <1>2, Invariance, PTL DEF Spec

-----------------------------------------------------------------------------
(* Scopes.                                                                 *)

\* An activation with a scope of its own: open, or being closed by endScope.
Open(f) == f.node.kind \in Scoped /\ InBody(f)
Closing(f) == f.node.kind \in Scoped /\ f.at = "endScope"

\* The early returns that leave a scope open.
LeavesScopeOpen == LoopExpr_abandon \/ (At({"for"}, "body") /\ ForExpr_abandon)

\* Scopes holds one entry for every open scope.
ScopesExact ==
    status = "gen" =>
        IF frames = << >> THEN scopes = << >>
        ELSE /\ frames[1].dep = 0
             /\ \A k \in 1..(Len(frames) - 1) : frames[k + 1].dep = DepthBelow(frames[k])
             /\ Len(scopes) = DepthBelow(Top)

\* The children that are statements of a scope of their parent.
Statements(n) ==
    CASE n.kind \in {"scope", "loop", "function"} -> DOMAIN n.kids
      [] n.kind = "for" -> {3}
      [] n.kind = "while" -> {2}
      [] OTHER -> {}

\* What an action of a method does to the activations and Scopes.
Going(f) == f.node = Top.node /\ f.dep = Top.dep
GoesOn(f) ==
    \/ Stay(f)
    \/ \E k \in DOMAIN Top.node.kids :
          /\ Enter(f, Top.node.kids[k])
          /\ Open(f) \/ k \notin Statements(Top.node)

Returns == frames' = Front(frames) /\ scopes' = scopes /\ ~Open(Top)
Defers ==
    /\ frames' = Front(frames) /\ Top.node.kind = "defer"
    /\ scopes' = [scopes EXCEPT ![Len(scopes)] = Append(@, Top.node.kids[1])]
Continues ==
    /\ scopes' = scopes
    /\ \E f : /\ Going(f) /\ GoesOn(f) /\ f.defers = Top.defers
              /\ (Open(f) <=> Open(Top)) /\ ~Closing(f) /\ ~Closing(Top)
Opens ==
    /\ scopes' = Append(scopes, << >>) /\ ~Open(Top)
    /\ \E f : Going(f) /\ GoesOn(f) /\ f.defers = Top.defers /\ Open(f) /\ ~Closing(f)
StartsEnd ==
    /\ Open(Top) /\ ~Closing(Top)
    /\ scopes' = [scopes EXCEPT ![Len(scopes)] = << >>]
    /\ \E f : Going(f) /\ Stay(f) /\ f.defers = Last(scopes) /\ Closing(f)
RunsDefer ==
    /\ Closing(Top) /\ Top.defers # << >> /\ scopes' = scopes
    /\ \E f : /\ Going(f) /\ Closing(f) /\ f.defers = Tail(Top.defers)
              /\ Enter(f, Head(Top.defers))
Closes ==
    /\ Closing(Top) /\ scopes' = Front(scopes)
    /\ \/ frames' = Front(frames)
       \/ \E f : Going(f) /\ GoesOn(f) /\ f.defers = Top.defers /\ ~Open(f)

Stops ==
    /\ status' # "gen"
    /\ scopes' = scopes \/ (Closing(Top) /\ scopes' = Front(scopes))

Way ==
    \/ Returns \/ Defers \/ Continues \/ Opens \/ StartsEnd \/ RunsDefer \/ Closes
    \/ Stops

\* The expressions without control flow.
LEMMA SimpleWay ==
    ASSUME IInv, Simple \/ Memory
    PROVE  Way
<1>1. CASE Memory \/ Argument \/ Argument_missing
  <2>1. /\ status = "gen" /\ frames # << >> /\ Top.node.kind \notin Scoped \union {"if"}
        /\ scopes' = scopes
        /\ \/ frames' = Front(frames)
           \/ \E r : Stay([Top EXCEPT !.at = "start", !.refs = Append(@, r)])
           \/ Abort
    BY <1>1, MemoryWays
  <2>2. CASE frames' = Front(frames)
    BY <2>1, <2>2 DEF Way, Returns, Open
  <2>3. ASSUME NEW r, Stay([Top EXCEPT !.at = "start", !.refs = Append(@, r)])
        PROVE  Way
    <3>. DEFINE f == [Top EXCEPT !.at = "start", !.refs = Append(@, r)]
    <3>1. f.node = Top.node /\ f.dep = Top.dep /\ f.defers = Top.defers
      BY <2>1, InsideLemma DEF FrameType
    <3>2. Stay(f)
      BY <2>3
    <3>. HIDE DEF f
    <3>3. ~Open(f) /\ ~Open(Top) /\ ~Closing(f) /\ ~Closing(Top)
      BY <2>1, <3>1 DEF Open, Closing
    <3>4. Going(f) /\ GoesOn(f)
      BY <3>1, <3>2 DEF Going, GoesOn
    <3>5. Continues
      BY <2>1, <3>1, <3>3, <3>4 DEF Continues
    <3>. QED
      BY <3>5 DEF Way
  <2>4. CASE Abort
    <3>1. Stops
      BY <2>4 DEF Abort, Stops
    <3>. QED
      BY <3>1 DEF Way
  <2>. QED
    BY <2>1, <2>2, <2>3, <2>4
<1>2. CASE Operand
  <2>. DEFINE f == [Top EXCEPT !.at = "operand", !.i = @ + 1,
                               !.keep = IF Top.i = 0 THEN NoRef ELSE ret]
  <2>1. /\ Enter(f, Top.node.kids[Top.i + 1]) /\ scopes' = scopes
        /\ status = "gen" /\ frames # << >>
        /\ Top.node.kind \notin Scoped /\ Top.i < Operands(Top.node)
    BY <1>2 DEF Operand, SameStacks, At, Scoped
  <2>2. f.node = Top.node /\ f.dep = Top.dep /\ f.defers = Top.defers
    BY <2>1, InsideLemma DEF FrameType
  <2>3. Top.i + 1 \in DOMAIN Top.node.kids
    <3>1. Top.i \in Nat /\ Top.node.kids \in Seq(Nodes)
      BY <2>1, InsideLemma, ProgramsAssumption DEF FrameType
    <3>. QED
      BY <2>1, <3>1 DEF Operands
  <2>. HIDE DEF f
  <2>4. ~Open(f) /\ ~Open(Top) /\ ~Closing(f) /\ ~Closing(Top)
    BY <2>1, <2>2 DEF Open, Closing
  <2>5. Statements(Top.node) = {}
    BY <2>1 DEF Statements, Scoped
  <2>6. Going(f) /\ GoesOn(f)
    BY <2>1, <2>2, <2>3, <2>5 DEF Going, GoesOn
  <2>7. Continues
    BY <2>1, <2>2, <2>4, <2>6 DEF Continues
  <2>. QED
    BY <2>7 DEF Way
<1>3. CASE \/ Constant \/ VariableExpr_gen \/ VarExpr_gen \/ Assign_gen \/ BinaryExpr_gen
           \/ CallExpr_gen \/ Return_gen \/ MatchExpr_gen \/ LabelExpr_gen
  <2>1. frames' = Front(frames) /\ scopes' = scopes
    BY <1>3 DEF Constant, VariableExpr_gen, VarExpr_gen, Assign_gen, BinaryExpr_gen,
                CallExpr_gen, Return_gen, MatchExpr_gen, LabelExpr_gen, EmitAndLeave, Leave,
                SameStacks
  <2>2. Top.node.kind \notin Scoped
    BY <1>3 DEF Constant, Literals, VariableExpr_gen, VarExpr_gen, Assign_gen, BinaryExpr_gen,
                CallExpr_gen, Return_gen, MatchExpr_gen, LabelExpr_gen, Evaluated, At, Scoped
  <2>. QED
    BY <2>1, <2>2 DEF Way, Returns, Open
<1>4. CASE BreakExpr_gen \/ BreakExpr_error
  <2>1. frames' = Front(frames) /\ scopes' = scopes /\ Top.node.kind \notin Scoped
    BY <1>4 DEF BreakExpr_gen, BreakExpr_error, Report, EmitAndLeave, Leave, SameStacks, At, Scoped
  <2>. QED
    BY <2>1 DEF Way, Returns, Open
<1>5. CASE DeferExpr_gen
  BY <1>5 DEF DeferExpr_gen, EmitAndLeave, Leave, At, Way, Defers
<1>6. CASE GotoExpr_gen \/ BreakExpr_dangling
  <2>1. Stops
    BY <1>6 DEF GotoExpr_gen, BreakExpr_dangling, Abort, Stops
  <2>. QED
    BY <2>1 DEF Way
<1>. QED
  BY <1>1, <1>2, <1>3, <1>4, <1>5, <1>6 DEF Simple

\* An activation goes on with child k of its node.
LEMMA EntersWay ==
    ASSUME IInv, frames # << >>, scopes' = scopes, NEW f, Going(f), f.defers = Top.defers,
           NEW k \in DOMAIN Top.node.kids, Enter(f, Top.node.kids[k]),
           ~Closing(f), ~Closing(Top),
           \/ Open(f) /\ Open(Top)
           \/ ~Open(f) /\ ~Open(Top) /\ k \notin Statements(Top.node)
    PROVE  Way
<1>1. GoesOn(f)
  BY DEF GoesOn
<1>2. Continues
  BY <1>1 DEF Continues
<1>. QED
  BY <1>2 DEF Way

\* Blocks of statements, and endScope.
LEMMA ScopeWay ==
    ASSUME IInv, ScopeExpr_gen \/ NextStatement \/ EndScope \/ RunDefer \/ ScopeExpr_end
    PROVE  Way
<1>0. frames # << >>
  BY DEF ScopeExpr_gen, NextStatement, EndScope, RunDefer, ScopeExpr_end, CloseScope, At
<1>1. CASE ScopeExpr_gen
  <2>. DEFINE f == [Top EXCEPT !.at = "body"]
  <2>1. /\ Stay(f) /\ scopes' = Append(scopes, << >>)
        /\ Top.node.kind = "scope" /\ Top.at = "start"
    BY <1>1 DEF ScopeExpr_gen, OpenScope, At
  <2>2. f.node = Top.node /\ f.dep = Top.dep /\ f.defers = Top.defers /\ f.at = "body"
    BY <1>0, InsideLemma DEF FrameType
  <2>. HIDE DEF f
  <2>3. ~Open(Top) /\ Open(f) /\ ~Closing(f) /\ Going(f) /\ GoesOn(f)
    BY <2>1, <2>2 DEF Open, Closing, InBody, Scoped, Going, GoesOn
  <2>4. Opens
    BY <2>1, <2>2, <2>3 DEF Opens
  <2>. QED
    BY <2>4 DEF Way
<1>2. CASE NextStatement
  <2>. DEFINE f == [Top EXCEPT !.i = @ + 1]
  <2>1. /\ Enter(f, Top.node.kids[Top.i + 1]) /\ scopes' = scopes
        /\ Top.node.kind \in Scoped /\ Top.at = "body" /\ Top.i < Len(Top.node.kids)
    BY <1>2 DEF NextStatement, SameStacks, At, Scoped
  <2>2. f.node = Top.node /\ f.dep = Top.dep /\ f.defers = Top.defers /\ f.at = "body"
    BY <1>0, <2>1, InsideLemma DEF FrameType
  <2>3. Top.i + 1 \in DOMAIN Top.node.kids
    <3>1. Top.i \in Nat /\ Top.node.kids \in Seq(Nodes)
      BY <1>0, InsideLemma, ProgramsAssumption DEF FrameType
    <3>. QED
      BY <2>1, <3>1
  <2>. HIDE DEF f
  <2>4. Going(f) /\ Open(f) /\ Open(Top) /\ ~Closing(f) /\ ~Closing(Top)
    BY <2>1, <2>2 DEF Open, Closing, InBody, Going
  <2>. QED
    BY <1>0, <2>1, <2>2, <2>3, <2>4, EntersWay
<1>3. CASE EndScope
  <2>. DEFINE f == [Top EXCEPT !.at = "endScope", !.defers = Last(scopes),
                               !.val = IF Top.node.kids = << >> THEN NoRef ELSE ret]
  <2>1. /\ Stay(f) /\ scopes' = [scopes EXCEPT ![Len(scopes)] = << >>]
        /\ Top.node.kind \in Scoped /\ Top.at = "body"
    BY <1>3 DEF EndScope, At, Scoped
  <2>2. f.node = Top.node /\ f.dep = Top.dep /\ f.defers = Last(scopes) /\ f.at = "endScope"
    BY <1>0, InsideLemma DEF FrameType
  <2>. HIDE DEF f
  <2>3. Open(Top) /\ ~Closing(Top) /\ Closing(f) /\ Going(f)
    BY <2>1, <2>2 DEF Open, Closing, InBody, Going
  <2>4. StartsEnd
    BY <2>1, <2>2, <2>3 DEF StartsEnd
  <2>. QED
    BY <2>4 DEF Way
<1>4. CASE RunDefer
  <2>. DEFINE f == [Top EXCEPT !.defers = Tail(@)]
  <2>1. /\ Enter(f, Head(Top.defers)) /\ scopes' = scopes
        /\ Top.node.kind \in Scoped /\ Top.at = "endScope" /\ Top.defers # << >>
    BY <1>4 DEF RunDefer, SameStacks, At
  <2>2. f.node = Top.node /\ f.dep = Top.dep /\ f.defers = Tail(Top.defers) /\ f.at = "endScope"
    BY <1>0, <2>1, InsideLemma DEF FrameType
  <2>. HIDE DEF f
  <2>3. Closing(Top) /\ Closing(f) /\ Going(f)
    BY <2>1, <2>2 DEF Closing, Going
  <2>4. RunsDefer
    BY <2>1, <2>2, <2>3 DEF RunsDefer
  <2>. QED
    BY <2>4 DEF Way
<1>5. CASE ScopeExpr_end
  <2>1. /\ frames' = Front(frames) /\ scopes' = Front(scopes)
        /\ Top.node.kind = "scope" /\ Top.at = "endScope"
    BY <1>5 DEF ScopeExpr_end, CloseScope, Leave, At
  <2>2. Closes
    BY <2>1 DEF Closes, Closing, Scoped
  <2>. QED
    BY <2>2 DEF Way
<1>. QED
  BY <1>1, <1>2, <1>3, <1>4, <1>5

\* if.
LEMMA IfWay ==
    ASSUME IInv,
           \/ IfExpr_gen \/ IfExpr_then \/ IfExpr_untyped \/ IfExpr_noElse
           \/ IfExpr_else \/ IfExpr_merge \/ IfExpr_abandon
    PROVE  Way
<1>1. CASE IfExpr_gen \/ IfExpr_then \/ IfExpr_else
  <2>1. /\ frames # << >> /\ Top.node.kind = "if" /\ scopes' = scopes
        /\ \E k \in DOMAIN Top.node.kids : \E f :
              /\ Enter(f, Top.node.kids[k])
              /\ f.node = Top.node /\ f.dep = Top.dep /\ f.defers = Top.defers
    <3>1. frames # << >> /\ Top.node.kind = "if" /\ scopes' = scopes
      BY <1>1 DEF IfExpr_gen, IfExpr_then, IfExpr_else, SameStacks, At
    <3>2. Top \in FrameType(Len(cir.blk)) /\ Top.node \in Nodes
      BY <3>1, InsideLemma DEF FrameType
    <3>3. Top.node.kids \in Seq(Nodes) /\ Len(Top.node.kids) \in {2, 3}
      BY <3>1, <3>2, ProgramsAssumption
    <3>4. CASE IfExpr_gen
      <4>. DEFINE f == [Top EXCEPT !.at = "cond"]
      <4>1. Enter(f, Top.node.kids[1])
        BY <3>4 DEF IfExpr_gen
      <4>2. f.node = Top.node /\ f.dep = Top.dep /\ f.defers = Top.defers
        BY <3>2 DEF FrameType
      <4>. HIDE DEF f
      <4>3. 1 \in DOMAIN Top.node.kids
        BY <3>3
      <4>. QED
        BY <3>1, <4>1, <4>2, <4>3
    <3>5. CASE IfExpr_then
      <4>1. PICK then, else, after :
               Enter([Top EXCEPT !.at = "then", !.body = then, !.alt = else, !.after = after],
                     Top.node.kids[2])
        BY <3>5 DEF IfExpr_then
      <4>. DEFINE f == [Top EXCEPT !.at = "then", !.body = then, !.alt = else, !.after = after]
      <4>2. Enter(f, Top.node.kids[2])
        BY <4>1
      <4>3. f.node = Top.node /\ f.dep = Top.dep /\ f.defers = Top.defers
        BY <3>2 DEF FrameType
      <4>. HIDE DEF f
      <4>4. 2 \in DOMAIN Top.node.kids
        BY <3>3
      <4>. QED
        BY <3>1, <4>2, <4>3, <4>4
    <3>6. CASE IfExpr_else
      <4>. DEFINE f == [Top EXCEPT !.at = "else", !.keep = ret, !.body = cir.cur]
      <4>1. Enter(f, Top.node.kids[3]) /\ Len(Top.node.kids) = 3
        BY <3>6 DEF IfExpr_else
      <4>2. f.node = Top.node /\ f.dep = Top.dep /\ f.defers = Top.defers
        BY <3>2 DEF FrameType
      <4>. HIDE DEF f
      <4>3. 3 \in DOMAIN Top.node.kids
        BY <3>3, <4>1
      <4>. QED
        BY <3>1, <4>1, <4>2, <4>3
    <3>. QED
      BY <1>1, <3>4, <3>5, <3>6
  <2>2. PICK k \in DOMAIN Top.node.kids : \E f :
              /\ Enter(f, Top.node.kids[k])
              /\ f.node = Top.node /\ f.dep = Top.dep /\ f.defers = Top.defers
    BY <2>1
  <2>3. PICK f :
              /\ Enter(f, Top.node.kids[k])
              /\ f.node = Top.node /\ f.dep = Top.dep /\ f.defers = Top.defers
    BY <2>2
  <2>4. /\ Going(f) /\ ~Open(f) /\ ~Open(Top) /\ ~Closing(f) /\ ~Closing(Top)
        /\ Statements(Top.node) = {}
    BY <2>1, <2>3 DEF Going, Open, Closing, Scoped, Statements
  <2>. QED
    BY <2>1, <2>3, <2>4, EntersWay
<1>2. CASE IfExpr_noElse \/ IfExpr_merge \/ IfExpr_abandon
  <2>1. frames' = Front(frames) /\ scopes' = scopes /\ Top.node.kind = "if"
    BY <1>2 DEF IfExpr_noElse, IfExpr_merge, IfExpr_abandon, EmitAndLeave, Leave, SameStacks, At
  <2>. QED
    BY <2>1 DEF Way, Returns, Open, Scoped
<1>3. CASE IfExpr_untyped
  <2>1. Stops
    BY <1>3 DEF IfExpr_untyped, Abort, Stops
  <2>. QED
    BY <2>1 DEF Way
<1>. QED
  BY <1>1, <1>2, <1>3

\* An activation that opens its scope, and goes on with child k of its node or
\* with its statements.
LEMMA OpensWay ==
    ASSUME scopes' = Append(scopes, << >>), ~Open(Top),
           NEW f, Going(f), f.defers = Top.defers, Top.node.kind \in Scoped, f.at = "body",
           Stay(f) \/ \E k \in DOMAIN Top.node.kids : Enter(f, Top.node.kids[k])
    PROVE  Way
<1>1. Open(f) /\ ~Closing(f)
  BY DEF Going, Open, Closing, InBody
<1>2. GoesOn(f)
  BY <1>1 DEF GoesOn
<1>3. Opens
  BY <1>1, <1>2 DEF Opens
<1>. QED
  BY <1>3 DEF Way

\* loop.
LEMMA LoopWay ==
    ASSUME IInv, LoopExpr_gen \/ LoopExpr_end
    PROVE  Way
<1>1. CASE LoopExpr_gen
  <2>1. PICK b : Stay([Top EXCEPT !.at = "body", !.head = b])
    BY <1>1 DEF LoopExpr_gen
  <2>. DEFINE f == [Top EXCEPT !.at = "body", !.head = b]
  <2>2. /\ frames # << >> /\ scopes' = Append(scopes, << >>)
        /\ Top.node.kind = "loop" /\ Top.at = "start"
    BY <1>1 DEF LoopExpr_gen, OpenScope, At
  <2>3. f.node = Top.node /\ f.dep = Top.dep /\ f.defers = Top.defers /\ f.at = "body"
    BY <2>2, InsideLemma DEF FrameType
  <2>4. Stay(f)
    BY <2>1
  <2>. HIDE DEF f
  <2>. QED
    BY <2>2, <2>3, <2>4, OpensWay DEF Open, InBody, Going, Scoped
<1>2. CASE LoopExpr_end
  <2>1. /\ frames' = Front(frames) /\ scopes' = Front(scopes)
        /\ Top.node.kind = "loop" /\ Top.at = "endScope"
    BY <1>2 DEF LoopExpr_end, CloseScope, EmitAndLeave, Leave, At
  <2>2. Closes
    BY <2>1 DEF Closes, Closing, Scoped
  <2>. QED
    BY <2>2 DEF Way
<1>. QED
  BY <1>1, <1>2

\* while.
LEMMA WhileWay ==
    ASSUME IInv, WhileExpr_gen \/ WhileExpr_body \/ WhileExpr_abandon \/ WhileExpr_end
    PROVE  Way
<1>0. /\ frames # << >> /\ Top.node.kind = "while" /\ Top \in FrameType(Len(cir.blk))
      /\ Top.node.kids \in Seq(Nodes) /\ DOMAIN Top.node.kids = {1, 2}
  <2>1. frames # << >> /\ Top.node.kind = "while"
    BY DEF WhileExpr_gen, WhileExpr_body, WhileExpr_abandon, WhileExpr_end, CloseScope, At
  <2>2. Top \in FrameType(Len(cir.blk)) /\ Top.node \in Nodes
    BY <2>1, InsideLemma DEF FrameType
  <2>3. Top.node.kids \in Seq(Nodes) /\ Len(Top.node.kids) = 2
    BY <2>1, <2>2, ProgramsAssumption
  <2>. QED
    BY <2>1, <2>2, <2>3
<1>1. CASE WhileExpr_gen
  <2>1. PICK head, body :
           Enter([Top EXCEPT !.at = "cond", !.head = head, !.body = body], Top.node.kids[1])
    BY <1>1 DEF WhileExpr_gen
  <2>. DEFINE f == [Top EXCEPT !.at = "cond", !.head = head, !.body = body]
  <2>2. scopes' = scopes /\ Top.at = "start"
    BY <1>1 DEF WhileExpr_gen, SameStacks, At
  <2>3. f.node = Top.node /\ f.dep = Top.dep /\ f.defers = Top.defers /\ f.at = "cond"
    BY <1>0 DEF FrameType
  <2>4. Enter(f, Top.node.kids[1])
    BY <2>1
  <2>. HIDE DEF f
  <2>5. /\ Going(f) /\ ~Open(f) /\ ~Open(Top) /\ ~Closing(f) /\ ~Closing(Top)
        /\ Statements(Top.node) = {2}
    BY <1>0, <2>2, <2>3 DEF Going, Open, Closing, InBody, Statements
  <2>. QED
    BY <1>0, <2>2, <2>3, <2>4, <2>5, EntersWay
<1>2. CASE WhileExpr_body
  <2>1. PICK after : Enter([Top EXCEPT !.at = "body", !.after = after], Top.node.kids[2])
    BY <1>2 DEF WhileExpr_body
  <2>. DEFINE f == [Top EXCEPT !.at = "body", !.after = after]
  <2>2. scopes' = Append(scopes, << >>) /\ Top.at = "cond"
    BY <1>2 DEF WhileExpr_body, OpenScope, At
  <2>3. f.node = Top.node /\ f.dep = Top.dep /\ f.defers = Top.defers /\ f.at = "body"
    BY <1>0 DEF FrameType
  <2>4. Enter(f, Top.node.kids[2])
    BY <2>1
  <2>. HIDE DEF f
  <2>. QED
    BY <1>0, <2>2, <2>3, <2>4, OpensWay DEF Open, InBody, Going, Scoped
<1>3. CASE WhileExpr_abandon
  <2>1. frames' = Front(frames) /\ scopes' = scopes /\ Top.at = "cond"
    BY <1>3 DEF WhileExpr_abandon, Leave, SameStacks, At
  <2>. QED
    BY <2>1 DEF Way, Returns, Open, InBody
<1>4. CASE WhileExpr_end
  <2>1. /\ frames' = Front(frames) /\ scopes' = Front(scopes)
        /\ Top.node.kind = "while" /\ Top.at = "endScope"
    BY <1>4 DEF WhileExpr_end, CloseScope, EmitAndLeave, Leave, At
  <2>2. Closes
    BY <2>1 DEF Closes, Closing, Scoped
  <2>. QED
    BY <2>2 DEF Way
<1>. QED
  BY <1>1, <1>2, <1>3, <1>4

\* for, unless it gives up in its body.
LEMMA ForWay ==
    ASSUME IInv, ~LeavesScopeOpen,
           \/ ForExpr_gen \/ ForExpr_cond \/ ForExpr_body \/ ForExpr_step
           \/ ForExpr_end \/ ForExpr_abandon
    PROVE  Way
<1>0. /\ frames # << >> /\ Top.node.kind = "for" /\ Top \in FrameType(Len(cir.blk))
      /\ Top.node.kids \in Seq(Nodes) /\ DOMAIN Top.node.kids = {1, 2, 3, 4}
      /\ Statements(Top.node) = {3}
  <2>1. frames # << >> /\ Top.node.kind = "for"
    BY DEF ForExpr_gen, ForExpr_cond, ForExpr_body, ForExpr_step, ForExpr_end, ForExpr_abandon,
           CloseScope, At
  <2>2. Top \in FrameType(Len(cir.blk)) /\ Top.node \in Nodes
    BY <2>1, InsideLemma DEF FrameType
  <2>3. Top.node.kids \in Seq(Nodes) /\ Len(Top.node.kids) = 4
    BY <2>1, <2>2, ProgramsAssumption
  <2>. QED
    BY <2>1, <2>2, <2>3 DEF Statements
<1>1. CASE ForExpr_gen
  <2>. DEFINE f == [Top EXCEPT !.at = "init"]
  <2>1. Enter(f, Top.node.kids[1]) /\ scopes' = scopes /\ Top.at = "start"
    BY <1>1 DEF ForExpr_gen, SameStacks, At
  <2>2. f.node = Top.node /\ f.dep = Top.dep /\ f.defers = Top.defers /\ f.at = "init"
    BY <1>0 DEF FrameType
  <2>. HIDE DEF f
  <2>3. Going(f) /\ ~Open(f) /\ ~Open(Top) /\ ~Closing(f) /\ ~Closing(Top)
    BY <2>1, <2>2 DEF Going, Open, Closing, InBody
  <2>. QED
    BY <1>0, <2>1, <2>2, <2>3, EntersWay
<1>2. CASE ForExpr_cond
  <2>1. PICK keep, head :
           Enter([Top EXCEPT !.at = "cond", !.keep = keep, !.head = head], Top.node.kids[2])
    BY <1>2 DEF ForExpr_cond
  <2>. DEFINE f == [Top EXCEPT !.at = "cond", !.keep = keep, !.head = head]
  <2>2. scopes' = scopes /\ Top.at = "init"
    BY <1>2 DEF ForExpr_cond, SameStacks, At
  <2>3. f.node = Top.node /\ f.dep = Top.dep /\ f.defers = Top.defers /\ f.at = "cond"
    BY <1>0 DEF FrameType
  <2>4. Enter(f, Top.node.kids[2])
    BY <2>1
  <2>. HIDE DEF f
  <2>5. Going(f) /\ ~Open(f) /\ ~Open(Top) /\ ~Closing(f) /\ ~Closing(Top)
    BY <2>2, <2>3 DEF Going, Open, Closing, InBody
  <2>. QED
    BY <1>0, <2>2, <2>3, <2>4, <2>5, EntersWay
<1>3. CASE ForExpr_body
  <2>1. PICK after : Enter([Top EXCEPT !.at = "body", !.after = after], Top.node.kids[3])
    BY <1>3 DEF ForExpr_body
  <2>. DEFINE f == [Top EXCEPT !.at = "body", !.after = after]
  <2>2. scopes' = Append(scopes, << >>) /\ Top.at = "cond"
    BY <1>3 DEF ForExpr_body, OpenScope, At
  <2>3. f.node = Top.node /\ f.dep = Top.dep /\ f.defers = Top.defers /\ f.at = "body"
    BY <1>0 DEF FrameType
  <2>4. Enter(f, Top.node.kids[3])
    BY <2>1
  <2>. HIDE DEF f
  <2>. QED
    BY <1>0, <2>2, <2>3, <2>4, OpensWay DEF Open, InBody, Going, Scoped
<1>4. CASE ForExpr_step
  <2>. DEFINE f == [Top EXCEPT !.at = "step"]
  <2>1. Enter(f, Top.node.kids[4]) /\ scopes' = Front(scopes) /\ Top.at = "endScope"
    BY <1>4 DEF ForExpr_step, CloseScope, At
  <2>2. f.node = Top.node /\ f.dep = Top.dep /\ f.defers = Top.defers /\ f.at = "step"
    BY <1>0 DEF FrameType
  <2>. HIDE DEF f
  <2>3. Going(f) /\ ~Open(f) /\ Closing(Top)
    BY <1>0, <2>1, <2>2 DEF Going, Open, Closing, InBody, Scoped
  <2>4. GoesOn(f)
    BY <1>0, <2>1 DEF GoesOn
  <2>5. Closes
    BY <2>1, <2>2, <2>3, <2>4 DEF Closes
  <2>. QED
    BY <2>5 DEF Way
<1>5. CASE ForExpr_end
  <2>1. frames' = Front(frames) /\ scopes' = scopes /\ Top.at = "step"
    BY <1>5 DEF ForExpr_end, EmitAndLeave, Leave, SameStacks, At
  <2>. QED
    BY <2>1 DEF Way, Returns, Open, InBody
<1>6. CASE ForExpr_abandon
  <2>1. frames' = Front(frames) /\ scopes' = scopes
    BY <1>6 DEF ForExpr_abandon, Leave
  <2>2. Top.at \in {"init", "cond", "step"}
    BY <1>6 DEF ForExpr_abandon, LeavesScopeOpen, At
  <2>. QED
    BY <2>1, <2>2 DEF Way, Returns, Open, InBody
<1>. QED
  BY <1>1, <1>2, <1>3, <1>4, <1>5, <1>6

\* The actions inside a function.
LEMMA FunctionWay ==
    ASSUME IInv, FunctionAST_arg \/ FunctionAST_body \/ FunctionAST_end \/ FunctionAST_noValue
    PROVE  Way
<1>0. frames # << >> /\ Top.node.kind = "function" /\ Top \in FrameType(Len(cir.blk))
  <2>1. frames # << >> /\ Top.node.kind = "function"
    BY DEF FunctionAST_arg, FunctionAST_body, FunctionAST_end, FunctionAST_noValue, CloseScope, At
  <2>. QED
    BY <2>1, InsideLemma
<1>1. CASE FunctionAST_arg
  <2>. DEFINE f == [Top EXCEPT !.i = @ + 1]
  <2>1. Stay(f) /\ scopes' = scopes /\ Top.at = "args"
    BY <1>1 DEF FunctionAST_arg, SameStacks, At
  <2>2. f.node = Top.node /\ f.dep = Top.dep /\ f.defers = Top.defers /\ f.at = "args"
    BY <1>0, <2>1 DEF FrameType
  <2>. HIDE DEF f
  <2>3. /\ Going(f) /\ GoesOn(f) /\ ~Open(f) /\ ~Open(Top) /\ ~Closing(f) /\ ~Closing(Top)
    BY <2>1, <2>2 DEF Going, GoesOn, Open, Closing, InBody
  <2>4. Continues
    BY <2>1, <2>2, <2>3 DEF Continues
  <2>. QED
    BY <2>4 DEF Way
<1>2. CASE FunctionAST_body
  <2>. DEFINE f == [Top EXCEPT !.at = "body", !.i = 0]
  <2>1. Stay(f) /\ scopes' = Append(scopes, << >>) /\ Top.at = "args"
    BY <1>2 DEF FunctionAST_body, OpenScope, At
  <2>2. f.node = Top.node /\ f.dep = Top.dep /\ f.defers = Top.defers /\ f.at = "body"
    BY <1>0 DEF FrameType
  <2>. HIDE DEF f
  <2>. QED
    BY <1>0, <2>1, <2>2, OpensWay DEF Open, InBody, Going, Scoped
<1>3. CASE FunctionAST_end
  <2>1. frames' = Front(frames) /\ scopes' = Front(scopes) /\ Top.at = "endScope"
    BY <1>3 DEF FunctionAST_end, CloseScope, At
  <2>2. Closes
    BY <1>0, <2>1 DEF Closes, Closing, Scoped
  <2>. QED
    BY <2>2 DEF Way
<1>4. CASE FunctionAST_noValue
  <2>1. status' # "gen" /\ scopes' = Front(scopes) /\ Top.at = "endScope"
    BY <1>4 DEF FunctionAST_noValue, CloseScope, At
  <2>2. Stops
    BY <1>0, <2>1 DEF Stops, Closing, Scoped
  <2>. QED
    BY <2>2 DEF Way
<1>. QED
  BY <1>1, <1>2, <1>3, <1>4

\* Every step inside a method.
LEMMA StepWay ==
    ASSUME IInv, Next, status = "gen", frames # << >>, ~LeavesScopeOpen
    PROVE  Way
<1>1. ~LoopExpr_abandon
  BY DEF LeavesScopeOpen
<1>2. CASE Simple \/ Memory
  BY <1>2, SimpleWay
<1>3. CASE Control
  BY <1>1, <1>3, ScopeWay, IfWay, LoopWay, WhileWay, ForWay DEF Control
<1>4. CASE File
  <2>1. \/ FunctionAST_arg \/ FunctionAST_body \/ FunctionAST_end \/ FunctionAST_noValue
    BY <1>4 DEF File, FunctionAST_gen, FileAST_generated, fixFileCIR, checkFileCIR
  <2>. QED
    BY <2>1, FunctionWay
<1>. QED
  BY <1>2, <1>3, <1>4 DEF Next, Done, Stopped

\* The scopes an action finds.
ScopesFound == IInv /\ ScopesExact /\ status = "gen" /\ frames # << >>

LEMMA ScopesFoundLemma ==
    ASSUME ScopesFound
    PROVE  /\ frames \in Seq(FrameType(Len(cir.blk)))
           /\ Len(frames) \in Nat /\ Len(frames) > 0 /\ DOMAIN frames = 1..Len(frames)
           /\ Top = frames[Len(frames)] /\ Top \in FrameType(Len(cir.blk))
           /\ frames[1].dep = 0
           /\ \A k \in 1..(Len(frames) - 1) : frames[k + 1].dep = DepthBelow(frames[k])
           /\ Len(scopes) = DepthBelow(Top)
           /\ Top.dep \in Nat /\ scopes \in Seq(Seq(Nodes))
<1>1. /\ frames \in Seq(FrameType(Len(cir.blk))) /\ Top \in FrameType(Len(cir.blk))
      /\ frames # << >> /\ Top.dep \in Nat /\ scopes \in Seq(Seq(Nodes))
  BY InsideLemma DEF ScopesFound
<1>2. /\ Len(frames) \in Nat /\ Len(frames) > 0 /\ DOMAIN frames = 1..Len(frames)
      /\ Top = frames[Len(frames)]
  BY <1>1, StackLemma DEF Top
<1>3. /\ frames[1].dep = 0
      /\ \A k \in 1..(Len(frames) - 1) : frames[k + 1].dep = DepthBelow(frames[k])
      /\ Len(scopes) = DepthBelow(Top)
  BY DEF ScopesFound, ScopesExact
<1>. QED
  BY <1>1, <1>2, <1>3

\* A method that returns leaves as many scopes as it found.
LEMMA LeaveScopes ==
    ASSUME ScopesFound, frames' = Front(frames), Len(scopes') = Top.dep, scopes' \in Seq(Seq(Nodes))
    PROVE  ScopesExact'
<1>. DEFINE n == Len(frames)
<1>1. /\ frames \in Seq(FrameType(Len(cir.blk))) /\ frames # << >>
      /\ n \in Nat /\ n > 0 /\ Top = frames[n]
      /\ frames[1].dep = 0
      /\ \A k \in 1..(n - 1) : frames[k + 1].dep = DepthBelow(frames[k])
  BY ScopesFoundLemma DEF ScopesFound
<1>2. /\ frames' \in Seq(FrameType(Len(cir.blk))) /\ Len(frames') = n - 1
      /\ \A k \in 1..(n - 1) : frames'[k] = frames[k]
  BY <1>1, StackLemma
<1>. HIDE DEF n
<1>3. CASE n = 1
  <2>1. frames' = << >> /\ Len(scopes') = 0
    BY <1>1, <1>2, <1>3
  <2>2. scopes' = << >>
    BY <2>1
  <2>. QED
    BY <2>1, <2>2 DEF ScopesExact
<1>4. CASE n > 1
  <2>1. frames' # << >> /\ Top' = frames[n - 1]
    BY <1>1, <1>2, <1>4 DEF Top, Last
  <2>2. frames'[1].dep = 0
    BY <1>1, <1>2, <1>4
  <2>3. ASSUME NEW k \in 1..(Len(frames') - 1)
        PROVE  frames'[k + 1].dep = DepthBelow(frames'[k])
    <3>1. k \in 1..(n - 1) /\ k + 1 \in 1..(n - 1)
      BY <1>1, <1>2
    <3>2. frames'[k] = frames[k] /\ frames'[k + 1] = frames[k + 1]
      BY <1>2, <3>1
    <3>. QED
      BY <1>1, <3>1, <3>2
  <2>4. Len(scopes') = DepthBelow(frames[n - 1])
    <3>1. n - 1 \in 1..(n - 1) /\ (n - 1) + 1 = n
      BY <1>1, <1>4
    <3>. QED
      BY <1>1, <3>1
  <2>5. DepthBelow(Top)' = DepthBelow(frames[n - 1])
    BY <2>1 DEF DepthBelow, InBody
  <2>6. \A k \in 1..(Len(frames') - 1) : frames'[k + 1].dep = DepthBelow(frames[k])'
    BY <2>3 DEF DepthBelow, InBody
  <2>. QED
    BY <2>1, <2>2, <2>4, <2>5, <2>6 DEF ScopesExact
<1>5. n = 1 \/ n > 1
  BY <1>1
<1>. QED
  BY <1>3, <1>4, <1>5

\* A method that goes on has opened what its new point says.
LEMMA StayScopes ==
    ASSUME ScopesFound, NEW f, Stay(f), f.dep = Top.dep, Len(scopes') = DepthBelow(f)
    PROVE  ScopesExact'
<1>. DEFINE n == Len(frames)
            F == FrameType(Len(cir.blk)) \union {f}
<1>1. /\ frames \in Seq(FrameType(Len(cir.blk))) /\ frames # << >>
      /\ n \in Nat /\ n > 0 /\ Top = frames[n]
      /\ frames[1].dep = 0
      /\ \A k \in 1..(n - 1) : frames[k + 1].dep = DepthBelow(frames[k])
  BY ScopesFoundLemma DEF ScopesFound
<1>2. frames \in Seq(F) /\ f \in F
  BY <1>1
<1>. HIDE DEF F
<1>3. /\ frames' \in Seq(F) /\ Len(frames') = n
      /\ \A k \in 1..(n - 1) : frames'[k] = frames[k]
      /\ frames'[n] = f
  BY <1>1, <1>2, ReplaceLemma DEF Stay
<1>4. frames' # << >> /\ Top' = f
  BY <1>1, <1>3 DEF Top, Last
<1>5. frames'[1].dep = 0
  BY <1>1, <1>3
<1>6. ASSUME NEW k \in 1..(n - 1)
      PROVE  frames'[k + 1].dep = DepthBelow(frames'[k])
  <2>1. frames'[k] = frames[k] /\ frames[k + 1].dep = DepthBelow(frames[k])
    BY <1>1, <1>3
  <2>2. frames'[k + 1].dep = frames[k + 1].dep
    <3>1. CASE k + 1 = n
      BY <1>1, <1>3, <3>1
    <3>2. CASE k + 1 # n
      <4>1. k + 1 \in 1..(n - 1)
        BY <1>1, <3>2
      <4>. QED
        BY <1>3, <4>1
    <3>. QED
      BY <3>1, <3>2
  <2>. QED
    BY <2>1, <2>2
<1>. QED
  BY <1>3, <1>4, <1>5, <1>6 DEF ScopesExact, DepthBelow, InBody

\* A method that calls another one hands the open scopes on.
LEMMA EnterScopes ==
    ASSUME ScopesFound, NEW f, NEW e, Enter(f, e), f.dep = Top.dep, Len(scopes') = DepthBelow(f)
    PROVE  ScopesExact'
<1>. DEFINE n == Len(frames)
            g == Activation(e, breaks', Len(scopes'))
            F == FrameType(Len(cir.blk)) \union {f, g}
<1>1. /\ frames \in Seq(FrameType(Len(cir.blk))) /\ frames # << >>
      /\ n \in Nat /\ n > 0 /\ Top = frames[n]
      /\ frames[1].dep = 0
      /\ \A k \in 1..(n - 1) : frames[k + 1].dep = DepthBelow(frames[k])
  BY ScopesFoundLemma DEF ScopesFound
<1>2. frames \in Seq(F) /\ f \in F /\ g \in F
  BY <1>1
<1>3. g.dep = Len(scopes') /\ DepthBelow(g) = Len(scopes')
  BY DEF Activation, DepthBelow, InBody
<1>4. frames' = Front(frames) \o <<f, g>>
  BY DEF Enter
<1>. HIDE DEF F, g
<1>5. /\ frames' \in Seq(F) /\ Len(frames') = n + 1
      /\ \A k \in 1..(n - 1) : frames'[k] = frames[k]
      /\ frames'[n] = f /\ frames'[n + 1] = g
  BY <1>1, <1>2, <1>4, PushLemma
<1>6. frames' # << >> /\ Top' = g
  BY <1>1, <1>5 DEF Top, Last
<1>7. frames'[1].dep = 0
  BY <1>1, <1>5
<1>8. ASSUME NEW k \in 1..n
      PROVE  frames'[k + 1].dep = DepthBelow(frames'[k])
  <2>1. CASE k = n
    BY <1>3, <1>5, <2>1
  <2>2. CASE k # n
    <3>1. k \in 1..(n - 1)
      BY <1>1, <2>2
    <3>2. frames'[k] = frames[k] /\ frames[k + 1].dep = DepthBelow(frames[k])
      BY <1>1, <1>5, <3>1
    <3>3. frames'[k + 1].dep = frames[k + 1].dep
      BY <1>1, <1>5, <3>1
    <3>. QED
      BY <3>2, <3>3
  <2>. QED
    BY <2>1, <2>2
<1>. QED
  BY <1>1, <1>3, <1>5, <1>6, <1>7, <1>8 DEF ScopesExact, DepthBelow, InBody

\* A method that goes on, in one of the ways it can.
LEMMA GoesOnScopes ==
    ASSUME ScopesFound, NEW f, Going(f), GoesOn(f), Len(scopes') = DepthBelow(f)
    PROVE  ScopesExact'
<1>1. CASE Stay(f)
  BY <1>1, StayScopes DEF Going
<1>2. ASSUME NEW e, Enter(f, e)
      PROVE  ScopesExact'
  BY <1>2, EnterScopes DEF Going
<1>. QED
  BY <1>1, <1>2 DEF GoesOn

\* The depth below an activation.
LEMMA DepthLemma ==
    ASSUME NEW f, f.dep \in Nat
    PROVE  /\ DepthBelow(f) \in Nat /\ DepthBelow(f) >= f.dep
           /\ Open(f) => DepthBelow(f) = f.dep + 1
           /\ ~Open(f) => DepthBelow(f) = f.dep
           /\ Closing(f) => Open(f)
BY DEF DepthBelow, Open, Closing, InBody

\* Every way keeps Scopes and the open scopes together.
LEMMA WayScopes ==
    ASSUME ScopesFound, Way
    PROVE  ScopesExact'
<1>1. /\ Len(scopes) = DepthBelow(Top) /\ Top.dep \in Nat /\ scopes \in Seq(Seq(Nodes))
      /\ Len(scopes) \in Nat
  BY ScopesFoundLemma
<1>2. CASE Returns
  <2>1. frames' = Front(frames) /\ scopes' = scopes /\ ~Open(Top)
    BY <1>2 DEF Returns
  <2>. QED
    BY <1>1, <2>1, DepthLemma, LeaveScopes
<1>3. CASE Defers
  <2>1. /\ frames' = Front(frames) /\ Top.node.kind = "defer"
        /\ scopes' = [scopes EXCEPT ![Len(scopes)] = Append(@, Top.node.kids[1])]
    BY <1>3 DEF Defers
  <2>2. Len(scopes) = Top.dep
    BY <1>1, <2>1, DepthLemma DEF Open, Scoped
  <2>3. Len(scopes') = Top.dep /\ scopes' \in Seq(Seq(Nodes))
    <3>1. Top.node.kids[1] \in Nodes
      <4>1. Top.node \in Nodes
        BY ScopesFoundLemma DEF FrameType
      <4>. QED
        BY <2>1, <4>1, ProgramsAssumption
    <3>. DEFINE e == Append(scopes[Len(scopes)], Top.node.kids[1])
    <3>2. CASE scopes = << >>
      <4>1. scopes' = << >>
        BY <2>1, <3>2
      <4>. QED
        BY <2>2, <3>2, <4>1
    <3>3. CASE scopes # << >>
      <4>1. scopes[Len(scopes)] \in Seq(Nodes)
        BY <1>1, <3>3
      <4>2. e \in Seq(Nodes)
        BY <3>1, <4>1
      <4>3. scopes' = [scopes EXCEPT ![Len(scopes)] = e]
        BY <2>1
      <4>. HIDE DEF e
      <4>. QED
        BY <1>1, <2>2, <3>3, <4>2, <4>3, ScopesLemma
    <3>. QED
      BY <3>2, <3>3
  <2>. QED
    BY <2>1, <2>3, LeaveScopes
<1>4. CASE Continues
  <2>1. PICK f : Going(f) /\ GoesOn(f) /\ (Open(f) <=> Open(Top))
    BY <1>4 DEF Continues
  <2>2. DepthBelow(f) = DepthBelow(Top) /\ scopes' = scopes
    BY <1>1, <1>4, <2>1, DepthLemma DEF Continues, Going
  <2>. QED
    BY <1>1, <2>1, <2>2, GoesOnScopes
<1>5. CASE Opens
  <2>1. PICK f : Going(f) /\ GoesOn(f) /\ Open(f)
    BY <1>5 DEF Opens
  <2>2. scopes' = Append(scopes, << >>) /\ ~Open(Top)
    BY <1>5 DEF Opens
  <2>3. DepthBelow(f) = Top.dep + 1 /\ DepthBelow(Top) = Top.dep
    BY <1>1, <2>1, <2>2, DepthLemma DEF Going
  <2>4. Len(scopes') = Top.dep + 1
    BY <1>1, <2>2, <2>3, ScopesLemma
  <2>. QED
    BY <2>1, <2>3, <2>4, GoesOnScopes
<1>6. CASE StartsEnd
  <2>1. PICK f : Going(f) /\ Stay(f) /\ Closing(f)
    BY <1>6 DEF StartsEnd
  <2>2. Open(Top) /\ scopes' = [scopes EXCEPT ![Len(scopes)] = << >>]
    BY <1>6 DEF StartsEnd
  <2>3. DepthBelow(f) = Top.dep + 1 /\ DepthBelow(Top) = Top.dep + 1
    BY <1>1, <2>1, <2>2, DepthLemma DEF Going
  <2>4. Len(scopes') = Len(scopes)
    BY <1>1, <2>2, <2>3, ScopesLemma
  <2>. QED
    BY <1>1, <2>1, <2>3, <2>4, StayScopes DEF Going
<1>7. CASE RunsDefer
  <2>1. PICK f : Going(f) /\ Closing(f) /\ Enter(f, Head(Top.defers))
    BY <1>7 DEF RunsDefer
  <2>2. Closing(Top) /\ scopes' = scopes
    BY <1>7 DEF RunsDefer
  <2>3. DepthBelow(f) = Top.dep + 1 /\ DepthBelow(Top) = Top.dep + 1
    BY <1>1, <2>1, <2>2, DepthLemma DEF Going
  <2>. QED
    BY <1>1, <2>1, <2>2, <2>3, EnterScopes DEF Going
<1>8. CASE Closes
  <2>1. Closing(Top) /\ scopes' = Front(scopes)
    BY <1>8 DEF Closes
  <2>2. DepthBelow(Top) = Top.dep + 1
    BY <1>1, <2>1, DepthLemma
  <2>3. scopes' \in Seq(Seq(Nodes)) /\ Len(scopes') = Top.dep
    <3>1. scopes # << >>
      BY <1>1, <2>2
    <3>. QED
      BY <1>1, <2>1, <2>2, <3>1, ScopesLemma
  <2>4. CASE frames' = Front(frames)
    BY <2>3, <2>4, LeaveScopes
  <2>5. ASSUME NEW f, Going(f), GoesOn(f), ~Open(f)
        PROVE  ScopesExact'
    <3>1. DepthBelow(f) = Top.dep
      BY <1>1, <2>5, DepthLemma DEF Going
    <3>. QED
      BY <2>3, <2>5, <3>1, GoesOnScopes
  <2>. QED
    BY <1>8, <2>4, <2>5 DEF Closes
<1>9. CASE Stops
  BY <1>9 DEF Stops, ScopesExact
<1>. QED
  BY <1>2, <1>3, <1>4, <1>5, <1>6, <1>7, <1>8, <1>9 DEF Way

\* A function begins with no scope.
LEMMA FileScopes ==
    ASSUME IInv, ScopesExact, File, frames = << >>
    PROVE  ScopesExact'
<1>1. CASE FunctionAST_gen
  <2>. DEFINE f == [Activation(prog[fn'].node, breaks, Len(scopes)) EXCEPT !.at = "args"]
  <2>1. scopes' = scopes /\ scopes = << >> /\ frames' = <<f>>
    BY <1>1 DEF FunctionAST_gen, ScopesExact
  <2>2. f.dep = 0 /\ f.at = "args"
    BY <2>1 DEF Activation
  <2>. HIDE DEF f
  <2>3. frames' # << >> /\ Len(frames') = 1 /\ frames'[1] = f
    BY <2>1
  <2>4. Top' = f
    BY <2>3 DEF Top, Last
  <2>5. DepthBelow(Top)' = 0
    BY <2>2, <2>4 DEF DepthBelow, InBody
  <2>. QED
    BY <2>1, <2>2, <2>3, <2>5 DEF ScopesExact
<1>2. CASE FileAST_generated \/ fixFileCIR \/ checkFileCIR
  BY <1>2 DEF FileAST_generated, fixFileCIR, checkFileCIR, ScopesExact
<1>. QED
  BY <1>1, <1>2 DEF File, FunctionAST_arg, FunctionAST_body, FunctionAST_end, FunctionAST_noValue,
                    CloseScope, At

\* Each step that leaves no scope open keeps Scopes and the open scopes together.
LEMMA StepScopes ==
    ASSUME IInv, ScopesExact, [Next]_vars, ~LeavesScopeOpen
    PROVE  ScopesExact'
<1>1. CASE UNCHANGED vars
  BY <1>1 DEF vars, ScopesExact, DepthBelow, InBody, Top
<1>2. CASE Next /\ status = "gen" /\ frames # << >>
  <2>1. Way
    BY <1>2, StepWay
  <2>. QED
    BY <1>2, <2>1, WayScopes DEF ScopesFound
<1>3. CASE Next /\ status = "gen" /\ frames = << >>
  <2>1. File
    BY <1>3, FreedGrows DEF Next, Done, Stopped
  <2>. QED
    BY <1>3, <2>1, FileScopes
<1>4. CASE Next /\ status # "gen"
  <2>1. File \/ UNCHANGED vars
    BY <1>4, FreedGrows DEF Next, Done
  <2>2. CASE File
    <3>1. fixFileCIR \/ checkFileCIR
      BY <1>4, <2>2 DEF File, FunctionAST_gen, FunctionAST_arg, FunctionAST_body, FunctionAST_end,
         FunctionAST_noValue, FileAST_generated, CloseScope, At
    <3>. QED
      BY <3>1 DEF fixFileCIR, checkFileCIR, ScopesExact
  <2>. QED
    BY <1>1, <2>1, <2>2
<1>. QED
  BY <1>1, <1>2, <1>3, <1>4

\* Whatever the file, as long as no early return has destroyed a block and no
\* infinite loop has been abandoned with its scope open, Scopes has one entry
\* for each scope that encloses the statement being generated: a deferred
\* expression goes to the scope it is written in (createScope, endScope and
\* DeferExprAST::cir_gen).
THEOREM ScopesAlwaysMatchBlocks ==
    Spec /\ [][~LoopExpr_abandon]_vars => []ScopesMatchBlocks
<1>. DEFINE SInv == freed = {} => ScopesExact
<1>1. Init => SInv
  BY DEF Init, ScopesExact
<1>2. IInv /\ SInv /\ [Next]_vars /\ [~LoopExpr_abandon]_vars => SInv'
  <2>1. SUFFICES ASSUME IInv, SInv, [Next]_vars, [~LoopExpr_abandon]_vars, freed' = {}
                 PROVE  ScopesExact'
    OBVIOUS
  <2>2. freed \subseteq freed'
    <3>1. CASE Simple \/ Memory \/ Control
      BY <3>1, FreedGrows
    <3>2. CASE File
      BY <3>2 DEF File, FunctionAST_gen, FunctionAST_arg, FunctionAST_body, FunctionAST_end,
         FunctionAST_noValue, FileAST_generated, fixFileCIR, checkFileCIR, SameStacks
    <3>. QED
      BY <2>1, <3>1, <3>2 DEF Next, Done, vars
  <2>3. ScopesExact
    BY <2>1, <2>2
  <2>4. CASE UNCHANGED vars
    BY <2>3, <2>4 DEF vars, ScopesExact, DepthBelow, InBody, Top
  <2>5. CASE Next /\ ~LoopExpr_abandon
    <3>1. ~(At({"for"}, "body") /\ ForExpr_abandon)
      <4>1. SUFFICES ASSUME At({"for"}, "body"), ForExpr_abandon
                     PROVE  FALSE
        OBVIOUS
      <4>2. freed' = freed \union {Top.after}
        BY <4>1 DEF ForExpr_abandon, At
      <4>. QED
        BY <2>1, <4>2
    <3>. QED
      BY <2>1, <2>3, <2>5, <3>1, StepScopes DEF LeavesScopeOpen
  <2>. QED
    BY <2>1, <2>4, <2>5
<1>3. SInv => ScopesMatchBlocks
  BY DEF ScopesExact, ScopesMatchBlocks
<1>. QED
  BY <1>1, <1>2, <1>3, Invariance, PTL DEF Spec

-----------------------------------------------------------------------------
(* Deferred expressions.  endScope generates them while the entry of its   *)
(* scope is still on Scopes, emptied: one that defers again, outside of a  *)
(* scope of its own, would be popped with that entry.                      *)

\* D contains every expression that is generated while its scope is being
\* closed: what is deferred, and its children, down to statements of a scope
\* of their own.  None of them is a defer.
Deferrable(D) ==
    /\ D \subseteq Nodes
    /\ \A n \in Nodes : n.kind = "defer" => n.kids[1] \in D
    /\ \A n \in D : \A k \in DOMAIN n.kids \ Statements(n) : n.kids[k] \in D
    /\ \A n \in D : n.kind # "defer"

\* What is kept to be generated later is in D; the entry of a scope that is
\* being closed is empty; and where no other scope has been opened since, what
\* is being generated is in D.
DefersApart(D) ==
    status = "gen" =>
        /\ scopes \in Seq(Seq(D))
        /\ \A k \in DOMAIN frames : frames[k].defers \in Seq(D)
        /\ \A k \in DOMAIN frames : Closing(frames[k]) => scopes[frames[k].dep + 1] = << >>
        /\ \A j, k \in DOMAIN frames : j < k =>
              /\ frames[k].dep >= DepthBelow(frames[j])
              /\ Closing(frames[j]) /\ frames[k].dep = frames[j].dep + 1 => frames[k].node \in D

DefersFound(D) == ScopesFound /\ Deferrable(D) /\ DefersApart(D)

LEMMA DefersFoundLemma ==
    ASSUME NEW D, DefersFound(D), NEW n, n = Len(frames)
    PROVE  /\ n \in Nat /\ n > 0 /\ DOMAIN frames = 1..n /\ Top = frames[n]
           /\ frames \in Seq(FrameType(Len(cir.blk))) /\ frames # << >> /\ Top.node \in Nodes
           /\ \A k \in 1..n : frames[k].dep \in Nat
           /\ Len(scopes) \in Nat /\ Len(scopes) = DepthBelow(Top) /\ scopes \in Seq(Seq(D))
           /\ \A k \in 1..n : frames[k].defers \in Seq(D)
           /\ \A k \in 1..n : Closing(frames[k]) => scopes[frames[k].dep + 1] = << >>
           /\ \A j, k \in 1..n : j < k => frames[k].dep >= DepthBelow(frames[j])
           /\ \A j, k \in 1..n : j < k /\ Closing(frames[j]) /\ frames[k].dep = frames[j].dep + 1
                                 => frames[k].node \in D
<1>1. /\ n \in Nat /\ n > 0 /\ DOMAIN frames = 1..n /\ Top = frames[n]
      /\ frames \in Seq(FrameType(Len(cir.blk))) /\ frames # << >>
      /\ Len(scopes) = DepthBelow(Top) /\ scopes \in Seq(Seq(Nodes))
      /\ Top \in FrameType(Len(cir.blk))
  BY ScopesFoundLemma DEF DefersFound, ScopesFound
<1>2. Top.node \in Nodes /\ \A f \in FrameType(Len(cir.blk)) : f.dep \in Nat
  BY <1>1 DEF FrameType
<1>3. \A k \in 1..n : frames[k].dep \in Nat
  BY <1>1, <1>2
<1>4. /\ scopes \in Seq(Seq(D)) /\ Len(scopes) \in Nat
      /\ \A k \in 1..n : frames[k].defers \in Seq(D)
      /\ \A k \in 1..n : Closing(frames[k]) => scopes[frames[k].dep + 1] = << >>
  <2>1. scopes \in Seq(Seq(D))
    BY DEF DefersFound, ScopesFound, DefersApart
  <2>2. /\ \A k \in DOMAIN frames : frames[k].defers \in Seq(D)
        /\ \A k \in DOMAIN frames : Closing(frames[k]) => scopes[frames[k].dep + 1] = << >>
    BY DEF DefersFound, ScopesFound, DefersApart
  <2>3. Len(scopes) \in Nat
    BY <1>1
  <2>. QED
    BY <1>1, <2>1, <2>2, <2>3
<1>5. \A j, k \in DOMAIN frames : j < k =>
          /\ frames[k].dep >= DepthBelow(frames[j])
          /\ Closing(frames[j]) /\ frames[k].dep = frames[j].dep + 1 => frames[k].node \in D
  BY DEF DefersFound, ScopesFound, DefersApart
<1>6. /\ \A j, k \in 1..n : j < k => frames[k].dep >= DepthBelow(frames[j])
      /\ \A j, k \in 1..n : j < k /\ Closing(frames[j]) /\ frames[k].dep = frames[j].dep + 1
                            => frames[k].node \in D
  BY <1>1, <1>5
<1>. QED
  BY <1>1, <1>2, <1>3, <1>4, <1>6

\* What remains true of the activations below the top, when the scopes that
\* are being closed under it keep their empty entries.
Below(D, n) ==
    /\ scopes' \in Seq(Seq(D))
    /\ \A k \in 1..(n - 1) : Closing(frames[k]) => scopes'[frames[k].dep + 1] = << >>

\* A method returns.
LEMMA LeaveDefers ==
    ASSUME NEW D, DefersFound(D), NEW n, n = Len(frames), Below(D, n), frames' = Front(frames)
    PROVE  DefersApart(D)'
<1>1. /\ n \in Nat /\ n > 0
      /\ frames \in Seq(FrameType(Len(cir.blk))) /\ frames # << >>
      /\ \A k \in 1..n : frames[k].defers \in Seq(D)
      /\ \A j, k \in 1..n : j < k => frames[k].dep >= DepthBelow(frames[j])
      /\ \A j, k \in 1..n : j < k /\ Closing(frames[j]) /\ frames[k].dep = frames[j].dep + 1
                            => frames[k].node \in D
  BY DefersFoundLemma
<1>2. /\ DOMAIN frames' = 1..(n - 1)
      /\ \A k \in 1..(n - 1) : frames'[k] = frames[k]
  <2>1. /\ frames' \in Seq(FrameType(Len(cir.blk))) /\ Len(frames') = n - 1
        /\ \A k \in 1..(n - 1) : frames'[k] = frames[k]
    BY <1>1, StackLemma
  <2>. QED
    BY <2>1
<1>3. \A k \in 1..(n - 1) : k \in 1..n
  BY <1>1
<1>4. /\ \A k \in DOMAIN frames' : frames'[k].defers \in Seq(D)
      /\ \A k \in DOMAIN frames' : Closing(frames'[k]) => scopes'[frames'[k].dep + 1] = << >>
  BY <1>1, <1>2, <1>3 DEF Below
<1>5. ASSUME NEW j \in DOMAIN frames', NEW k \in DOMAIN frames', j < k
      PROVE  /\ frames'[k].dep >= DepthBelow(frames'[j])
             /\ Closing(frames'[j]) /\ frames'[k].dep = frames'[j].dep + 1 => frames'[k].node \in D
  <2>1. frames'[j] = frames[j] /\ frames'[k] = frames[k] /\ j \in 1..n /\ k \in 1..n
    BY <1>2, <1>3
  <2>. QED
    BY <1>1, <1>5, <2>1
<1>. QED
  BY <1>4, <1>5 DEF DefersApart, Below, Closing, DepthBelow, InBody

\* A method goes on, with a scope being closed only if its entry is empty.
LEMMA StayDefers ==
    ASSUME NEW D, DefersFound(D), NEW n, n = Len(frames), Below(D, n),
           NEW f, Stay(f), Going(f), f.defers \in Seq(D),
           Closing(f) => scopes'[f.dep + 1] = << >>
    PROVE  DefersApart(D)'
<1>. DEFINE F == FrameType(Len(cir.blk)) \union {f}
<1>1. /\ n \in Nat /\ n > 0 /\ Top = frames[n]
      /\ frames \in Seq(FrameType(Len(cir.blk))) /\ frames # << >>
      /\ \A k \in 1..n : frames[k].defers \in Seq(D)
      /\ \A j, k \in 1..n : j < k => frames[k].dep >= DepthBelow(frames[j])
      /\ \A j, k \in 1..n : j < k /\ Closing(frames[j]) /\ frames[k].dep = frames[j].dep + 1
                            => frames[k].node \in D
  BY DefersFoundLemma
<1>2. frames \in Seq(F) /\ f \in F
  BY <1>1
<1>. HIDE DEF F
<1>3. /\ frames' \in Seq(F) /\ Len(frames') = n
      /\ \A k \in 1..(n - 1) : frames'[k] = frames[k]
      /\ frames'[n] = f
  BY <1>1, <1>2, ReplaceLemma DEF Stay
<1>4. DOMAIN frames' = 1..n /\ \A k \in 1..n : k = n \/ k \in 1..(n - 1)
  BY <1>1, <1>3
<1>5. ASSUME NEW k \in 1..n
      PROVE  /\ frames'[k].defers \in Seq(D)
             /\ Closing(frames'[k]) => scopes'[frames'[k].dep + 1] = << >>
             /\ frames'[k].dep = frames[k].dep /\ frames'[k].node = frames[k].node
             /\ k # n => frames'[k] = frames[k]
  <2>1. CASE k = n
    BY <1>1, <1>3, <2>1 DEF Going
  <2>2. CASE k \in 1..(n - 1)
    BY <1>1, <1>3, <2>2 DEF Below
  <2>. QED
    BY <1>4, <2>1, <2>2
<1>6. ASSUME NEW j \in 1..n, NEW k \in 1..n, j < k
      PROVE  /\ frames'[k].dep >= DepthBelow(frames'[j])
             /\ Closing(frames'[j]) /\ frames'[k].dep = frames'[j].dep + 1 => frames'[k].node \in D
  <2>1. frames'[j] = frames[j]
    BY <1>1, <1>5, <1>6
  <2>. QED
    BY <1>1, <1>5, <1>6, <2>1
<1>. QED
  BY <1>4, <1>5, <1>6 DEF DefersApart, Below, Closing, DepthBelow, InBody

\* A method calls another one, for an expression that is in D if the innermost
\* scope is being closed.
LEMMA EnterDefers ==
    ASSUME NEW D, DefersFound(D), NEW n, n = Len(frames), Below(D, n),
           NEW f, NEW e, Enter(f, e), Going(f), f.defers \in Seq(D),
           Closing(f) => scopes'[f.dep + 1] = << >> /\ e \in D,
           Len(scopes') = DepthBelow(f),
           ~Open(f) /\ f.node \in D => e \in D
    PROVE  DefersApart(D)'
<1>. DEFINE g == Activation(e, breaks', Len(scopes'))
            F == FrameType(Len(cir.blk)) \union {f, g}
<1>1. /\ n \in Nat /\ n > 0 /\ Top = frames[n]
      /\ frames \in Seq(FrameType(Len(cir.blk))) /\ frames # << >>
      /\ \A k \in 1..n : frames[k].defers \in Seq(D) /\ frames[k].dep \in Nat
      /\ \A j, k \in 1..n : j < k => frames[k].dep >= DepthBelow(frames[j])
      /\ \A j, k \in 1..n : j < k /\ Closing(frames[j]) /\ frames[k].dep = frames[j].dep + 1
                            => frames[k].node \in D
  BY DefersFoundLemma
<1>2. frames \in Seq(F) /\ f \in F /\ g \in F
  BY <1>1
<1>3. /\ g.dep = DepthBelow(f) /\ g.node = e /\ g.defers = << >> /\ ~Closing(g)
      /\ DepthBelow(g) = g.dep
  BY DEF Activation, Closing, DepthBelow, InBody
<1>4. frames' = Front(frames) \o <<f, g>>
  BY DEF Enter
<1>. HIDE DEF F, g
<1>5. /\ frames' \in Seq(F) /\ Len(frames') = n + 1
      /\ \A k \in 1..(n - 1) : frames'[k] = frames[k]
      /\ frames'[n] = f /\ frames'[n + 1] = g
  BY <1>1, <1>2, <1>4, PushLemma
<1>6. /\ DOMAIN frames' = 1..(n + 1)
      /\ \A k \in 1..(n + 1) : k = n + 1 \/ k \in 1..n
      /\ \A k \in 1..n : k = n \/ k \in 1..(n - 1)
      /\ n \in 1..n /\ n + 1 \notin 1..n
  BY <1>1, <1>5
<1>7. ASSUME NEW k \in 1..n
      PROVE  /\ frames'[k].defers \in Seq(D)
             /\ Closing(frames'[k]) => scopes'[frames'[k].dep + 1] = << >>
             /\ frames'[k].dep = frames[k].dep /\ frames'[k].node = frames[k].node
             /\ k # n => frames'[k] = frames[k]
  <2>1. CASE k = n
    BY <1>1, <1>5, <2>1 DEF Going
  <2>2. CASE k \in 1..(n - 1)
    BY <1>1, <1>5, <2>2 DEF Below
  <2>. QED
    BY <1>6, <2>1, <2>2
<1>8. ASSUME NEW k \in 1..(n + 1)
      PROVE  /\ frames'[k].defers \in Seq(D)
             /\ Closing(frames'[k]) => scopes'[frames'[k].dep + 1] = << >>
  <2>1. CASE k = n + 1
    <3>1. frames'[k] = g /\ << >> \in Seq(D)
      BY <1>5, <2>1
    <3>. QED
      BY <1>3, <3>1
  <2>2. CASE k \in 1..n
    BY <1>7, <2>2
  <2>. QED
    BY <1>6, <2>1, <2>2
<1>9. ASSUME NEW j \in 1..n
      PROVE  /\ g.dep >= DepthBelow(frames'[j])
             /\ Closing(frames'[j]) /\ g.dep = frames'[j].dep + 1 => e \in D
  <2>1. f.dep = frames[n].dep /\ f.dep \in Nat /\ f.node = frames[n].node
    BY <1>1, <1>6 DEF Going
  <2>2. CASE j = n
    <3>1. frames'[j] = f
      BY <1>5, <2>2
    <3>. QED
      BY <1>3, <2>1, <3>1, DepthLemma
  <2>3. CASE j # n
    <3>1. frames'[j] = frames[j] /\ j < n /\ frames[j].dep \in Nat
      BY <1>1, <1>7, <2>3
    <3>2. f.dep >= DepthBelow(frames[j])
      BY <1>1, <1>6, <2>1, <3>1
    <3>3. g.dep >= f.dep /\ DepthBelow(frames[j]) \in Nat
      BY <1>3, <2>1, <3>1, DepthLemma
    <3>4. ASSUME Closing(frames[j]), g.dep = frames[j].dep + 1
          PROVE  e \in D
      <4>1. DepthBelow(frames[j]) = frames[j].dep + 1
        BY <3>1, <3>4, DepthLemma
      <4>2. g.dep = f.dep
        BY <2>1, <3>1, <3>2, <3>3, <3>4, <4>1
      <4>3. ~Open(f)
        <5>1. Open(f) => DepthBelow(f) = f.dep + 1
          BY <2>1, DepthLemma
        <5>. QED
          BY <1>3, <2>1, <4>2, <5>1
      <4>4. frames[n].dep = frames[j].dep + 1
        BY <2>1, <3>4, <4>2
      <4>5. f.node \in D
        BY <1>1, <1>6, <2>1, <3>1, <3>4, <4>4
      <4>. QED
        BY <4>3, <4>5
    <3>5. g.dep >= DepthBelow(frames[j])
      <4>1. g.dep \in Nat
        BY <1>3, <2>1, DepthLemma
      <4>. QED
        BY <2>1, <3>2, <3>3, <4>1
    <3>. QED
      BY <3>1, <3>4, <3>5
  <2>. QED
    BY <2>2, <2>3
<1>10. ASSUME NEW j \in 1..(n + 1), NEW k \in 1..(n + 1), j < k
       PROVE  /\ frames'[k].dep >= DepthBelow(frames'[j])
              /\ Closing(frames'[j]) /\ frames'[k].dep = frames'[j].dep + 1 => frames'[k].node \in D
  <2>1. CASE k = n + 1
    <3>1. j \in 1..n
      BY <1>1, <1>10, <2>1
    <3>. QED
      BY <1>3, <1>5, <1>9, <2>1, <3>1
  <2>2. CASE k \in 1..n
    <3>1. j \in 1..n /\ frames'[j] = frames[j]
      BY <1>1, <1>7, <1>10, <2>2
    <3>. QED
      BY <1>1, <1>7, <1>10, <2>2, <3>1
  <2>. QED
    BY <1>6, <2>1, <2>2
<1>. QED
  BY <1>6, <1>8, <1>10 DEF DefersApart, Below, Closing, DepthBelow, InBody

\* A method goes on, in one of the ways it can.
LEMMA GoesOnDefers ==
    ASSUME NEW D, DefersFound(D), NEW n, n = Len(frames), Below(D, n),
           NEW f, Going(f), GoesOn(f), f.defers \in Seq(D), ~Closing(f),
           Len(scopes') = DepthBelow(f)
    PROVE  DefersApart(D)'
<1>1. CASE Stay(f)
  BY <1>1, StayDefers
<1>2. ASSUME NEW k \in DOMAIN Top.node.kids, Enter(f, Top.node.kids[k]),
             Open(f) \/ k \notin Statements(Top.node)
      PROVE  DefersApart(D)'
  <2>. DEFINE e == Top.node.kids[k]
  <2>1. ~Open(f) /\ f.node \in D => e \in D
    BY <1>2 DEF Going, DefersFound, Deferrable
  <2>2. Enter(f, e)
    BY <1>2
  <2>. HIDE DEF e
  <2>. QED
    BY <2>1, <2>2, EnterDefers
<1>. QED
  BY <1>1, <1>2 DEF GoesOn

\* The entries of the scopes that are being closed, below the top.
LEMMA BelowLemma ==
    ASSUME NEW D, DefersFound(D), NEW n, n = Len(frames), NEW k \in 1..(n - 1), Closing(frames[k])
    PROVE  /\ frames[k].dep + 1 \in 1..Top.dep /\ scopes[frames[k].dep + 1] = << >>
           /\ frames[k].dep + 1 = Top.dep => Top.node \in D
<1>1. /\ n \in Nat /\ n > 0 /\ Top = frames[n]
      /\ \A j \in 1..n : frames[j].dep \in Nat
      /\ \A j \in 1..n : Closing(frames[j]) => scopes[frames[j].dep + 1] = << >>
      /\ \A i, j \in 1..n : i < j => frames[j].dep >= DepthBelow(frames[i])
      /\ \A i, j \in 1..n : i < j /\ Closing(frames[i]) /\ frames[j].dep = frames[i].dep + 1
                            => frames[j].node \in D
  BY DefersFoundLemma
<1>2. k \in 1..n /\ n \in 1..n /\ k < n
  BY <1>1
<1>3. DepthBelow(frames[k]) = frames[k].dep + 1
  <2>1. frames[k].dep \in Nat
    BY <1>1, <1>2
  <2>. QED
    BY <2>1, DepthLemma
<1>4. Top.dep >= frames[k].dep + 1 /\ frames[k].dep \in Nat /\ Top.dep \in Nat
  BY <1>1, <1>2, <1>3
<1>. QED
  BY <1>1, <1>2, <1>4

LEMMA WayDefers ==
    ASSUME NEW D, DefersFound(D), Way
    PROVE  DefersApart(D)'
<1>. DEFINE n == Len(frames)
            top == Len(scopes)
<1>1. /\ n \in Nat /\ n > 0 /\ Top = frames[n] /\ Top.dep \in Nat /\ Top.node \in Nodes
      /\ top \in Nat /\ top = DepthBelow(Top) /\ scopes \in Seq(Seq(D))
      /\ Top.defers \in Seq(D)
      /\ Closing(Top) => scopes[Top.dep + 1] = << >>
  <2>1. n \in Nat /\ n > 0
    BY DefersFoundLemma
  <2>2. n \in 1..n
    BY <2>1
  <2>. QED
    BY <2>1, <2>2, DefersFoundLemma
<1>2. \A k \in 1..(n - 1) : Closing(frames[k]) =>
          /\ frames[k].dep + 1 \in 1..Top.dep /\ scopes[frames[k].dep + 1] = << >>
          /\ frames[k].dep + 1 = Top.dep => Top.node \in D
  BY BelowLemma
<1>3. /\ Open(Top) => top = Top.dep + 1
      /\ ~Open(Top) => top = Top.dep
      /\ Closing(Top) => Open(Top)
  BY <1>1, DepthLemma
<1>4. scopes' = scopes => Below(D, n)
  BY <1>1, <1>2 DEF Below
<1>5. /\ \A k \in DOMAIN Top.node.kids \ Statements(Top.node) : Top.node \in D => Top.node.kids[k] \in D
      /\ Top.node.kind = "defer" => Top.node \notin D /\ Top.node.kids[1] \in D
  BY <1>1 DEF DefersFound, Deferrable
<1>. HIDE DEF n, top
<1>6. CASE Returns
  <2>1. frames' = Front(frames) /\ Below(D, n)
    BY <1>4, <1>6 DEF Returns
  <2>. QED
    BY <2>1, LeaveDefers DEF n
<1>7. CASE Defers
  <2>1. /\ frames' = Front(frames) /\ Top.node.kind = "defer"
        /\ scopes' = [scopes EXCEPT ![top] = Append(@, Top.node.kids[1])]
    BY <1>7 DEF Defers, top
  <2>2. top = Top.dep
    BY <1>3, <2>1 DEF Open, Scoped
  <2>3. scopes' \in Seq(Seq(D))
    <3>1. CASE top = 0
      <4>1. scopes = << >>
        BY <1>1, <3>1 DEF top
      <4>2. scopes' = << >> /\ << >> \in Seq(Seq(D))
        BY <2>1, <4>1
      <4>. QED
        BY <4>2
    <3>2. CASE top > 0
      <4>. DEFINE S == Seq(D)
                  e == Append(scopes[top], Top.node.kids[1])
      <4>1. scopes[top] \in Seq(D)
        BY <1>1, <3>2 DEF top
      <4>2. e \in S
        BY <1>5, <2>1, <4>1
      <4>3. scopes' = [scopes EXCEPT ![top] = e] /\ scopes \in Seq(S)
        BY <1>1, <2>1
      <4>. HIDE DEF S, e
      <4>. QED
        BY <1>1, <3>2, <4>2, <4>3 DEF S, top
    <3>. QED
      BY <1>1, <3>1, <3>2
  <2>4. ASSUME NEW k \in 1..(n - 1), Closing(frames[k])
        PROVE  scopes'[frames[k].dep + 1] = << >>
    <3>1. /\ frames[k].dep + 1 \in 1..top /\ frames[k].dep + 1 # top
          /\ scopes[frames[k].dep + 1] = << >>
      BY <1>2, <1>5, <2>1, <2>2, <2>4
    <3>. QED
      BY <1>1, <2>1, <3>1 DEF top
  <2>5. Below(D, n)
    BY <2>3, <2>4 DEF Below
  <2>. QED
    BY <2>1, <2>5, LeaveDefers DEF n
<1>8. CASE Continues
  <2>1. PICK f : /\ Going(f) /\ GoesOn(f) /\ f.defers = Top.defers
                 /\ (Open(f) <=> Open(Top)) /\ ~Closing(f)
    BY <1>8 DEF Continues
  <2>2. scopes' = scopes /\ Below(D, n)
    BY <1>4, <1>8 DEF Continues
  <2>3. Len(scopes') = DepthBelow(f)
    <3>1. f.dep \in Nat /\ f.dep = Top.dep
      BY <1>1, <2>1 DEF Going
    <3>2. /\ Open(f) => DepthBelow(f) = f.dep + 1
          /\ ~Open(f) => DepthBelow(f) = f.dep
      BY <3>1, DepthLemma
    <3>. QED
      BY <1>3, <2>1, <2>2, <3>1, <3>2 DEF top
  <2>. QED
    BY <1>1, <2>1, <2>2, <2>3, GoesOnDefers DEF n
<1>9. CASE Opens
  <2>1. PICK f : Going(f) /\ GoesOn(f) /\ f.defers = Top.defers /\ Open(f) /\ ~Closing(f)
    BY <1>9 DEF Opens
  <2>2. scopes' = Append(scopes, << >>) /\ top = Top.dep
    BY <1>3, <1>9 DEF Opens
  <2>3. Len(scopes') = DepthBelow(f)
    <3>1. f.dep \in Nat /\ f.dep = Top.dep
      BY <1>1, <2>1 DEF Going
    <3>2. DepthBelow(f) = Top.dep + 1
      BY <2>1, <3>1, DepthLemma
    <3>. QED
      BY <1>1, <2>2, <3>2 DEF top
  <2>4. Below(D, n)
    <3>1. scopes' \in Seq(Seq(D))
      <4>1. << >> \in Seq(D)
        OBVIOUS
      <4>. QED
        BY <1>1, <2>2, <4>1
    <3>2. ASSUME NEW k \in 1..(n - 1), Closing(frames[k])
          PROVE  scopes'[frames[k].dep + 1] = << >>
      <4>1. frames[k].dep + 1 \in 1..top /\ scopes[frames[k].dep + 1] = << >>
        BY <1>2, <2>2, <3>2
      <4>. QED
        BY <1>1, <2>2, <4>1 DEF top
    <3>. QED
      BY <3>1, <3>2 DEF Below
  <2>. QED
    BY <1>1, <2>1, <2>3, <2>4, GoesOnDefers DEF n
<1>10. CASE StartsEnd
  <2>1. PICK f : Going(f) /\ Stay(f) /\ f.defers = Last(scopes) /\ Closing(f)
    BY <1>10 DEF StartsEnd
  <2>2. scopes' = [scopes EXCEPT ![top] = << >>] /\ top = Top.dep + 1 /\ top > 0
    BY <1>1, <1>3, <1>10 DEF StartsEnd, top
  <2>3. Last(scopes) \in Seq(D)
    <3>1. scopes[top] \in Seq(D)
      BY <1>1, <2>2 DEF top
    <3>. QED
      BY <3>1 DEF Last, top
  <2>4. scopes' \in Seq(Seq(D)) /\ scopes'[top] = << >>
    <3>1. << >> \in Seq(D)
      OBVIOUS
    <3>2. top \in DOMAIN scopes
      BY <1>1, <2>2 DEF top
    <3>. QED
      BY <1>1, <2>2, <3>1, <3>2
  <2>5. ASSUME NEW k \in 1..(n - 1), Closing(frames[k])
        PROVE  scopes'[frames[k].dep + 1] = << >>
    <3>1. /\ frames[k].dep + 1 \in 1..top /\ frames[k].dep + 1 # top
          /\ scopes[frames[k].dep + 1] = << >>
      BY <1>1, <1>2, <2>2, <2>5
    <3>. QED
      BY <1>1, <2>2, <3>1 DEF top
  <2>6. Below(D, n)
    BY <2>4, <2>5 DEF Below
  <2>7. scopes'[f.dep + 1] = << >>
    BY <2>1, <2>2, <2>4 DEF Going
  <2>. QED
    BY <2>1, <2>3, <2>6, <2>7, StayDefers DEF n
<1>11. CASE RunsDefer
  <2>1. PICK f : /\ Going(f) /\ Closing(f) /\ f.defers = Tail(Top.defers)
                 /\ Enter(f, Head(Top.defers))
    BY <1>11 DEF RunsDefer
  <2>2. scopes' = scopes /\ Closing(Top) /\ Top.defers # << >> /\ Below(D, n)
    BY <1>4, <1>11 DEF RunsDefer
  <2>3. f.defers \in Seq(D) /\ Head(Top.defers) \in D
    BY <1>1, <2>1, <2>2
  <2>4. scopes'[f.dep + 1] = << >> /\ f.dep = Top.dep
    BY <1>1, <2>1, <2>2 DEF Going
  <2>5. Open(f) /\ Len(scopes') = DepthBelow(f)
    <3>1. f.dep \in Nat
      BY <1>1, <2>4
    <3>2. Open(f) /\ DepthBelow(f) = f.dep + 1
      BY <2>1, <3>1, DepthLemma
    <3>. QED
      BY <1>3, <2>2, <2>4, <3>2 DEF top
  <2>. QED
    BY <2>1, <2>2, <2>3, <2>4, <2>5, EnterDefers DEF n
<1>12. CASE Closes
  <2>1. Closing(Top) /\ scopes' = Front(scopes) /\ top = Top.dep + 1 /\ top > 0
    BY <1>1, <1>3, <1>12 DEF Closes
  <2>2. /\ scopes' \in Seq(Seq(D)) /\ Len(scopes') = Top.dep
        /\ \A k \in 1..Top.dep : scopes'[k] = scopes[k]
    <3>. DEFINE S == Seq(D)
    <3>1. scopes \in Seq(S) /\ scopes # << >>
      BY <1>1, <2>1 DEF top
    <3>. HIDE DEF S
    <3>2. /\ scopes' \in Seq(S) /\ Len(scopes') = top - 1
          /\ \A k \in 1..(top - 1) : scopes'[k] = scopes[k]
      BY <2>1, <3>1, StackLemma DEF top
    <3>3. top - 1 = Top.dep
      BY <1>1, <2>1
    <3>. QED
      BY <3>2, <3>3 DEF S
  <2>3. Below(D, n)
    BY <1>2, <2>2 DEF Below
  <2>4. CASE frames' = Front(frames)
    BY <2>3, <2>4, LeaveDefers DEF n
  <2>5. ASSUME NEW f, Going(f), GoesOn(f), f.defers = Top.defers, ~Open(f)
        PROVE  DefersApart(D)'
    <3>1. f.dep \in Nat /\ f.dep = Top.dep
      BY <1>1, <2>5 DEF Going
    <3>2. DepthBelow(f) = Top.dep /\ ~Closing(f)
      BY <2>5, <3>1, DepthLemma
    <3>. QED
      BY <1>1, <2>2, <2>3, <2>5, <3>2, GoesOnDefers DEF n
  <2>. QED
    BY <1>12, <2>4, <2>5 DEF Closes
<1>13. CASE Stops
  BY <1>13 DEF Stops, DefersApart
<1>. QED
  BY <1>6, <1>7, <1>8, <1>9, <1>10, <1>11, <1>12, <1>13 DEF Way

\* A function begins with nothing deferred.
LEMMA FileDefers ==
    ASSUME NEW D, IInv, ScopesExact, File, frames = << >>
    PROVE  DefersApart(D)'
<1>1. CASE FunctionAST_gen
  <2>. DEFINE f == [Activation(prog[fn'].node, breaks, Len(scopes)) EXCEPT !.at = "args"]
  <2>1. scopes' = << >> /\ frames' = <<f>>
    BY <1>1 DEF FunctionAST_gen, ScopesExact
  <2>2. f.at = "args" /\ f.defers = << >>
    BY DEF Activation
  <2>. HIDE DEF f
  <2>3. DOMAIN frames' = {1} /\ frames'[1] = f /\ ~(1 < 1)
    BY <2>1
  <2>4. << >> \in Seq(Seq(D)) /\ << >> \in Seq(D)
    OBVIOUS
  <2>5. ~Closing(frames'[1])
    BY <2>2, <2>3 DEF Closing
  <2>6. /\ \A k \in DOMAIN frames' : frames'[k].defers \in Seq(D) /\ ~Closing(frames'[k])
        /\ \A j, k \in DOMAIN frames' : ~(j < k)
    BY <2>2, <2>3, <2>4, <2>5
  <2>. QED
    BY <2>1, <2>4, <2>6 DEF DefersApart, Closing
<1>2. CASE \/ FileAST_generated \/ fixFileCIR \/ checkFileCIR
  BY <1>2 DEF FileAST_generated, fixFileCIR, checkFileCIR, DefersApart
<1>. QED
  BY <1>1, <1>2 DEF File, FunctionAST_arg, FunctionAST_body, FunctionAST_end, FunctionAST_noValue,
                    CloseScope, At

\* Each step that leaves no scope open keeps deferred expressions apart.
LEMMA StepDefers ==
    ASSUME NEW D, Deferrable(D), IInv, ScopesExact, DefersApart(D), [Next]_vars, ~LeavesScopeOpen
    PROVE  DefersApart(D)'
<1>1. CASE UNCHANGED vars
  BY <1>1 DEF vars, DefersApart, Closing, DepthBelow, InBody
<1>2. CASE Next /\ status = "gen" /\ frames # << >>
  <2>1. Way
    BY <1>2, StepWay
  <2>2. DefersFound(D)
    BY <1>2 DEF DefersFound, ScopesFound
  <2>. QED
    BY <2>1, <2>2, WayDefers
<1>3. CASE Next /\ status = "gen" /\ frames = << >>
  <2>1. File
    BY <1>3, FreedGrows DEF Next, Done, Stopped
  <2>. QED
    BY <1>3, <2>1, FileDefers
<1>4. CASE Next /\ status # "gen"
  <2>1. File \/ UNCHANGED vars
    BY <1>4, FreedGrows DEF Next, Done
  <2>2. CASE File
    <3>1. fixFileCIR \/ checkFileCIR
      BY <1>4, <2>2 DEF File, FunctionAST_gen, FunctionAST_arg, FunctionAST_body, FunctionAST_end,
         FunctionAST_noValue, FileAST_generated, CloseScope, At
    <3>. QED
      BY <3>1 DEF fixFileCIR, checkFileCIR, DefersApart
  <2>. QED
    BY <1>1, <2>1, <2>2
<1>. QED
  BY <1>1, <1>2, <1>3, <1>4

\* A scope is closed only when its entry is empty.
LEMMA CloseDefers ==
    ASSUME NEW D, Deferrable(D), IInv, ScopesExact, DefersApart(D), [Next]_vars, ~LeavesScopeOpen,
           Len(scopes') < Len(scopes)
    PROVE  Last(scopes) = << >>
<1>1. Next /\ status = "gen" /\ frames # << >>
  <2>1. Next /\ scopes' # scopes
    <3>1. CASE scopes' = scopes
      <4>1. Len(scopes) \in Nat
        BY DEF IInv, TypeOK
      <4>. QED
        BY <3>1, <4>1
    <3>. QED
      BY <3>1 DEF vars
  <2>2. CASE Simple \/ Memory \/ Control
    BY <2>1, <2>2, FreedGrows
  <2>3. CASE File
    BY <2>1, <2>3 DEF File, FunctionAST_gen, FunctionAST_arg, FunctionAST_body, FunctionAST_end,
       FunctionAST_noValue, FileAST_generated, fixFileCIR, checkFileCIR, CloseScope, At
  <2>. QED
    BY <2>1, <2>2, <2>3 DEF Next, Done, vars
<1>2. DefersFound(D)
  BY <1>1 DEF DefersFound, ScopesFound
<1>. DEFINE n == Len(frames)
            top == Len(scopes)
<1>3. /\ Top = frames[n] /\ Top.dep \in Nat /\ n \in 1..n
      /\ top \in Nat /\ top = DepthBelow(Top) /\ scopes \in Seq(Seq(D))
      /\ Closing(frames[n]) => scopes[frames[n].dep + 1] = << >>
  <2>1. n \in Nat /\ n > 0
    BY <1>2, DefersFoundLemma
  <2>2. n \in 1..n
    BY <2>1
  <2>. QED
    BY <1>2, <2>1, <2>2, DefersFoundLemma
<1>4. Closing(Top)
  <2>1. SUFFICES ASSUME ~Closing(Top)
                 PROVE  FALSE
    OBVIOUS
  <2>2. Way
    BY <1>1, StepWay
  <2>3. \/ scopes' = scopes
        \/ Defers
        \/ scopes' = Append(scopes, << >>)
        \/ scopes' = [scopes EXCEPT ![Len(scopes)] = << >>]
    BY <2>1, <2>2 DEF Way, Returns, Continues, Opens, StartsEnd, RunsDefer, Closes, Stops
  <2>4. CASE Defers
    <3>1. scopes' = [scopes EXCEPT ![Len(scopes)] = Append(@, Top.node.kids[1])]
      BY <2>4 DEF Defers
    <3>. DEFINE e == Append(scopes[Len(scopes)], Top.node.kids[1])
    <3>2. scopes' = [scopes EXCEPT ![Len(scopes)] = e]
      BY <3>1
    <3>. HIDE DEF e
    <3>. QED
      BY <1>3, <3>2
  <2>. QED
    BY <1>3, <2>3, <2>4
<1>5. top = Top.dep + 1
  <2>1. Open(Top) /\ DepthBelow(Top) = Top.dep + 1
    BY <1>3, <1>4, DepthLemma
  <2>. QED
    BY <1>3, <2>1
<1>. QED
  BY <1>3, <1>4, <1>5 DEF Last

\* Whatever the file, as long as no early return leaves a scope open and no
\* deferred expression defers in turn outside of a scope of its own, endScope
\* pops an entry of Scopes only when everything deferred in it has been
\* generated.
THEOREM NoDeferIsLost ==
    ASSUME NEW D, Deferrable(D)
    PROVE  Spec /\ [][~LeavesScopeOpen]_vars => NoDeferLost
<1>. DEFINE DInv == ScopesExact /\ DefersApart(D)
<1>1. Init => DInv
  <2>1. << >> \in Seq(Seq(D))
    OBVIOUS
  <2>. QED
    BY <2>1 DEF Init, ScopesExact, DefersApart
<1>2. IInv /\ DInv /\ [Next]_vars /\ [~LeavesScopeOpen]_vars => DInv'
  <2>1. SUFFICES ASSUME IInv, DInv, [Next]_vars, [~LeavesScopeOpen]_vars
                 PROVE  DInv'
    OBVIOUS
  <2>2. CASE ~LeavesScopeOpen
    BY <2>1, <2>2, StepScopes, StepDefers
  <2>3. CASE UNCHANGED vars
    BY <2>1, <2>3 DEF vars, ScopesExact, DefersApart, Closing, DepthBelow, InBody, Top
  <2>. QED
    BY <2>1, <2>2, <2>3
<1>3. IInv /\ DInv /\ [Next]_vars /\ [~LeavesScopeOpen]_vars
        => [Len(scopes') < Len(scopes) => Last(scopes) = << >>]_vars
  <2>1. SUFFICES ASSUME IInv, DInv, [Next]_vars, ~LeavesScopeOpen, Len(scopes') < Len(scopes)
                 PROVE  Last(scopes) = << >>
    OBVIOUS
  <2>. QED
    BY <2>1, CloseDefers
<1>. QED
  BY <1>1, <1>2, <1>3, Invariance, PTL DEF Spec, NoDeferLost
=============================================================================
