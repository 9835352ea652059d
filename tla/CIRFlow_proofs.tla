----------------------------- MODULE CIRFlow_proofs -----------------------------
(***************************************************************************)
(* The assertion of checkFileCIR: each block of a function ends with an    *)
(* instruction of type never.  A method begins blocks that it, or a method *)
(* that called it, closes later, and closes none where the tree says that  *)
(* a branch is left.  Flowing says, at every step, which blocks are not    *)
(* closed yet and which activation will go on in them; in a tree that is   *)
(* Honest about where it is left, it is inductive.                         *)
(***************************************************************************)
EXTENDS CIROperands_proofs

-----------------------------------------------------------------------------
(* The end of a block: files, one operation after the other.               *)

\* Block b has an instruction after which nothing is executed.
HasNever(c, b) == \E k \in DOMAIN c.blk[b].ins : c.instr[c.blk[b].ins[k]].ty = "never"

\* A file whose insert point is in the function that is being generated.
Writable(c) == Shaped(c) /\ c.fun # << >> /\ InLast(c, c.cur)

\* The file d is c with more instructions and more blocks; those that its
\* functions have more are in X.
Furthers(c, X, d) ==
    /\ Writable(d) /\ Len(c.blk) <= Len(d.blk)
    /\ \A b \in 1..Len(c.blk) : HasNever(c, b) => HasNever(d, b)
    /\ \A b : InLast(c, b) => InLast(d, b)
    /\ \A b \in BlocksOf(d) : b \in BlocksOf(c) \/ b \in X

\* And instructions are added where they were.
Along(c, X, d) == Furthers(c, X, d) /\ d.cur = c.cur /\ Len(d.blk) \in Nat

\* The blocks of a file that is being written.
LEMMA WritableLemma ==
    ASSUME NEW c, Writable(c), NEW m, m = Len(c.fun)
    PROVE  /\ Shaped(c) /\ Len(c.blk) \in Nat /\ c.cur \in 1..Len(c.blk) /\ InLast(c, c.cur)
           /\ m \in Nat /\ m > 0 /\ m \in 1..m /\ DOMAIN c.fun = 1..m
           /\ \A b : InLast(c, b) => b \in BlocksOf(c)
           /\ BlocksOf(c) \subseteq 1..Len(c.blk)
           /\ Along(c, {}, c)
<1>. DEFINE n == Len(c.blk)
<1>1. /\ Shaped(c) /\ c.fun # << >> /\ InLast(c, c.cur) /\ n \in Nat /\ c.fun \in Seq(Seq(1..n))
  BY DEF Writable, Shaped
<1>2. m \in Nat /\ m > 0 /\ m \in 1..m /\ DOMAIN c.fun = 1..m
  BY <1>1
<1>3. \A F \in 1..m : ToSet(c.fun[F]) \subseteq 1..n
  <2>1. ASSUME NEW F \in 1..m
        PROVE  ToSet(c.fun[F]) \subseteq 1..n
    <3>1. PICK s : s = c.fun[F]
      OBVIOUS
    <3>2. s \in Seq(1..n)
      BY <1>1, <1>2, <2>1, <3>1
    <3>. QED
      BY <3>1, <3>2 DEF ToSet
  <2>. QED
    BY <2>1
<1>4. BlocksOf(c) \subseteq 1..n /\ \A b : InLast(c, b) => b \in BlocksOf(c)
  BY <1>2, <1>3 DEF BlocksOf, InLast
<1>5. Along(c, {}, c)
  BY <1>1 DEF Along, Furthers, Writable
<1>. QED
  BY <1>1, <1>2, <1>4, <1>5

\* One operation after the other.
LEMMA FurtherLemma ==
    ASSUME NEW c, Len(c.blk) \in Nat, NEW d, NEW e, NEW X, NEW Y, NEW Z, X \subseteq Z, Y \subseteq Z,
           Furthers(c, X, d), Furthers(d, Y, e)
    PROVE  /\ Furthers(c, Z, e)
           /\ Along(c, X, d) /\ Along(d, Y, e) => Along(c, Z, e)
<1>1. /\ Len(d.blk) \in Nat /\ Len(e.blk) \in Nat /\ Len(c.blk) <= Len(d.blk)
      /\ Len(d.blk) <= Len(e.blk)
  BY DEF Furthers, Writable, Shaped
<1>2. 1..Len(c.blk) \subseteq 1..Len(d.blk) /\ Len(c.blk) <= Len(e.blk)
  BY <1>1
<1>3. Furthers(c, Z, e)
  BY <1>2 DEF Furthers
<1>. QED
  BY <1>3 DEF Along

\* An instruction.
LEMMA FurtherInstruction ==
    ASSUME NEW c, Writable(c), NEW i, NEW d, d = AddInstruction(c, i)
    PROVE  /\ Along(c, {}, d) /\ Len(d.blk) = Len(c.blk) /\ ~IsEmpty(LastRef(d))
           /\ i.ty = "never" => HasNever(d, c.cur)
<1>1. PICK m, n, x : m = Len(c.fun) /\ n = Len(c.blk) /\ x = Len(c.instr) + 1
  OBVIOUS
<1>2. /\ Shaped(c) /\ n \in Nat /\ c.cur \in 1..n /\ InLast(c, c.cur) /\ m \in 1..m
      /\ m \in Nat /\ m > 0 /\ DOMAIN c.fun = 1..m
  BY <1>1, WritableLemma
<1>3. /\ Shaped(d) /\ Len(d.blk) = n /\ d.cur = c.cur /\ d.fun = c.fun
      /\ Len(c.instr) \in Nat /\ Len(d.instr) = x /\ d.instr[x] = i
      /\ \A k \in 1..Len(c.instr) : d.instr[k] = c.instr[k]
      /\ d.blk[c.cur].ins = Append(c.blk[c.cur].ins, x)
      /\ \A b \in 1..n : b # c.cur => d.blk[b].ins = c.blk[b].ins
  <2>1. Appended(c, i, d)
    BY <1>1, <1>2, InstructionAdded
  <2>. QED
    BY ONLY <1>1, <2>1 DEF Appended
<1>4. \A b \in 1..n : c.blk[b].ins \in Seq(1..Len(c.instr))
  BY <1>1, <1>2 DEF Shaped
<1>5. PICK s, t : s = c.blk[c.cur].ins /\ t = d.blk[c.cur].ins
  OBVIOUS
<1>6. s \in Seq(Nat) /\ x \in Nat /\ t = Append(s, x)
  <2>1. s \in Seq(1..Len(c.instr))
    BY <1>1, <1>2, <1>4, <1>5
  <2>2. s \in Seq(Nat)
    BY <2>1
  <2>3. t = Append(s, x)
    BY ONLY <1>3, <1>5
  <2>4. x \in Nat
    <3>1. Len(c.instr) \in Nat
      BY ONLY <1>3, Zenon
    <3>. QED
      BY ONLY <1>1, <3>1
  <2>. QED
    BY ONLY <2>2, <2>3, <2>4
<1>7. /\ DOMAIN t = 1..(Len(s) + 1) /\ t[Len(s) + 1] = x /\ DOMAIN s = 1..Len(s)
      /\ \A k \in 1..Len(s) : t[k] = s[k]
  BY <1>6
<1>8. Len(s) \in Nat /\ Len(s) + 1 \in DOMAIN t /\ DOMAIN s \subseteq DOMAIN t
  BY <1>6, <1>7
<1>9. i.ty = "never" => HasNever(d, c.cur)
  <2>1. PICK k : k = Len(s) + 1
    OBVIOUS
  <2>2. k \in DOMAIN t /\ d.instr[t[k]] = i
    BY <1>3, <1>7, <1>8, <2>1
  <2>. QED
    BY <1>5, <2>2 DEF HasNever
<1>10. ASSUME NEW b \in 1..n, HasNever(c, b)
       PROVE  HasNever(d, b)
  <2>1. PICK k \in DOMAIN c.blk[b].ins : c.instr[c.blk[b].ins[k]].ty = "never"
    BY <1>10 DEF HasNever
  <2>2. c.blk[b].ins[k] \in 1..Len(c.instr)
    BY <1>4, <2>1
  <2>3. k \in DOMAIN d.blk[b].ins /\ d.blk[b].ins[k] = c.blk[b].ins[k]
    <3>1. CASE b = c.cur
      BY <1>5, <1>7, <1>8, <2>1, <3>1
    <3>2. CASE b # c.cur
      BY <1>3, <2>1, <3>2
    <3>. QED
      BY <3>1, <3>2
  <2>4. d.instr[d.blk[b].ins[k]].ty = "never"
    BY ONLY <1>3, <2>1, <2>2, <2>3
  <2>. QED
    BY ONLY <2>3, <2>4, Zenon DEF HasNever
<1>11. Furthers(c, {}, d)
  <2>1. BlocksOf(d) = BlocksOf(c)
    BY <1>3 DEF BlocksOf
  <2>2. \A b : InLast(d, b) <=> InLast(c, b)
    BY <1>3 DEF InLast
  <2>3. Writable(d)
    BY <1>2, <1>3, <2>2 DEF Writable
  <2>. QED
    <3>1. Len(c.blk) <= Len(d.blk)
      <4>1. Len(c.blk) = n /\ Len(d.blk) = n /\ n \in Nat
        BY ONLY <1>1, <1>2, <1>3, Zenon
      <4>. QED
        BY ONLY <4>1
    <3>2. \A b \in 1..Len(c.blk) : HasNever(c, b) => HasNever(d, b)
      BY ONLY <1>1, <1>10
    <3>. QED
      BY ONLY <2>1, <2>2, <2>3, <3>1, <3>2 DEF Furthers
\* The instructions of the function are at least one.
<1>12. ~IsEmpty(LastRef(d))
  <2>1. PICK V : V = UNION {ToSet(d.blk[b].ins) : b \in ToSet(d.fun[m])}
    OBVIOUS
  <2>2. V \subseteq 1..x
    <3>1. ASSUME NEW b \in ToSet(d.fun[m])
          PROVE  ToSet(d.blk[b].ins) \subseteq 1..x
      <4>1. b \in 1..n
        <5>1. InLast(c, b)
          BY <1>1, <1>3, <3>1 DEF InLast
        <5>. QED
          BY <1>1, <5>1, WritableLemma
      <4>2. d.blk[b].ins \in Seq(1..Len(d.instr))
        BY <1>3, <4>1 DEF Shaped
      <4>3. PICK u : u = d.blk[b].ins
        OBVIOUS
      <4>4. u \in Seq(1..x)
        BY <1>3, <4>2, <4>3
      <4>. QED
        BY <1>6, <4>3, <4>4 DEF ToSet
    <3>. QED
      BY <2>1, <3>1
  <2>3. x \in V
    <3>1. x \in ToSet(t)
      BY <1>7, <1>8 DEF ToSet
    <3>2. c.cur \in ToSet(d.fun[m])
      BY <1>1, <1>2, <1>3 DEF InLast
    <3>. QED
      BY <1>5, <2>1, <3>1, <3>2
  <2>4. IsFiniteSet(V)
    <3>1. IsFiniteSet(1..x)
      BY <1>6, FS_Interval
    <3>. QED
      BY <2>2, <3>1, FS_Subset
  <2>5. Cardinality(V) \in Nat /\ Cardinality(V) # 0
    BY <2>3, <2>4, FS_CardinalityType, FS_EmptySet
  <2>6. LastRef(d) = [pos |-> Cardinality(V) - 1, def |-> Len(d.instr)]
    BY <1>1, <1>3, <2>1 DEF LastRef, InstructionNb, CurrentFunction
  <2>. QED
    BY <2>5, <2>6 DEF IsEmpty
<1>. QED
  BY <1>1, <1>2, <1>3, <1>9, <1>11, <1>12 DEF Along

\* A file with the instructions and the blocks of functions of another one.
LEMMA FurtherAlike ==
    ASSUME NEW c, Writable(c), NEW d, Alike(c, d), d.cur = c.cur
    PROVE  Along(c, {}, d)
<1>1. PICK n : n = Len(c.blk)
  OBVIOUS
<1>2. n \in Nat /\ InLast(c, c.cur) /\ Shaped(c) /\ c.fun # << >>
  BY <1>1, WritableLemma DEF Writable
<1>3. /\ Shaped(d) /\ d.fun = c.fun /\ d.instr = c.instr /\ n <= Len(d.blk)
      /\ \A b \in 1..n : d.blk[b].ins = c.blk[b].ins
  BY <1>1 DEF Alike
<1>4. \A b \in 1..n : HasNever(c, b) => HasNever(d, b)
  BY <1>3 DEF HasNever
<1>5. BlocksOf(d) = BlocksOf(c) /\ \A b : InLast(d, b) <=> InLast(c, b)
  BY <1>3 DEF BlocksOf, InLast
<1>6. Writable(d) /\ Len(d.blk) \in Nat
  BY <1>2, <1>3, <1>5 DEF Writable, Shaped
<1>. QED
  BY <1>1, <1>3, <1>4, <1>5, <1>6 DEF Along, Furthers

\* A predecessor and a new block.
LEMMA FurtherBlock ==
    ASSUME NEW c, Writable(c), NEW n, n = Len(c.blk)
    PROVE  /\ \A p \in 1..n : \A q : Along(c, {}, AddPred(c, p, q)) /\ Len(AddPred(c, p, q).blk) = n
           /\ \A base : /\ Along(c, {}, NewBlock(c, base)) /\ Len(NewBlock(c, base).blk) = n + 1
                        /\ LastBlock(NewBlock(c, base)) = n + 1
<1>1. n \in Nat /\ Shaped(c)
  BY WritableLemma
<1>2. ASSUME NEW p \in 1..n, NEW q, NEW d, d = AddPred(c, p, q)
      PROVE  Along(c, {}, d) /\ Len(d.blk) = n
  <2>1. /\ Shaped(d) /\ Len(d.blk) = Len(c.blk) /\ d.cur = c.cur /\ d.fun = c.fun
        /\ \A b \in 1..Len(c.blk) : d.blk[b].ins = c.blk[b].ins
    BY <1>1, <1>2, AddPredTargets
  <2>2. d.instr = c.instr
    BY <1>1, <1>2 DEF AddPred, Shaped
  <2>3. Alike(c, d)
    BY <1>1, <2>1, <2>2 DEF Alike
  <2>. QED
    BY <2>1, <2>3, FurtherAlike
<1>3. ASSUME NEW base, NEW d, d = NewBlock(c, base)
      PROVE  Along(c, {}, d) /\ Len(d.blk) = n + 1 /\ LastBlock(d) = n + 1
  <2>1. Alike(c, d) /\ d.cur = c.cur /\ Len(d.blk) = n + 1 /\ LastBlock(d) = n + 1
    BY <1>1, <1>3, NewBlockAlike
  <2>. QED
    BY <2>1, FurtherAlike
<1>. QED
  BY <1>2, <1>3

\* A block laid out.
LEMMA FurtherAdd ==
    ASSUME NEW c, Writable(c), NEW b \in 1..Len(c.blk), NEW d, d = AddBasicBlock(c, b)
    PROVE  Along(c, {b}, d) /\ Len(d.blk) = Len(c.blk) /\ InLast(d, b)
<1>1. PICK m, n : m = Len(c.fun) /\ n = Len(c.blk)
  OBVIOUS
<1>2. Shaped(c) /\ n \in Nat /\ InLast(c, c.cur) /\ c.fun # << >> /\ DOMAIN c.fun = 1..m
  BY <1>1, WritableLemma DEF Writable
<1>3. /\ Shaped(d) /\ d.instr = c.instr /\ d.cur = c.cur /\ Len(d.blk) = n
      /\ \A k \in 1..n : d.blk[k].ins = c.blk[k].ins
      /\ m \in Nat /\ m > 0 /\ m \in 1..m /\ DOMAIN d.fun = 1..m /\ Len(d.fun) = m
      /\ c.fun[m] \in Seq(1..n) /\ d.fun[m] = Append(c.fun[m], b)
      /\ \A F \in 1..m : F # m => d.fun[F] = c.fun[F]
  <2>1. LaidOut(c, b, d)
    BY <1>1, <1>2, BlockPlaced
  <2>. QED
    BY ONLY <1>1, <2>1 DEF LaidOut
<1>4. \A e : e \in ToSet(d.fun[m]) <=> e \in ToSet(c.fun[m]) \/ e = b
  <2>1. PICK s, t : s = c.fun[m] /\ t = d.fun[m]
    OBVIOUS
  <2>2. s \in Seq(Nat) /\ b \in Nat /\ t = Append(s, b)
    <3>1. s \in Seq(1..n) /\ t = Append(s, b)
      BY ONLY <1>3, <2>1
    <3>2. s \in Seq(Nat)
      BY ONLY <3>1, <1>2
    <3>. QED
      BY <1>1, <1>2, <3>1, <3>2
  <2>3. \A e : e \in ToSet(t) <=> e \in ToSet(s) \/ e = b
    BY <2>2, AppendLemma
  <2>. QED
    BY <2>1, <2>3
<1>5. \A e : InLast(d, e) <=> InLast(c, e) \/ e = b
  BY <1>1, <1>3, <1>4 DEF InLast
<1>6. \A e \in BlocksOf(d) : e \in BlocksOf(c) \/ e \in {b}
  <2>1. ASSUME NEW e \in BlocksOf(d)
        PROVE  e \in BlocksOf(c) \/ e = b
    <3>1. PICK F \in DOMAIN d.fun : e \in ToSet(d.fun[F])
      BY <2>1 DEF BlocksOf
    <3>2. F \in 1..m /\ F \in DOMAIN c.fun
      BY <1>2, <1>3, <3>1
    <3>3. e \in ToSet(c.fun[F]) \/ e = b
      BY <1>3, <1>4, <3>1, <3>2
    <3>. QED
      BY <3>2, <3>3 DEF BlocksOf
  <2>. QED
    BY <2>1
<1>7. \A k \in 1..n : HasNever(c, k) => HasNever(d, k)
  BY <1>3 DEF HasNever
<1>8. Writable(d)
  BY <1>2, <1>3, <1>5 DEF Writable
<1>9. Furthers(c, {b}, d)
  BY <1>1, <1>2, <1>3, <1>5, <1>6, <1>7, <1>8 DEF Furthers
<1>. QED
  BY <1>1, <1>2, <1>3, <1>5, <1>9 DEF Along

\* Instructions go to another block of the function.
LEMMA FurtherPoint ==
    ASSUME NEW c, Writable(c), NEW b, InLast(c, b), NEW d, d = SetInsertPoint(c, b)
    PROVE  Furthers(c, {}, d) /\ d.cur = b /\ Len(d.blk) = Len(c.blk)
<1>1. Shaped(c) /\ c.fun # << >> /\ Len(c.blk) \in Nat
  BY WritableLemma DEF Writable
<1>2. /\ DOMAIN d = DOMAIN c /\ d.instr = c.instr /\ d.blk = c.blk /\ d.fun = c.fun /\ d.cur = b
  BY <1>1 DEF SetInsertPoint, Shaped
<1>3. Shaped(d)
  BY <1>1, <1>2 DEF Shaped
<1>4. Writable(d) /\ BlocksOf(d) = BlocksOf(c) /\ \A e : InLast(d, e) <=> InLast(c, e)
  BY <1>1, <1>2, <1>3 DEF Writable, InLast, BlocksOf
<1>5. \A k : HasNever(c, k) => HasNever(d, k)
  BY <1>2 DEF HasNever
<1>. QED
  BY <1>1, <1>2, <1>4, <1>5 DEF Furthers

\* A conversion.
LEMMA FurtherConvert ==
    ASSUME NEW c, Writable(c), NEW r, NEW from, NEW to
    PROVE  /\ Along(c, {}, Convert(c, r, from, to).c)
           /\ Len(Convert(c, r, from, to).c.blk) = Len(c.blk)
           /\ ~IsEmpty(r) => ~IsEmpty(Convert(c, r, from, to).r)
<1>1. PICK e : e = Convert(c, r, from, to)
  OBVIOUS
<1>2. e = [c |-> c, r |-> r] \/ \E i : e = Emit(c, i)
  BY <1>1 DEF Convert
<1>3. CASE e = [c |-> c, r |-> r]
  <2>1. e.c = c /\ e.r = r
    BY <1>3
  <2>. QED
    BY <1>1, <2>1, WritableLemma
<1>4. ASSUME NEW i, e = Emit(c, i)
      PROVE  Along(c, {}, e.c) /\ Len(e.c.blk) = Len(c.blk) /\ ~IsEmpty(e.r)
  <2>1. e.c = AddInstruction(c, i) /\ e.r = LastRef(AddInstruction(c, i))
    BY <1>4 DEF Emit
  <2>. QED
    BY <2>1, FurtherInstruction
<1>. QED
  BY <1>1, <1>2, <1>3, <1>4

\* The operations that add to a file of n blocks.
LEMMA FurtherOps ==
    ASSUME NEW c, Writable(c), NEW n, n = Len(c.blk)
    PROVE  /\ \A i : /\ Along(c, {}, Emit(c, i).c) /\ Len(Emit(c, i).c.blk) = n
                     /\ ~IsEmpty(Emit(c, i).r)
                     /\ i.ty = "never" => HasNever(Emit(c, i).c, c.cur)
           /\ \A i : /\ Along(c, {}, AddInstruction(c, i)) /\ Len(AddInstruction(c, i).blk) = n
                     /\ i.ty = "never" => HasNever(AddInstruction(c, i), c.cur)
           /\ \A r, from, to :
                     /\ Along(c, {}, Convert(c, r, from, to).c) /\ Len(Convert(c, r, from, to).c.blk) = n
                     /\ ~IsEmpty(r) => ~IsEmpty(Convert(c, r, from, to).r)
           /\ \A b \in 1..n : /\ Along(c, {}, CreateGoto(c, b)) /\ Len(CreateGoto(c, b).blk) = n
                              /\ HasNever(CreateGoto(c, b), c.cur)
           /\ \A cond : \A b1, b2 \in 1..n :
                 /\ Along(c, {}, CreateGotoIf(c, cond, b1, b2))
                 /\ Len(CreateGotoIf(c, cond, b1, b2).blk) = n
                 /\ HasNever(CreateGotoIf(c, cond, b1, b2), c.cur)
           /\ \A base : /\ Along(c, {n + 1}, Added(c, base)) /\ Len(Added(c, base).blk) = n + 1
                        /\ LastBlock(Added(c, base)) = n + 1 /\ InLast(Added(c, base), n + 1)
<1>0. n \in Nat /\ Along(c, {}, c)
  BY WritableLemma
<1>1. ASSUME NEW i
      PROVE  /\ Along(c, {}, AddInstruction(c, i)) /\ Len(AddInstruction(c, i).blk) = n
             /\ i.ty = "never" => HasNever(AddInstruction(c, i), c.cur)
             /\ Emit(c, i).c = AddInstruction(c, i) /\ ~IsEmpty(Emit(c, i).r)
  <2>1. Emit(c, i).c = AddInstruction(c, i) /\ Emit(c, i).r = LastRef(AddInstruction(c, i))
    BY DEF Emit
  <2>. QED
    BY <2>1, FurtherInstruction
<1>2. ASSUME NEW r, NEW from, NEW to
      PROVE  /\ Along(c, {}, Convert(c, r, from, to).c) /\ Len(Convert(c, r, from, to).c.blk) = n
             /\ ~IsEmpty(r) => ~IsEmpty(Convert(c, r, from, to).r)
  BY FurtherConvert
\* A branch: its instruction, after the predecessors of its targets.
<1>3. ASSUME NEW d, Along(c, {}, d), Len(d.blk) = n, NEW i, i.ty = "never",
             NEW e, e = AddInstruction(d, i)
      PROVE  Along(c, {}, e) /\ Len(e.blk) = n /\ HasNever(e, c.cur)
  <2>1. Writable(d) /\ d.cur = c.cur
    BY <1>3 DEF Along, Furthers
  <2>2. Along(d, {}, e) /\ Len(e.blk) = n /\ HasNever(e, c.cur)
    BY <1>3, <2>1, FurtherInstruction
  <2>3. Furthers(c, {}, d) /\ Furthers(d, {}, e)
    BY <1>3, <2>2 DEF Along
  <2>. QED
    BY <1>0, <1>3, <2>2, <2>3, FurtherLemma
<1>4. ASSUME NEW b \in 1..n
      PROVE  /\ Along(c, {}, CreateGoto(c, b)) /\ Len(CreateGoto(c, b).blk) = n
             /\ HasNever(CreateGoto(c, b), c.cur)
  <2>1. PICK d : d = AddPred(c, b, c.cur)
    OBVIOUS
  <2>2. Along(c, {}, d) /\ Len(d.blk) = n
    BY <2>1, FurtherBlock
  <2>3. CreateGoto(c, b) = AddInstruction(d, GotoInstr(b)) /\ GotoInstr(b).ty = "never"
    BY <2>1 DEF CreateGoto, GotoInstr
  <2>. QED
    BY <1>3, <2>2, <2>3
<1>5. ASSUME NEW cond, NEW b1 \in 1..n, NEW b2 \in 1..n
      PROVE  /\ Along(c, {}, CreateGotoIf(c, cond, b1, b2))
             /\ Len(CreateGotoIf(c, cond, b1, b2).blk) = n
             /\ HasNever(CreateGotoIf(c, cond, b1, b2), c.cur)
  <2>1. PICK d : d = AddPred(c, b1, c.cur)
    OBVIOUS
  <2>2. Along(c, {}, d) /\ Len(d.blk) = n
    BY <2>1, FurtherBlock
  <2>3. Writable(d) /\ Furthers(c, {}, d)
    BY <2>2 DEF Along, Furthers
  <2>4. PICK e : e = AddPred(d, b2, c.cur)
    OBVIOUS
  <2>5. Along(d, {}, e) /\ Len(e.blk) = n
    BY <2>2, <2>3, <2>4, FurtherBlock
  <2>6. Along(c, {}, e)
    <3>1. Furthers(d, {}, e)
      BY <2>5 DEF Along
    <3>. QED
      BY <1>0, <2>2, <2>3, <2>5, <3>1, FurtherLemma
  <2>7. /\ CreateGotoIf(c, cond, b1, b2) = AddInstruction(e, GotoIfInstr(cond, b1, b2))
        /\ GotoIfInstr(cond, b1, b2).ty = "never"
    BY <2>1, <2>4 DEF CreateGotoIf, GotoIfInstr
  <2>. QED
    BY <1>3, <2>5, <2>6, <2>7
<1>6. ASSUME NEW base
      PROVE  /\ Along(c, {n + 1}, Added(c, base)) /\ Len(Added(c, base).blk) = n + 1
             /\ LastBlock(Added(c, base)) = n + 1 /\ InLast(Added(c, base), n + 1)
  <2>1. PICK d : d = NewBlock(c, base)
    OBVIOUS
  <2>2. Along(c, {}, d) /\ Len(d.blk) = n + 1 /\ LastBlock(d) = n + 1
    BY <2>1, FurtherBlock
  <2>3. Writable(d) /\ Furthers(c, {}, d)
    BY <2>2 DEF Along, Furthers
  <2>4. PICK b : b = n + 1
    OBVIOUS
  <2>5. b \in 1..Len(d.blk)
    BY <1>0, <2>2, <2>4
  <2>6. PICK e : e = AddBasicBlock(d, b)
    OBVIOUS
  <2>7. Along(d, {b}, e) /\ Len(e.blk) = Len(d.blk) /\ InLast(e, b)
    BY <2>3, <2>5, <2>6, FurtherAdd
  <2>8. Furthers(d, {b}, e)
    BY <2>7 DEF Along
  <2>9. Along(c, {b}, e)
    BY <1>0, <2>2, <2>3, <2>7, <2>8, FurtherLemma
  <2>10. Added(c, base) = e
    BY <2>1, <2>2, <2>4, <2>6 DEF Added
  <2>. QED
    BY <2>2, <2>4, <2>7, <2>9, <2>10 DEF LastBlock
<1>. QED
  BY <1>1, <1>2, <1>4, <1>5, <1>6

-----------------------------------------------------------------------------
(* The invariant.                                                          *)

\* Activation f will go on in block b, which it has laid out already.
Resumes(f, b) ==
    /\ f.node.kind = "while"
    /\ \/ f.at = "cond" /\ b = f.body
       \/ f.at \in {"body", "endScope"} /\ b = f.after

\* The part of f that is being generated is said not to be left at its end:
\* f will not branch from there.
Over(S, f) ==
    \/ f.node.kind = "if" /\ f.at = "then" /\ Diverts(f.node.kids[2])
    \/ f.node.kind = "if" /\ f.at = "else" /\ Diverts(f.node.kids[3])
    \/ /\ \/ f.node.kind = "scope" /\ f.node \in S
          \/ f.node.kind = "function" /\ "Unreachable" \in f.node.contains
       /\ f.at = "endScope" \/ (f.at = "body" /\ f.i = Len(f.node.kids))

\* f waits for the value of n.
Awaits(S, f, n) ==
    /\ f.node.kind = "while" /\ f.at = "cond" => Answers(n)
    /\ Over(S, f) /\ f.at # "endScope" => n \in S

\* While a function is generated: each block has a never in it, is the one at
\* the insert point or waits for an activation to go on in it.
Flowing(S, Q) ==
    /\ Writable(cir)
    /\ \A b \in BlocksOf(cir) :
          HasNever(cir, b) \/ b = cir.cur \/ \E k \in DOMAIN frames : Resumes(frames[k], b)
    /\ scopes \in Seq(Seq(Q))
    /\ \A k \in DOMAIN frames :
          /\ frames[k].defers \in Seq(Q)
          /\ \A b : Resumes(frames[k], b) => InLast(cir, b)
          /\ Over(S, frames[k]) /\ (frames[k].at = "endScope" \/ k = Len(frames))
                => HasNever(cir, cir.cur)
          /\ k # Len(frames) => Awaits(S, frames[k], frames[k + 1].node)
          /\ IF k = 1 THEN frames[k].at = "args" \/ frames[k].node.kind = "function"
                      ELSE frames[k].node.kind = "function" => frames[k].at = "start"
          /\ frames[k].node.kind = "scope" /\ frames[k].at = "start" => frames[k].i = 0
    /\ \A j, k \in DOMAIN frames : j < k /\ frames[j].at = "endScope" => frames[k].node \in Q
    /\ Top.node.kind = "while" /\ Top.at = "cond" => ~IsEmpty(ret)

\* A method is in progress.
Writing(S, Q) == IInv /\ Flowing(S, Q) /\ status = "gen" /\ frames # << >>

\* What it finds.
LEMMA WritingLemma ==
    ASSUME NEW S, NEW Q, Writing(S, Q), NEW m, m = Len(frames)
    PROVE  /\ m \in Nat /\ m > 0 /\ DOMAIN frames = 1..m /\ Top = frames[m]
           /\ frames \in Seq(FrameType(Len(cir.blk))) /\ Top \in FrameType(Len(cir.blk))
           /\ Writable(cir) /\ Along(cir, {}, cir) /\ Len(cir.blk) \in Nat
           /\ Over(S, Top) => HasNever(cir, cir.cur)
           /\ Top.defers \in Seq(Q) /\ scopes \in Seq(Seq(Q)) /\ Len(scopes) \in Nat
           /\ \A b : Resumes(Top, b) => InLast(cir, b)
           /\ Top.node.kind = "while" /\ Top.at = "cond" => ~IsEmpty(ret)
           /\ Top.node.kind = "function" /\ Top.at # "start" => m = 1
           /\ Top.node.kind = "scope" /\ Top.at = "start" => Top.i = 0
<1>1. IInv /\ Flowing(S, Q) /\ status = "gen" /\ frames # << >>
  BY DEF Writing
<1>2. frames \in Seq(FrameType(Len(cir.blk))) /\ Top \in FrameType(Len(cir.blk))
  BY <1>1, InsideLemma
<1>3. m \in Nat /\ m > 0 /\ DOMAIN frames = 1..m /\ Top = frames[m] /\ m \in DOMAIN frames
  BY <1>1, <1>2, StackLemma DEF Top
<1>4. Writable(cir) /\ Along(cir, {}, cir) /\ Len(cir.blk) \in Nat
  BY <1>1, WritableLemma DEF Flowing
<1>5. /\ Over(S, Top) => HasNever(cir, cir.cur)
      /\ Top.defers \in Seq(Q) /\ scopes \in Seq(Seq(Q))
      /\ \A b : Resumes(Top, b) => InLast(cir, b)
      /\ Top.node.kind = "while" /\ Top.at = "cond" => ~IsEmpty(ret)
      /\ Top.node.kind = "function" /\ Top.at # "start" => m = 1
      /\ Top.node.kind = "scope" /\ Top.at = "start" => Top.i = 0
  BY <1>1, <1>3 DEF Flowing
<1>6. Len(scopes) \in Nat
  BY <1>5
<1>. QED
  BY <1>2, <1>3, <1>4, <1>5, <1>6

\* A method returns.
LEMMA LeaveFlowing ==
    ASSUME NEW S, NEW Q, Writing(S, Q), frames' = Front(frames), NEW X, Furthers(cir, X, cir'),
           \A b : b \in X \/ b = cir.cur \/ Resumes(Top, b) => HasNever(cir', b) \/ b = cir'.cur,
           Top.node \in S => HasNever(cir', cir'.cur),
           Top.node \in Q => cir'.cur = cir.cur,
           Answers(Top.node) => ~IsEmpty(ret'),
           scopes' \in Seq(Seq(Q)), Top.node.kind # "function", Top.at # "args"
    PROVE  Flowing(S, Q)' /\ frames' # << >>
<1>. DEFINE n == Len(cir.blk)
<1>1. PICK m : m = Len(frames)
  OBVIOUS
<1>2. /\ m \in Nat /\ m > 0 /\ DOMAIN frames = 1..m /\ Top = frames[m]
      /\ frames \in Seq(FrameType(n)) /\ frames # << >> /\ Writable(cir) /\ n \in Nat
  BY <1>1, WritingLemma DEF Writing
<1>3. /\ \A b \in BlocksOf(cir) :
            HasNever(cir, b) \/ b = cir.cur \/ \E k \in 1..m : Resumes(frames[k], b)
      /\ \A k \in 1..m :
            /\ frames[k].defers \in Seq(Q)
            /\ \A b : Resumes(frames[k], b) => InLast(cir, b)
            /\ Over(S, frames[k]) /\ (frames[k].at = "endScope" \/ k = m) => HasNever(cir, cir.cur)
            /\ k # m => Awaits(S, frames[k], frames[k + 1].node)
            /\ IF k = 1 THEN frames[k].at = "args" \/ frames[k].node.kind = "function"
                        ELSE frames[k].node.kind = "function" => frames[k].at = "start"
            /\ frames[k].node.kind = "scope" /\ frames[k].at = "start" => frames[k].i = 0
      /\ \A j, k \in 1..m : j < k /\ frames[j].at = "endScope" => frames[k].node \in Q
  BY <1>1, <1>2 DEF Writing, Flowing
<1>4. /\ frames' \in Seq(FrameType(n)) /\ Len(frames') = m - 1
      /\ \A k \in 1..(m - 1) : frames'[k] = frames[k]
  <2>1. frames' = Front(frames)
    OBVIOUS
  <2>. QED
    BY ONLY <1>1, <1>2, <2>1, StackLemma
<1>. HIDE DEF n
<1>5. m # 1
  BY <1>2, <1>3
<1>6. /\ DOMAIN frames' = 1..(m - 1) /\ frames' # << >> /\ m - 1 \in 1..(m - 1) /\ m - 1 \in 1..m
      /\ m \in 1..m /\ m - 1 < m /\ m - 1 # m /\ (m - 1) + 1 = m
      /\ \A k \in 1..(m - 1) : k \in 1..m /\ k # m /\ k < m
  BY <1>2, <1>4, <1>5
<1>7. Last(frames') = frames[m - 1]
  BY <1>4, <1>6 DEF Last
<1>8. /\ Writable(cir') /\ n <= Len(cir'.blk)
      /\ \A b \in 1..n : HasNever(cir, b) => HasNever(cir', b)
      /\ \A b : InLast(cir, b) => InLast(cir', b)
      /\ \A b \in BlocksOf(cir') : b \in BlocksOf(cir) \/ b \in X
  BY DEF Furthers, n
<1>9. BlocksOf(cir) \subseteq 1..n /\ cir.cur \in 1..n
  BY <1>2, WritableLemma DEF n
<1>10. ASSUME NEW b \in BlocksOf(cir')
       PROVE  HasNever(cir', b) \/ b = cir'.cur \/ \E k \in DOMAIN frames' : Resumes(frames'[k], b)
  <2>1. CASE b \in X \/ b = cir.cur \/ Resumes(Top, b)
    BY <2>1
  <2>2. CASE ~(b \in X \/ b = cir.cur \/ Resumes(Top, b))
    <3>1. b \in BlocksOf(cir) /\ b \in 1..n
      BY <1>8, <1>9, <2>2
    <3>2. HasNever(cir, b) \/ \E k \in 1..m : Resumes(frames[k], b)
      BY <1>3, <2>2, <3>1
    <3>3. ASSUME NEW k \in 1..m, Resumes(frames[k], b)
          PROVE  \E j \in DOMAIN frames' : Resumes(frames'[j], b)
      <4>1. k # m
        BY <1>2, <2>2, <3>3
      <4>2. k \in 1..(m - 1)
        BY <1>2, <4>1
      <4>. QED
        BY <1>4, <1>6, <3>3, <4>2
    <3>. QED
      BY <1>8, <3>1, <3>2, <3>3
  <2>. QED
    BY <2>1, <2>2
\* The activation below goes on.
<1>11. ASSUME NEW k \in DOMAIN frames'
       PROVE  /\ frames'[k].defers \in Seq(Q)
              /\ \A b : Resumes(frames'[k], b) => InLast(cir', b)
              /\ Over(S, frames'[k]) /\ (frames'[k].at = "endScope" \/ k = Len(frames'))
                    => HasNever(cir', cir'.cur)
              /\ k # Len(frames') => Awaits(S, frames'[k], frames'[k + 1].node)
              /\ IF k = 1 THEN frames'[k].at = "args" \/ frames'[k].node.kind = "function"
                          ELSE frames'[k].node.kind = "function" => frames'[k].at = "start"
              /\ frames'[k].node.kind = "scope" /\ frames'[k].at = "start" => frames'[k].i = 0
  <2>1. k \in 1..(m - 1) /\ frames'[k] = frames[k] /\ k \in 1..m /\ k # m /\ k < m
    BY <1>4, <1>6
  <2>2. ASSUME Over(S, frames[k]), frames[k].at = "endScope"
        PROVE  HasNever(cir', cir'.cur)
    <3>1. HasNever(cir, cir.cur) /\ Top.node \in Q
      BY <1>2, <1>3, <1>6, <2>1, <2>2
    <3>. QED
      BY <1>8, <1>9, <3>1
  <2>3. ASSUME Over(S, frames[k]), frames[k].at # "endScope", k = m - 1
        PROVE  HasNever(cir', cir'.cur)
    <3>1. Awaits(S, frames[k], Top.node)
      BY <1>2, <1>3, <1>6, <2>1, <2>3
    <3>. QED
      BY <2>3, <3>1 DEF Awaits
  <2>4. k # m - 1 => k + 1 \in 1..(m - 1)
    <3>1. m \in Nat /\ k \in 1..(m - 1)
      BY <1>2, <2>1
    <3>. QED
      BY ONLY <3>1
  <2>5. /\ frames[k].defers \in Seq(Q)
        /\ \A b : Resumes(frames[k], b) => InLast(cir, b)
        /\ k # m => Awaits(S, frames[k], frames[k + 1].node)
        /\ IF k = 1 THEN frames[k].at = "args" \/ frames[k].node.kind = "function"
                    ELSE frames[k].node.kind = "function" => frames[k].at = "start"
        /\ frames[k].node.kind = "scope" /\ frames[k].at = "start" => frames[k].i = 0
    BY <1>3, <2>1
  <2>6. \A b : Resumes(frames'[k], b) => InLast(cir', b)
    BY <1>8, <2>1, <2>5
  <2>7. Over(S, frames'[k]) /\ (frames'[k].at = "endScope" \/ k = Len(frames'))
           => HasNever(cir', cir'.cur)
    BY <1>4, <2>1, <2>2, <2>3
  <2>8. k # Len(frames') => Awaits(S, frames'[k], frames'[k + 1].node)
    BY <1>4, <2>1, <2>4, <2>5
  <2>. QED
    BY ONLY <2>1, <2>5, <2>6, <2>7, <2>8
<1>12. \A j, k \in DOMAIN frames' : j < k /\ frames'[j].at = "endScope" => frames'[k].node \in Q
  BY ONLY <1>3, <1>4, <1>6
<1>13. Last(frames').node.kind = "while" /\ Last(frames').at = "cond" => ~IsEmpty(ret')
  <2>1. Awaits(S, frames[m - 1], Top.node)
    BY <1>2, <1>3, <1>6
  <2>. QED
    BY <1>7, <2>1 DEF Awaits
<1>14. Flowing(S, Q)'
  BY ONLY <1>8, <1>10, <1>11, <1>12, <1>13, scopes' \in Seq(Seq(Q))
     DEF Flowing, Writable, Shaped, InLast, HasNever, BlocksOf, Resumes, Over, Awaits, Answers, Diverts, Top
<1>. QED
  BY <1>6, <1>14

\* A method goes on as f, or calls another one for e.
LEMMA GoOnFlowing ==
    ASSUME NEW S, NEW Q, Writing(S, Q), NEW X, Furthers(cir, X, cir'),
           NEW f, f.node = Top.node, NEW e, Stay(f) \/ Enter(f, e),
           \A b : b \in X \/ b = cir.cur \/ Resumes(Top, b)
                    => HasNever(cir', b) \/ b = cir'.cur \/ Resumes(f, b),
           \A b : Resumes(f, b) => InLast(cir', b),
           Top.node \in Q => cir'.cur = cir.cur,
           scopes' \in Seq(Seq(Q)), f.defers \in Seq(Q),
           Top.node.kind # "function" => Top.at # "args",
           Top.node.kind = "function" => Top.at # "start",
           f.node.kind = "scope" => f.at # "start",
           Over(S, f) /\ (f.at = "endScope" \/ Stay(f)) => HasNever(cir', cir'.cur),
           Stay(f) => ~(f.node.kind = "while" /\ f.at = "cond"),
           Enter(f, e) => /\ Awaits(S, f, e)
                          /\ f.at = "endScope" \/ f.node \in Q => e \in Q
    PROVE  Flowing(S, Q)' /\ frames' # << >>
<1>. DEFINE n == Len(cir.blk)
<1>1. PICK m : m = Len(frames)
  OBVIOUS
<1>2. /\ m \in Nat /\ m > 0 /\ DOMAIN frames = 1..m /\ Top = frames[m]
      /\ frames \in Seq(FrameType(n)) /\ frames # << >> /\ Writable(cir) /\ n \in Nat
      /\ Top.node.kind = "function" => m = 1
  BY <1>1, WritingLemma DEF Writing
<1>3. /\ \A b \in BlocksOf(cir) :
            HasNever(cir, b) \/ b = cir.cur \/ \E k \in 1..m : Resumes(frames[k], b)
      /\ \A k \in 1..m :
            /\ frames[k].defers \in Seq(Q)
            /\ \A b : Resumes(frames[k], b) => InLast(cir, b)
            /\ Over(S, frames[k]) /\ (frames[k].at = "endScope" \/ k = m) => HasNever(cir, cir.cur)
            /\ k # m => Awaits(S, frames[k], frames[k + 1].node)
            /\ IF k = 1 THEN frames[k].at = "args" \/ frames[k].node.kind = "function"
                        ELSE frames[k].node.kind = "function" => frames[k].at = "start"
            /\ frames[k].node.kind = "scope" /\ frames[k].at = "start" => frames[k].i = 0
      /\ \A j, k \in 1..m : j < k /\ frames[j].at = "endScope" => frames[k].node \in Q
  BY <1>1, <1>2 DEF Writing, Flowing
<1>. HIDE DEF n
<1>4. PICK g : g = Activation(e, breaks', Len(scopes'))
  OBVIOUS
<1>5. /\ \A k \in 1..(m - 1) : frames'[k] = frames[k]
      /\ frames'[m] = f
      /\ \/ Stay(f) /\ DOMAIN frames' = 1..m /\ Len(frames') = m
         \/ Enter(f, e) /\ DOMAIN frames' = 1..(m + 1) /\ Len(frames') = m + 1 /\ frames'[m + 1] = g
  <2>1. CASE Stay(f)
    <3>. DEFINE F == FrameType(n) \union {f}
    <3>1. frames \in Seq(F) /\ f \in F
      BY <1>2
    <3>. HIDE DEF F
    <3>2. frames' = Append(Front(frames), f)
      BY <2>1 DEF Stay
    <3>3. /\ Append(Front(frames), f) \in Seq(F) /\ Len(Append(Front(frames), f)) = m
          /\ \A k \in 1..(m - 1) : Append(Front(frames), f)[k] = frames[k]
          /\ Append(Front(frames), f)[m] = f
      BY <1>1, <1>2, <3>1, ReplaceLemma
    <3>4. frames' \in Seq(F) /\ Len(frames') = m
      BY <3>2, <3>3
    <3>5. DOMAIN frames' = 1..m
      BY <3>4
    <3>. QED
      BY <2>1, <3>2, <3>3, <3>4, <3>5
  <2>2. CASE Enter(f, e)
    <3>1. frames' = Front(frames) \o <<f, g>>
      BY <1>4, <2>2 DEF Enter
    <3>. DEFINE F == FrameType(n) \union {f, g}
    <3>2. frames \in Seq(F) /\ f \in F /\ g \in F
      BY <1>2
    <3>. HIDE DEF F
    <3>3. /\ Front(frames) \o <<f, g>> \in Seq(F) /\ Len(Front(frames) \o <<f, g>>) = m + 1
          /\ \A k \in 1..(m - 1) : (Front(frames) \o <<f, g>>)[k] = frames[k]
          /\ (Front(frames) \o <<f, g>>)[m] = f
          /\ (Front(frames) \o <<f, g>>)[m + 1] = g
      BY ONLY <1>1, <1>2, <3>2, PushLemma
    <3>4. frames' \in Seq(F) /\ Len(frames') = m + 1
      BY <3>1, <3>3
    <3>5. DOMAIN frames' = 1..(m + 1)
      BY <1>2, <3>4
    <3>. QED
      BY <2>2, <3>1, <3>3, <3>4, <3>5
  <2>. QED
    BY <2>1, <2>2
<1>6. /\ g.node = e /\ g.at = "start" /\ g.i = 0 /\ g.defers = << >>
      /\ ~Over(S, g) /\ \A b : ~Resumes(g, b)
  <2>1. g.node = e /\ g.at = "start" /\ g.i = 0 /\ g.defers = << >>
    BY <1>4 DEF Activation
  <2>. QED
    BY <2>1 DEF Over, Resumes
<1>7. /\ Writable(cir') /\ n <= Len(cir'.blk)
      /\ \A b \in 1..n : HasNever(cir, b) => HasNever(cir', b)
      /\ \A b : InLast(cir, b) => InLast(cir', b)
      /\ \A b \in BlocksOf(cir') : b \in BlocksOf(cir) \/ b \in X
  BY DEF Furthers, n
<1>8. BlocksOf(cir) \subseteq 1..n /\ cir.cur \in 1..n
  BY <1>2, WritableLemma DEF n
<1>9. /\ \A k \in DOMAIN frames' : k \in 1..m \/ (k = m + 1 /\ Enter(f, e) /\ frames'[k] = g)
      /\ 1..m \subseteq DOMAIN frames' /\ m \in 1..m /\ frames' # << >>
      /\ \A k \in 1..m : k # m => k \in 1..(m - 1) /\ k < m /\ k + 1 \in 1..m
      /\ Len(frames') \in {m, m + 1}
  BY <1>2, <1>5
<1>10. ASSUME NEW b \in BlocksOf(cir')
       PROVE  HasNever(cir', b) \/ b = cir'.cur \/ \E k \in DOMAIN frames' : Resumes(frames'[k], b)
  <2>1. CASE b \in X \/ b = cir.cur \/ Resumes(Top, b)
    BY <1>5, <1>9, <2>1
  <2>2. CASE ~(b \in X \/ b = cir.cur \/ Resumes(Top, b))
    <3>1. b \in BlocksOf(cir) /\ b \in 1..n
      BY <1>7, <1>8, <2>2
    <3>2. HasNever(cir, b) \/ \E k \in 1..m : Resumes(frames[k], b)
      BY <1>3, <2>2, <3>1
    <3>3. ASSUME NEW k \in 1..m, Resumes(frames[k], b)
          PROVE  \E j \in DOMAIN frames' : Resumes(frames'[j], b)
      <4>1. k # m
        BY <1>2, <2>2, <3>3
      <4>2. k \in 1..(m - 1) /\ k \in DOMAIN frames'
        BY <1>9, <4>1
      <4>. QED
        BY <1>5, <3>3, <4>2
    <3>. QED
      BY <1>7, <3>1, <3>2, <3>3
  <2>. QED
    BY <2>1, <2>2
\* What an activation below is in the middle of.
<1>11. ASSUME NEW k \in 1..m, k # m
       PROVE  /\ frames'[k].defers \in Seq(Q)
              /\ \A b : Resumes(frames'[k], b) => InLast(cir', b)
              /\ Over(S, frames'[k]) /\ (frames'[k].at = "endScope" \/ k = Len(frames'))
                    => HasNever(cir', cir'.cur)
              /\ k # Len(frames') => Awaits(S, frames'[k], frames'[k + 1].node)
              /\ IF k = 1 THEN frames'[k].at = "args" \/ frames'[k].node.kind = "function"
                          ELSE frames'[k].node.kind = "function" => frames'[k].at = "start"
              /\ frames'[k].node.kind = "scope" /\ frames'[k].at = "start" => frames'[k].i = 0
  <2>1. k \in 1..(m - 1) /\ frames'[k] = frames[k] /\ k < m /\ k + 1 \in 1..m /\ k # Len(frames')
    BY <1>2, <1>5, <1>9, <1>11
  <2>2. ASSUME Over(S, frames[k]), frames[k].at = "endScope"
        PROVE  HasNever(cir', cir'.cur)
    <3>1. HasNever(cir, cir.cur) /\ Top.node \in Q
      BY <1>2, <1>3, <1>9, <2>1, <2>2
    <3>. QED
      BY <1>7, <1>8, <3>1
  <2>3. /\ frames[k].defers \in Seq(Q)
        /\ \A b : Resumes(frames[k], b) => InLast(cir, b)
        /\ Awaits(S, frames[k], frames[k + 1].node)
        /\ IF k = 1 THEN frames[k].at = "args" \/ frames[k].node.kind = "function"
                    ELSE frames[k].node.kind = "function" => frames[k].at = "start"
        /\ frames[k].node.kind = "scope" /\ frames[k].at = "start" => frames[k].i = 0
    BY <1>3, <1>11
  <2>4. frames'[k + 1].node = frames[k + 1].node
    <3>1. CASE k + 1 = m
      BY <1>2, <1>5, <3>1
    <3>2. CASE k + 1 # m
      <4>1. k + 1 \in 1..(m - 1)
        BY <1>2, <2>1, <3>2
      <4>. QED
        BY <1>5, <4>1
    <3>. QED
      BY <3>1, <3>2
  <2>5. \A b : Resumes(frames'[k], b) => InLast(cir', b)
    BY <1>7, <2>1, <2>3
  <2>. QED
    BY ONLY <2>1, <2>2, <2>3, <2>4, <2>5
<1>12. ASSUME NEW k \in DOMAIN frames'
       PROVE  /\ frames'[k].defers \in Seq(Q)
              /\ \A b : Resumes(frames'[k], b) => InLast(cir', b)
              /\ Over(S, frames'[k]) /\ (frames'[k].at = "endScope" \/ k = Len(frames'))
                    => HasNever(cir', cir'.cur)
              /\ k # Len(frames') => Awaits(S, frames'[k], frames'[k + 1].node)
              /\ IF k = 1 THEN frames'[k].at = "args" \/ frames'[k].node.kind = "function"
                          ELSE frames'[k].node.kind = "function" => frames'[k].at = "start"
              /\ frames'[k].node.kind = "scope" /\ frames'[k].at = "start" => frames'[k].i = 0
  <2>1. CASE k = m
    <3>1. frames'[k] = f
      BY <1>5, <2>1
    <3>2. /\ Over(S, f) /\ (f.at = "endScope" \/ k = Len(frames')) => HasNever(cir', cir'.cur)
          /\ k # Len(frames') => Awaits(S, f, frames'[k + 1].node)
      <4>1. CASE Stay(f) /\ Len(frames') = m
        BY <2>1, <4>1
      <4>2. CASE Enter(f, e) /\ Len(frames') = m + 1 /\ frames'[m + 1] = g
        BY <1>2, <1>6, <2>1, <4>2
      <4>. QED
        BY <1>5, <4>1, <4>2
    <3>3. IF k = 1 THEN f.at = "args" \/ f.node.kind = "function"
                   ELSE f.node.kind = "function" => f.at = "start"
      <4>1. IF m = 1 THEN Top.at = "args" \/ Top.node.kind = "function"
                     ELSE Top.node.kind = "function" => Top.at = "start"
        BY <1>2, <1>3, <1>9
      <4>. QED
        BY <1>2, <2>1, <4>1
    <3>. QED
      BY ONLY <3>1, <3>2, <3>3, f.defers \in Seq(Q), \A b : Resumes(f, b) => InLast(cir', b),
              f.node.kind = "scope" => f.at # "start"
  <2>2. CASE k # m /\ k \in 1..m
    BY <1>11, <2>2
  <2>3. CASE k = m + 1 /\ Enter(f, e) /\ frames'[k] = g
    <3>1. k = Len(frames') /\ k # 1
      BY <1>2, <1>5, <1>9, <2>3
    <3>2. << >> \in Seq(Q)
      OBVIOUS
    <3>. QED
      BY <1>6, <2>3, <3>1, <3>2
  <2>. QED
    BY <1>9, <2>1, <2>2, <2>3
<1>13. ASSUME NEW j \in DOMAIN frames', NEW k \in DOMAIN frames', j < k, frames'[j].at = "endScope"
       PROVE  frames'[k].node \in Q
  <2>1. CASE k \in 1..m
    <3>1. j \in 1..m /\ j # m /\ frames'[j] = frames[j]
      BY <1>2, <1>5, <1>9, <1>13, <2>1
    <3>2. frames[k].node \in Q
      BY <1>3, <1>13, <2>1, <3>1
    <3>3. frames'[k].node = frames[k].node
      BY <1>2, <1>5, <1>9, <2>1
    <3>. QED
      BY <3>2, <3>3
  <2>2. CASE k = m + 1 /\ Enter(f, e) /\ frames'[k] = g
    <3>1. CASE j = m
      BY <1>5, <1>6, <1>13, <2>2, <3>1
    <3>2. CASE j # m
      <4>1. j \in 1..m /\ j < m /\ frames'[j] = frames[j]
        BY <1>2, <1>5, <1>9, <1>13, <2>2, <3>2
      <4>2. Top.node \in Q
        BY <1>2, <1>3, <1>9, <1>13, <4>1
      <4>. QED
        BY <1>6, <2>2, <4>2
    <3>. QED
      BY <3>1, <3>2
  <2>. QED
    BY <1>9, <2>1, <2>2
<1>14. Last(frames').node.kind = "while" /\ Last(frames').at = "cond" => ~IsEmpty(ret')
  <2>1. CASE Stay(f) /\ Len(frames') = m
    BY <1>5, <2>1 DEF Last
  <2>2. CASE Len(frames') = m + 1 /\ frames'[m + 1] = g
    BY <1>6, <2>2 DEF Last
  <2>. QED
    BY <1>5, <2>1, <2>2
<1>15. Flowing(S, Q)'
  BY ONLY <1>7, <1>10, <1>12, <1>13, <1>14, scopes' \in Seq(Seq(Q))
     DEF Flowing, Writable, Shaped, InLast, HasNever, BlocksOf, Resumes, Over, Awaits, Answers, Diverts, Top
<1>. QED
  BY <1>9, <1>15

-----------------------------------------------------------------------------
(* The actions of a method.                                                *)

\* The function goes on, or there is an error.
Proceeds(S, Q) ==
    errors' \/ status' = "aborted" \/ (status' = "gen" /\ frames' # << >> /\ Flowing(S, Q)')

\* The operations, on a file d made from c.
LEMMA AlongOps ==
    ASSUME NEW c, Len(c.blk) \in Nat, NEW X, NEW d, Along(c, X, d), NEW n, n = Len(d.blk)
    PROVE  /\ Writable(d) /\ d.cur = c.cur /\ n \in Nat
           /\ \A i : /\ Along(c, X, Emit(d, i).c) /\ Len(Emit(d, i).c.blk) = n
                     /\ ~IsEmpty(Emit(d, i).r)
                     /\ i.ty = "never" => HasNever(Emit(d, i).c, c.cur)
                     /\ \A b \in 1..n : HasNever(d, b) => HasNever(Emit(d, i).c, b)
           /\ \A i : /\ Along(c, X, AddInstruction(d, i)) /\ Len(AddInstruction(d, i).blk) = n
                     /\ i.ty = "never" => HasNever(AddInstruction(d, i), c.cur)
           /\ \A r, from, to :
                     /\ Along(c, X, Convert(d, r, from, to).c) /\ Len(Convert(d, r, from, to).c.blk) = n
                     /\ ~IsEmpty(r) => ~IsEmpty(Convert(d, r, from, to).r)
                     /\ \A b \in 1..n : HasNever(d, b) => HasNever(Convert(d, r, from, to).c, b)
           /\ \A b \in 1..n : /\ Along(c, X, CreateGoto(d, b)) /\ Len(CreateGoto(d, b).blk) = n
                              /\ HasNever(CreateGoto(d, b), c.cur)
                              /\ \A k \in 1..n : HasNever(d, k) => HasNever(CreateGoto(d, b), k)
           /\ \A cond : \A b1, b2 \in 1..n :
                 /\ Along(c, X, CreateGotoIf(d, cond, b1, b2))
                 /\ Len(CreateGotoIf(d, cond, b1, b2).blk) = n
                 /\ HasNever(CreateGotoIf(d, cond, b1, b2), c.cur)
<1>1. Writable(d) /\ d.cur = c.cur /\ n \in Nat /\ Furthers(c, X, d)
  BY DEF Along, Furthers
<1>2. ASSUME NEW e, Along(d, {}, e)
      PROVE  Along(c, X, e) /\ \A b \in 1..n : HasNever(d, b) => HasNever(e, b)
  <2>1. Furthers(d, {}, e)
    BY <1>2 DEF Along
  <2>. QED
    BY <1>1, <1>2, <2>1, FurtherLemma DEF Furthers
<1>3. ASSUME NEW i
      PROVE  /\ Along(c, X, Emit(d, i).c) /\ Len(Emit(d, i).c.blk) = n
             /\ ~IsEmpty(Emit(d, i).r)
             /\ i.ty = "never" => HasNever(Emit(d, i).c, c.cur)
             /\ \A b \in 1..n : HasNever(d, b) => HasNever(Emit(d, i).c, b)
             /\ Along(c, X, AddInstruction(d, i)) /\ Len(AddInstruction(d, i).blk) = n
             /\ i.ty = "never" => HasNever(AddInstruction(d, i), c.cur)
  <2>1. PICK e, g : e = Emit(d, i).c /\ g = AddInstruction(d, i)
    OBVIOUS
  <2>2. /\ Along(d, {}, e) /\ Len(e.blk) = n /\ ~IsEmpty(Emit(d, i).r)
        /\ i.ty = "never" => HasNever(e, c.cur)
        /\ Along(d, {}, g) /\ Len(g.blk) = n /\ (i.ty = "never" => HasNever(g, c.cur))
    <3>1. e = g /\ Emit(d, i).r = LastRef(g)
      BY <2>1 DEF Emit
    <3>. QED
      BY ONLY <1>1, <2>1, <3>1, n = Len(d.blk), FurtherInstruction
  <2>. QED
    BY <1>2, <2>1, <2>2
<1>4. ASSUME NEW r, NEW from, NEW to
      PROVE  /\ Along(c, X, Convert(d, r, from, to).c) /\ Len(Convert(d, r, from, to).c.blk) = n
             /\ ~IsEmpty(r) => ~IsEmpty(Convert(d, r, from, to).r)
             /\ \A b \in 1..n : HasNever(d, b) => HasNever(Convert(d, r, from, to).c, b)
  <2>1. PICK e : e = Convert(d, r, from, to).c
    OBVIOUS
  <2>2. Along(d, {}, e) /\ Len(e.blk) = n /\ (~IsEmpty(r) => ~IsEmpty(Convert(d, r, from, to).r))
    BY <1>1, <2>1, FurtherConvert
  <2>. QED
    BY <1>2, <2>1, <2>2
<1>5. ASSUME NEW b \in 1..n
      PROVE  /\ Along(c, X, CreateGoto(d, b)) /\ Len(CreateGoto(d, b).blk) = n
             /\ HasNever(CreateGoto(d, b), c.cur)
             /\ \A k \in 1..n : HasNever(d, k) => HasNever(CreateGoto(d, b), k)
  <2>1. PICK e : e = CreateGoto(d, b)
    OBVIOUS
  <2>2. Along(d, {}, e) /\ Len(e.blk) = n /\ HasNever(e, c.cur)
    BY <1>1, <2>1, FurtherOps
  <2>. QED
    BY <1>2, <2>1, <2>2
<1>6. ASSUME NEW cond, NEW b1 \in 1..n, NEW b2 \in 1..n
      PROVE  /\ Along(c, X, CreateGotoIf(d, cond, b1, b2))
             /\ Len(CreateGotoIf(d, cond, b1, b2).blk) = n
             /\ HasNever(CreateGotoIf(d, cond, b1, b2), c.cur)
  <2>1. PICK e : e = CreateGotoIf(d, cond, b1, b2)
    OBVIOUS
  <2>2. Along(d, {}, e) /\ Len(e.blk) = n /\ HasNever(e, c.cur)
    <3>1. /\ Along(d, {}, CreateGotoIf(d, cond, b1, b2))
          /\ Len(CreateGotoIf(d, cond, b1, b2).blk) = n
          /\ HasNever(CreateGotoIf(d, cond, b1, b2), d.cur)
      BY ONLY <1>1, n = Len(d.blk), b1 \in 1..n, b2 \in 1..n, FurtherOps
    <3>. QED
      BY <1>1, <2>1, <3>1
  <2>. QED
    BY <1>2, <2>1, <2>2
<1>. QED
  BY <1>1, <1>3, <1>4, <1>5, <1>6

\* A conversion, in a file d made from c.
LEMMA AlongConvert ==
    ASSUME NEW c, Len(c.blk) \in Nat, NEW X, NEW d, Along(c, X, d), NEW r, NEW from, NEW to
    PROVE  /\ Along(c, X, Convert(d, r, from, to).c)
           /\ ~IsEmpty(r) => ~IsEmpty(Convert(d, r, from, to).r)
  BY AlongOps

\* A branch, in a file d made from c.
LEMMA AlongGoto ==
    ASSUME NEW c, Len(c.blk) \in Nat, NEW X, NEW d, Along(c, X, d), NEW b \in 1..Len(d.blk),
           NEW e, e = CreateGoto(d, b)
    PROVE  Along(c, X, e) /\ Len(e.blk) = Len(d.blk) /\ HasNever(e, c.cur)
<1>1. PICK n : n = Len(d.blk)
  OBVIOUS
<1>2. Writable(d) /\ d.cur = c.cur /\ n \in Nat /\ Furthers(c, X, d) /\ b \in 1..n
  BY <1>1 DEF Along, Furthers
<1>3. Along(d, {}, e) /\ Len(e.blk) = n /\ HasNever(e, c.cur)
  BY <1>1, <1>2, FurtherOps
<1>4. Furthers(d, {}, e)
  BY <1>3 DEF Along
<1>. QED
  BY <1>1, <1>2, <1>3, <1>4, FurtherLemma

\* A method that is no loop returns.
LEMMA LeaveAlong ==
    ASSUME NEW S, NEW Q, Writing(S, Q), status' = "gen", frames' = Front(frames), Along(cir, {}, cir'),
           Top.node.kind \notin {"while", "function"}, Top.at # "args",
           Top.node \in S => HasNever(cir', cir.cur),
           Answers(Top.node) => ~IsEmpty(ret'), scopes' \in Seq(Seq(Q))
    PROVE  Proceeds(S, Q)
<1>1. Furthers(cir, {}, cir') /\ cir'.cur = cir.cur
  BY DEF Along
<1>2. \A b : ~Resumes(Top, b)
  BY DEF Resumes
<1>3. Flowing(S, Q)' /\ frames' # << >>
  BY <1>1, <1>2, LeaveFlowing
<1>. QED
  BY <1>3 DEF Proceeds

\* It returns the instruction it makes last.
LEMMA EmitAlong ==
    ASSUME NEW S, NEW Q, Writing(S, Q), status' = "gen", NEW c, Along(cir, {}, c), NEW i, EmitAndLeave(c, i),
           Top.node.kind \notin {"while", "function"}, Top.at # "args",
           Top.node \in S => i.ty = "never" \/ HasNever(c, cir.cur), scopes' \in Seq(Seq(Q))
    PROVE  Proceeds(S, Q)
<1>1. Len(cir.blk) \in Nat /\ Writable(cir)
  BY WritingLemma
<1>2. PICK d : d = Emit(c, i)
  OBVIOUS
<1>3. cir' = d.c /\ ret' = d.r /\ frames' = Front(frames)
  BY <1>2 DEF EmitAndLeave, Leave
<1>4. PICK n : n = Len(c.blk)
  OBVIOUS
<1>5. /\ Along(cir, {}, d.c) /\ ~IsEmpty(d.r)
      /\ i.ty = "never" => HasNever(d.c, cir.cur)
      /\ \A b \in 1..n : HasNever(c, b) => HasNever(d.c, b)
  BY <1>1, <1>2, <1>4, AlongOps
<1>6. cir.cur \in 1..n
  <2>1. Writable(c) /\ c.cur = cir.cur
    BY DEF Along, Furthers
  <2>. QED
    BY <1>4, <2>1, WritableLemma
<1>7. Top.node \in S => HasNever(cir', cir.cur)
  BY <1>3, <1>5, <1>6
<1>. QED
  BY <1>3, <1>5, <1>7, LeaveAlong

\* It goes on where it is, or calls another one.
LEMMA GoOnAlong ==
    ASSUME NEW S, NEW Q, Writing(S, Q), status' = "gen", Along(cir, {}, cir'),
           NEW f, f.node = Top.node, f.defers \in Seq(Q), NEW e, Stay(f) \/ Enter(f, e),
           Top.node.kind = "while" =>
               Top.at \in {"body", "endScope"} /\ f.at = "endScope" /\ f.after = Top.after,
           Top.node.kind # "function" => Top.at # "args",
           Top.node.kind = "function" => Top.at # "start",
           f.node.kind = "scope" => f.at # "start",
           scopes' \in Seq(Seq(Q)),
           Over(S, f) /\ (f.at = "endScope" \/ Stay(f)) => HasNever(cir, cir.cur),
           Enter(f, e) => /\ Over(S, f) /\ f.at # "endScope" => e \in S
                          /\ f.at = "endScope" \/ f.node \in Q => e \in Q
    PROVE  Proceeds(S, Q)
<1>1. Furthers(cir, {}, cir') /\ cir'.cur = cir.cur
  BY DEF Along
<1>2. \A b : (Resumes(Top, b) => Resumes(f, b)) /\ (Resumes(f, b) => InLast(cir', b))
  <2>1. \A b : Resumes(Top, b) <=> Resumes(f, b)
    BY DEF Resumes
  <2>2. \A b : Resumes(Top, b) => InLast(cir, b)
    BY WritingLemma
  <2>. QED
    BY <1>1, <2>1, <2>2 DEF Furthers
<1>3. HasNever(cir, cir.cur) => HasNever(cir', cir'.cur)
  <2>1. cir.cur \in 1..Len(cir.blk)
    BY WritingLemma, WritableLemma
  <2>. QED
    BY <1>1, <2>1 DEF Furthers
<1>4. /\ Enter(f, e) => Awaits(S, f, e)
      /\ Stay(f) => ~(f.node.kind = "while" /\ f.at = "cond")
  BY DEF Awaits
<1>5. Over(S, f) /\ (f.at = "endScope" \/ Stay(f)) => HasNever(cir', cir'.cur)
  BY <1>3
<1>6. PICK X : Furthers(cir, X, cir') /\ \A b : b \notin X
  BY <1>1
<1>7. \A b : b \in X \/ b = cir.cur \/ Resumes(Top, b)
                => HasNever(cir', b) \/ b = cir'.cur \/ Resumes(f, b)
  BY ONLY <1>1, <1>2, <1>6
<1>8. \A b : Resumes(f, b) => InLast(cir', b)
  BY ONLY <1>2
<1>9. Top.node \in Q => cir'.cur = cir.cur
  BY <1>1
<1>10. Enter(f, e) => Awaits(S, f, e) /\ (f.at = "endScope" \/ f.node \in Q => e \in Q)
  BY <1>4
<1>11. Flowing(S, Q)' /\ frames' # << >>
  BY <1>4, <1>5, <1>6, <1>7, <1>8, <1>9, <1>10, GoOnFlowing
<1>. QED
  BY <1>11 DEF Proceeds

\* Going on is not calling.
LEMMA StayOnly ==
    ASSUME NEW S, NEW Q, Writing(S, Q), NEW f, Stay(f), NEW e
    PROVE  ~Enter(f, e)
<1>1. PICK m, g : m = Len(frames) /\ g = Activation(e, breaks', Len(scopes'))
  OBVIOUS
<1>2. m \in Nat /\ m > 0 /\ frames \in Seq(FrameType(Len(cir.blk))) /\ frames # << >>
  BY <1>1, WritingLemma
<1>. DEFINE F == FrameType(Len(cir.blk)) \union {f, g}
<1>3. frames \in Seq(F) /\ f \in F /\ g \in F
  BY <1>2
<1>. HIDE DEF F
<1>4. Len(Append(Front(frames), f)) = m
  <2>1. /\ Append(Front(frames), f) \in Seq(F) /\ Len(Append(Front(frames), f)) = m
        /\ \A k \in 1..(m - 1) : Append(Front(frames), f)[k] = frames[k]
        /\ Append(Front(frames), f)[m] = f
    BY <1>1, <1>2, <1>3, ReplaceLemma
  <2>. QED
    BY <2>1
<1>5. Len(Front(frames) \o <<f, g>>) = m + 1
  <2>1. /\ Front(frames) \o <<f, g>> \in Seq(F) /\ Len(Front(frames) \o <<f, g>>) = m + 1
        /\ \A k \in 1..(m - 1) : (Front(frames) \o <<f, g>>)[k] = frames[k]
        /\ (Front(frames) \o <<f, g>>)[m] = f
        /\ (Front(frames) \o <<f, g>>)[m + 1] = g
    BY <1>1, <1>2, <1>3, PushLemma
  <2>. QED
    BY <2>1
<1>6. frames' = Append(Front(frames), f)
  BY DEF Stay
<1>. QED
  BY <1>1, <1>2, <1>4, <1>5, <1>6 DEF Enter

\* It goes on where it is.
LEMMA StayAlong ==
    ASSUME NEW S, NEW Q, Writing(S, Q), status' = "gen", Along(cir, {}, cir'),
           NEW f, f.node = Top.node, f.defers \in Seq(Q), Stay(f),
           Top.node.kind # "while",
           Top.node.kind # "function" => Top.at # "args",
           Top.node.kind = "function" => Top.at # "start",
           f.node.kind = "scope" => f.at # "start",
           scopes' \in Seq(Seq(Q)), Over(S, f) => HasNever(cir, cir.cur)
    PROVE  Proceeds(S, Q)
<1>1. PICK e : e = f
  OBVIOUS
<1>2. ~Enter(f, e)
  BY StayOnly
<1>. QED
  BY <1>2, GoOnAlong

\* The expressions without control flow leave the block they are in only for good.
LEMMA SimpleKinds ==
    ASSUME NEW S, NEW Q, Honest(S, Q), NEW n
    PROVE  /\ n.kind \notin {"return", "break", "while", "call", "scope"} => n \notin S
           /\ n \in S /\ n.kind = "call" => "Unreachable" \in n.contains \/ n.ty = "never"
           /\ n \in Q => \A k \in DOMAIN n.kids : n.kids[k] \in Q
           /\ n.kind \in {"scope", "if", "loop", "for", "while", "label", "function"} => n \notin Q
  BY DEF Honest, Leaving, Staying

\* What the actions of a method find.
LEMMA MethodLemma ==
    ASSUME NEW S, NEW Q, Honest(S, Q), Writing(S, Q)
    PROVE  /\ IInv /\ frames # << >> /\ status = "gen" /\ HeldBlocks(Top)
           /\ Top.node \in Nodes /\ Top.node.kids \in Seq(Nodes) /\ Top.i \in Nat
           /\ Top \in FrameType(Len(cir.blk)) /\ Top.defers \in Seq(Q)
           /\ scopes \in Seq(Seq(Q)) /\ Along(cir, {}, cir) /\ Len(cir.blk) \in Nat
           /\ Over(S, Top) => HasNever(cir, cir.cur)
           /\ Top.node.kind = "scope" /\ Top.at = "start" => Top.i = 0
           /\ \A b : Resumes(Top, b) => InLast(cir, b)
<1>1. IInv /\ frames # << >> /\ status = "gen"
  BY DEF Writing
<1>2. Top.node \in Nodes /\ Top.i \in Nat /\ HeldBlocks(Top)
  BY <1>1, TopLemma, InsideLemma
<1>3. Top.node.kids \in Seq(Nodes)
  BY <1>2, ProgramsAssumption
<1>. QED
  BY <1>1, <1>2, <1>3, WritingLemma

\* The other expressions without control flow.
LEMMA SimpleFlowing ==
    ASSUME NEW S, NEW Q, Honest(S, Q), Writing(S, Q), Simple, ~LabelExpr_gen
    PROVE  Proceeds(S, Q)
<1>1. /\ IInv /\ frames # << >> /\ status = "gen"
      /\ Top.node \in Nodes /\ Top.node.kids \in Seq(Nodes) /\ Top.i \in Nat
      /\ Top \in FrameType(Len(cir.blk)) /\ Top.defers \in Seq(Q)
      /\ scopes \in Seq(Seq(Q)) /\ Along(cir, {}, cir) /\ Len(cir.blk) \in Nat
  BY MethodLemma
<1>2. CASE GotoExpr_gen \/ BreakExpr_dangling \/ Argument_missing
  BY <1>2 DEF GotoExpr_gen, BreakExpr_dangling, Argument_missing, Abort, Proceeds
<1>3. CASE BreakExpr_error
  BY <1>3 DEF BreakExpr_error, Report, Proceeds
<1>4. CASE Constant
  <2>1. /\ EmitAndLeave(cir, Literal(Top.node.kind)) /\ status' = "gen" /\ scopes' = scopes
        /\ Top.node.kind \in Literals /\ Top.at = "start"
    BY <1>1, <1>4 DEF Constant, Steady, SameStacks, At
  <2>2. Top.node \notin S /\ Top.node.kind \notin {"while", "function"}
    BY <2>1, SimpleKinds DEF Literals
  <2>. QED
    BY <1>1, <2>1, <2>2, EmitAlong
<1>5. CASE VariableExpr_gen
  <2>1. PICK j : j = IF Top.node.x \in Globals
                     THEN Instr("LoadGlobal", Top.node.ty, << >>)
                     ELSE Instr("LoadVar", Top.node.ty, <<varRefs[Top.node.x]>>)
    OBVIOUS
  <2>2. /\ Top.node.kind = "variable" /\ EmitAndLeave(cir, j) /\ status' = "gen" /\ scopes' = scopes
        /\ Top.at = "start"
    BY <1>1, <1>5, <2>1 DEF VariableExpr_gen, Steady, SameStacks, At
  <2>3. Top.node \notin S
    BY <2>2, SimpleKinds
  <2>. QED
    BY <1>1, <2>2, <2>3, EmitAlong
<1>6. CASE Operand
  <2>. DEFINE f == [Top EXCEPT !.at = "operand", !.i = @ + 1,
                               !.keep = IF Top.i = 0 THEN NoRef ELSE ret]
  <2>1. /\ Enter(f, Top.node.kids[Top.i + 1]) /\ cir' = cir /\ scopes' = scopes /\ status' = "gen"
        /\ Top.i < Operands(Top.node)
        /\ Top.node.kind \in {"var", "assign", "return", "binary", "call", "cast", "sizeof", "vector",
                              "index", "assign_index", "assign_member"}
        /\ Top.at \in {"start", "operand"}
    BY <1>1, <1>6 DEF Operand, At, Steady, SameStacks
  <2>2. f.node = Top.node /\ f.defers = Top.defers /\ f.at = "operand"
    BY <1>1 DEF FrameType
  <2>. HIDE DEF f
  <2>3. PICK e : e = Top.node.kids[Top.i + 1]
    OBVIOUS
  <2>4. Top.node \in Q => e \in Q
    <3>1. Top.i + 1 \in DOMAIN Top.node.kids
      BY <1>1, <2>1 DEF Operands
    <3>. QED
      BY <2>3, <3>1, SimpleKinds
  <2>5. ~Over(S, f)
    BY <2>1, <2>2 DEF Over
  <2>. QED
    BY <1>1, <2>1, <2>2, <2>3, <2>4, <2>5, GoOnAlong
<1>7. CASE VarExpr_gen
  <2>1. PICK e : e = IF Top.i = 0 THEN [c |-> cir, r |-> NoRef]
                     ELSE IF IsEmpty(ret) THEN [c |-> cir, r |-> ret]
                     ELSE Convert(cir, ret, Top.node.kids[1].ty, Top.node.ty)
    OBVIOUS
  <2>2. /\ Evaluated("var") /\ EmitAndLeave(e.c, Instr("VarInit", Top.node.ty, <<e.r>>))
        /\ status' = "gen" /\ scopes' = scopes
    BY <1>1, <1>7, <2>1 DEF VarExpr_gen, Steady, SameStacks
  <2>3. Top.node.kind = "var" /\ Top.at \in {"start", "operand"}
    BY <2>2 DEF Evaluated, At
  <2>4. Along(cir, {}, e.c)
    <3>1. Along(cir, {}, Convert(cir, ret, Top.node.kids[1].ty, Top.node.ty).c)
      BY <1>1, AlongConvert
    <3>. QED
      BY <1>1, <2>1, <3>1
  <2>5. Top.node \notin S
    BY <2>3, SimpleKinds
  <2>. QED
    BY <1>1, <2>2, <2>3, <2>4, <2>5, EmitAlong
<1>8. CASE Assign_gen
  <2>1. PICK e : e = Convert(cir, ret, Top.node.kids[1].ty, Top.node.ty)
    OBVIOUS
  <2>2. PICK j : j = IF Top.node.x \in Globals
                     THEN Instr("StoreGlobal", "void", <<e.r>>)
                     ELSE Instr("StoreVar", "void", <<varRefs[Top.node.x], e.r>>)
    OBVIOUS
  <2>3. Evaluated("assign") /\ EmitAndLeave(e.c, j) /\ status' = "gen" /\ scopes' = scopes
    BY <1>1, <1>8, <2>1, <2>2 DEF Assign_gen, Steady, SameStacks
  <2>4. Top.node.kind = "assign" /\ Top.at \in {"start", "operand"}
    BY <2>3 DEF Evaluated, At
  <2>5. Along(cir, {}, e.c)
    BY <1>1, <2>1, AlongConvert
  <2>6. Top.node \notin S
    BY <2>4, SimpleKinds
  <2>. QED
    BY <1>1, <2>3, <2>4, <2>5, <2>6, EmitAlong
<1>9. CASE BinaryExpr_gen
  <2>1. PICK left : left = AsI64(Top.node.x, cir, Top.keep, Top.node.kids[1].ty)
    OBVIOUS
  <2>2. PICK right : right = AsI64(Top.node.x, left.c, ret, Top.node.kids[2].ty)
    OBVIOUS
  <2>3. PICK e : e = Convert(right.c, right.r, right.ty, left.ty)
    OBVIOUS
  <2>4. /\ Evaluated("binary") /\ status' = "gen" /\ scopes' = scopes
        /\ \/ Top.node.x = "^" /\ cir' = e.c /\ Leave(NoRef)
           \/ EmitAndLeave(e.c, Instr("Binary", Top.node.ty, <<left.r, e.r>>))
    BY <1>1, <1>9, <2>1, <2>2, <2>3 DEF BinaryExpr_gen, Steady, SameStacks
  <2>5. Top.node.kind = "binary" /\ Top.at \in {"start", "operand"} /\ Top.node \notin S
    BY <2>4, SimpleKinds DEF Evaluated, At
  <2>6. Along(cir, {}, left.c)
    <3>1. \A r, from, to : Along(cir, {}, Convert(cir, r, from, to).c)
      BY <1>1, AlongConvert
    <3>. QED
      BY <2>1, <3>1 DEF AsI64
  <2>7. Along(cir, {}, right.c)
    <3>1. \A r, from, to : Along(cir, {}, Convert(left.c, r, from, to).c)
      BY <1>1, <2>6, AlongConvert
    <3>. QED
      BY <2>2, <3>1 DEF AsI64
  <2>8. Along(cir, {}, e.c)
    BY <1>1, <2>3, <2>7, AlongConvert
  <2>9. CASE Top.node.x = "^" /\ cir' = e.c /\ Leave(NoRef)
    <3>1. frames' = Front(frames) /\ ~Answers(Top.node)
      BY <2>5, <2>9 DEF Leave, Answers
    <3>. QED
      BY <1>1, <2>4, <2>5, <2>8, <2>9, <3>1, LeaveAlong
  <2>10. CASE EmitAndLeave(e.c, Instr("Binary", Top.node.ty, <<left.r, e.r>>))
    BY <1>1, <2>4, <2>5, <2>8, <2>10, EmitAlong
  <2>. QED
    BY <2>4, <2>9, <2>10
<1>10. CASE Argument
  <2>1. PICK p : p = Proto(Top.node.x)
    OBVIOUS
  <2>2. PICK e : e = IF p.variadic THEN [c |-> cir, r |-> ret]
                     ELSE Convert(cir, ret, Top.node.kids[Top.i].ty, p.args[Top.i])
    OBVIOUS
  <2>. DEFINE f == [Top EXCEPT !.at = "start", !.refs = Append(@, e.r)]
  <2>3. /\ Top.node.kind = "call" /\ Top.at = "operand" /\ Stay(f) /\ cir' = e.c
        /\ status' = "gen" /\ scopes' = scopes
    BY <1>1, <1>10, <2>1, <2>2 DEF Argument, At, Steady, SameStacks
  <2>4. f.node = Top.node /\ f.defers = Top.defers /\ f.at = "start"
    BY <1>1 DEF FrameType
  <2>. HIDE DEF f
  <2>5. Along(cir, {}, e.c)
    <3>1. Along(cir, {}, Convert(cir, ret, Top.node.kids[Top.i].ty, p.args[Top.i]).c)
      BY <1>1, AlongConvert
    <3>. QED
      BY <1>1, <2>2, <3>1
  <2>6. ~Over(S, f)
    BY <2>3, <2>4 DEF Over
  <2>. QED
    BY <1>1, <2>3, <2>4, <2>5, <2>6, StayAlong
<1>11. CASE CallExpr_gen
  <2>1. PICK j : j = IF "Unreachable" \in Top.node.contains
                     THEN Instr("ConstNever", "never", << >>)
                     ELSE Instr("Call", Top.node.ty, Top.refs)
    OBVIOUS
  <2>2. /\ EmitAndLeave(cir, j) /\ status' = "gen" /\ scopes' = scopes
        /\ Top.node.kind = "call" /\ Top.at = "start"
    BY <1>1, <1>11, <2>1 DEF CallExpr_gen, Steady, SameStacks, At
  <2>3. Top.node \in S => j.ty = "never"
    BY <2>1, <2>2, SimpleKinds DEF Instr
  <2>. QED
    BY <1>1, <2>2, <2>3, EmitAlong
<1>12. CASE Return_gen
  <2>1. PICK e : e = Convert(cir, ret, Top.node.kids[1].ty, prog[fn].node.ty)
    OBVIOUS
  <2>2. /\ Evaluated("return") /\ EmitAndLeave(e.c, Instr("Return", "never", <<e.r>>))
        /\ status' = "gen" /\ scopes' = scopes
    BY <1>1, <1>12, <2>1 DEF Return_gen, Steady, SameStacks
  <2>3. Top.node.kind = "return" /\ Top.at \in {"start", "operand"}
    BY <2>2 DEF Evaluated, At
  <2>4. Along(cir, {}, e.c) /\ Instr("Return", "never", <<e.r>>).ty = "never"
    BY <1>1, <2>1, AlongConvert DEF Instr
  <2>. QED
    BY <1>1, <2>2, <2>3, <2>4, EmitAlong
<1>13. CASE DeferExpr_gen
  <2>1. /\ EmitAndLeave(cir, Instr("ConstVoid", "void", << >>))
        /\ status' = "gen" /\ Top.node.kind = "defer" /\ Top.at = "start"
        /\ scopes' = [scopes EXCEPT ![Len(scopes)] = Append(@, Top.node.kids[1])]
    BY <1>1, <1>13 DEF DeferExpr_gen, Steady, At
  <2>2. PICK e, k : e = Top.node.kids[1] /\ k = Len(scopes)
    OBVIOUS
  <2>3. e \in Q /\ Top.node \notin S
    <3>1. Top.node \notin S
      BY <2>1, SimpleKinds
    <3>2. e \in Q
      BY <1>1, <2>1, <2>2 DEF Honest
    <3>. QED
      BY <3>1, <3>2
  <2>4. scopes' \in Seq(Seq(Q))
    <3>1. scopes \in Seq(Seq(Q)) /\ k \in Nat /\ DOMAIN scopes = 1..k
      BY <1>1, <2>2
    <3>2. scopes' = [scopes EXCEPT ![k] = Append(scopes[k], e)]
      BY <2>1, <2>2
    <3>3. CASE k = 0
      <4>1. scopes = << >>
        BY <2>2, <3>1, <3>3
      <4>2. scopes' = scopes
        BY <3>1, <3>2, <3>3, <4>1
      <4>. QED
        BY <3>1, <4>2
    <3>4. CASE k # 0
      <4>1. k \in 1..k /\ scopes[k] \in Seq(Q)
        BY <2>2, <3>1, <3>4
      <4>2. Append(scopes[k], e) \in Seq(Q)
        BY <2>3, <4>1
      <4>. QED
        BY <2>2, <3>1, <3>2, <4>1, <4>2
    <3>. QED
      BY <3>3, <3>4
  <2>. QED
    BY <1>1, <2>1, <2>3, <2>4, EmitAlong
<1>14. CASE MatchExpr_gen
  <2>1. /\ frames' = Front(frames) /\ cir' = cir /\ scopes' = scopes /\ status' = "gen"
        /\ Top.node.kind = "match" /\ Top.at = "start"
    BY <1>1, <1>14 DEF MatchExpr_gen, Leave, Steady, SameStacks, At
  <2>2. Top.node \notin S /\ ~Answers(Top.node)
    BY <2>1, SimpleKinds DEF Answers
  <2>. QED
    BY <1>1, <2>1, <2>2, LeaveAlong
<1>15. CASE BreakExpr_gen
  <2>1. PICK b : b = Last(breaks)
    OBVIOUS
  <2>2. /\ EmitAndLeave(CreateGoto(cir, b), Instr("ConstVoid", "void", << >>)) /\ breaks # << >>
        /\ status' = "gen" /\ scopes' = scopes /\ Top.node.kind = "break" /\ Top.at = "start"
    BY <1>1, <1>15, <2>1 DEF BreakExpr_gen, Steady, SameStacks, At
  <2>3. b \in 1..Len(cir.blk)
    <3>1. breaks \in Seq(1..Len(cir.blk))
      BY <1>1, InsideLemma
    <3>. QED
      BY <2>1, <2>2, <3>1, StackLemma
  <2>4. Along(cir, {}, CreateGoto(cir, b)) /\ HasNever(CreateGoto(cir, b), cir.cur)
    BY <1>1, <2>3, AlongOps
  <2>. QED
    BY <1>1, <2>2, <2>4, EmitAlong
<1>. QED
  BY <1>2, <1>3, <1>4, <1>5, <1>6, <1>7, <1>8, <1>9, <1>10, <1>11, <1>12, <1>13, <1>14, <1>15 DEF Simple

\* The address of an element or of a member, in the file as it is.
LEMMA GepAlong ==
    ASSUME Along(cir, {}, cir), Len(cir.blk) \in Nat
    PROVE  Along(cir, {}, GEP_member.c) /\ \A index : Along(cir, {}, GEP_index(index).c)
<1>1. Along(cir, {}, GEP_member.c)
  BY AlongOps DEF GEP_member
<1>2. ASSUME NEW index
      PROVE  Along(cir, {}, GEP_index(index).c)
  <2>1. PICK e : e = Convert(cir, ret, index.ty, "i64")
    OBVIOUS
  <2>2. Along(cir, {}, e.c)
    BY <2>1, AlongConvert
  <2>3. \A i : Along(cir, {}, Emit(e.c, i).c)
    BY <2>2, AlongOps
  <2>4. \/ GEP_index(index) = [c |-> cir, r |-> NoRef]
        \/ GEP_index(index) = Emit(e.c, Instr("GepArray", "ptr", <<varRefs[InPlace.x], e.r>>))
    BY <2>1 DEF GEP_index
  <2>. QED
    BY <2>3, <2>4
<1>. QED
  BY <1>1, <1>2

\* The expressions on memory.
LEMMA MemoryFlowing ==
    ASSUME NEW S, NEW Q, Honest(S, Q), Writing(S, Q), Memory
    PROVE  Proceeds(S, Q)
<1>1. /\ IInv /\ frames # << >> /\ status = "gen"
      /\ Top.node \in Nodes /\ Top.node.kids \in Seq(Nodes) /\ Top.i \in Nat
      /\ Top \in FrameType(Len(cir.blk)) /\ Top.defers \in Seq(Q)
      /\ scopes \in Seq(Seq(Q)) /\ Along(cir, {}, cir) /\ Len(cir.blk) \in Nat
  BY MethodLemma
<1>2. CASE NotImplemented \/ Operand_missing
  BY <1>2 DEF NotImplemented, Operand_missing, Abort, Proceeds
<1>3. CASE StructMemberCallExpr_gen
  BY <1>3 DEF StructMemberCallExpr_gen, Report, Proceeds
<1>4. CASE AddrExpr_gen
  <2>1. /\ frames' = Front(frames) /\ cir' = cir /\ scopes' = scopes /\ status' = "gen"
        /\ Top.node.kind = "addr" /\ Top.at = "start"
    BY <1>1, <1>4 DEF AddrExpr_gen, Leave, Steady, SameStacks, At
  <2>2. Top.node \notin S /\ ~Answers(Top.node)
    BY <2>1, SimpleKinds DEF Answers
  <2>. QED
    BY <1>1, <2>1, <2>2, LeaveAlong
\* An instruction, in the file as it is or with the address in it.
<1>5. ASSUME NEW c, Along(cir, {}, c), NEW i, EmitAndLeave(c, i), status' = "gen", scopes' = scopes,
             Top.node.kind \in {"deref", "index", "member", "assign_index", "assign_member", "sizeof",
                                "vector", "asm"},
             Top.at \in {"start", "operand"}
      PROVE  Proceeds(S, Q)
  <2>1. Top.node \notin S /\ Top.node.kind \notin {"while", "function"} /\ Top.at # "args"
    BY <1>5, SimpleKinds
  <2>. QED
    BY <1>1, <1>5, <2>1, EmitAlong
<1>6. CASE DerefExpr_gen
  <2>1. CASE Report
    BY <2>1 DEF Report, Proceeds
  <2>2. PICK i : i = Instr("Deref", Top.node.ty, <<varRefs[InPlace.x]>>)
    OBVIOUS
  <2>3. CASE EmitAndLeave(cir, i) /\ Steady /\ SameStacks
    <3>1. /\ status' = "gen" /\ scopes' = scopes /\ Top.node.kind = "deref"
          /\ Top.at = "start"
      BY <1>1, <1>6, <2>3 DEF DerefExpr_gen, Steady, SameStacks, At
    <3>. QED
      BY <1>1, <1>5, <2>3, <3>1
  <2>. QED
    BY <1>6, <2>1, <2>2, <2>3 DEF DerefExpr_gen
<1>7. ASSUME NEW gep, Along(cir, {}, gep.c), NEW op, NEW ty, NEW rest, LeaveWith(gep, op, ty, rest),
             Top.node.kind \in {"index", "member", "assign_index", "assign_member"},
             Top.at \in {"start", "operand"}
      PROVE  Proceeds(S, Q)
  <2>1. PICK i : i = Instr(op, IF op = "Deref" /\ IsEmpty(gep.r) THEN "none" ELSE ty, <<gep.r>> \o rest)
    OBVIOUS
  <2>2. EmitAndLeave(gep.c, i) /\ status' = "gen" /\ scopes' = scopes
    BY <1>1, <1>7, <2>1 DEF LeaveWith, Steady
  <2>. QED
    BY <1>5, <1>7, <2>2
<1>8. CASE ReadElement
  <2>1. /\ Evaluated("index") /\ LeaveWith(GEP_index(Top.node.kids[1]), "Deref", Top.node.ty, << >>)
    BY <1>8 DEF ReadElement
  <2>2. Top.node.kind = "index" /\ Top.at \in {"start", "operand"}
    BY <2>1 DEF Evaluated, At
  <2>. QED
    BY <1>1, <1>7, <2>1, <2>2, GepAlong
<1>9. CASE ReadMember
  <2>1. /\ LeaveWith(GEP_member, "Deref", Top.node.ty, << >>)
        /\ Top.node.kind = "member" /\ Top.at = "start"
    BY <1>9 DEF ReadMember, At
  <2>. QED
    BY <1>1, <1>7, <2>1, GepAlong
<1>10. CASE WriteElement
  <2>1. /\ Evaluated("assign_index")
        /\ LeaveWith(GEP_index(Top.node.kids[2]), "StoreInPtr", "void", <<Top.keep>>)
    BY <1>10 DEF WriteElement
  <2>2. Top.node.kind = "assign_index" /\ Top.at \in {"start", "operand"}
    BY <2>1 DEF Evaluated, At
  <2>. QED
    BY <1>1, <1>7, <2>1, <2>2, GepAlong
<1>11. CASE WriteMember
  <2>1. /\ Evaluated("assign_member") /\ LeaveWith(GEP_member, "StoreInPtr", "void", <<ret>>)
    BY <1>11 DEF WriteMember
  <2>2. Top.node.kind = "assign_member" /\ Top.at \in {"start", "operand"}
    BY <2>1 DEF Evaluated, At
  <2>. QED
    BY <1>1, <1>7, <2>1, <2>2, GepAlong
<1>12. CASE SizeofExpr_gen
  <2>1. /\ Evaluated("sizeof") /\ EmitAndLeave(cir, Instr("Sizeof", "val", <<ret>>))
        /\ status' = "gen" /\ scopes' = scopes
    BY <1>1, <1>12 DEF SizeofExpr_gen, Steady, SameStacks
  <2>2. Top.node.kind = "sizeof" /\ Top.at \in {"start", "operand"}
    BY <2>1 DEF Evaluated, At
  <2>. QED
    BY <1>1, <1>5, <2>1, <2>2
<1>13. CASE CastExpr_gen
  <2>1. PICK e : e = Convert(cir, ret, TypeAt(cir, ret), Top.node.ty)
    OBVIOUS
  <2>2. /\ Evaluated("cast") /\ Found(ret) /\ cir' = e.c /\ ret' = e.r /\ frames' = Front(frames)
        /\ status' = "gen" /\ scopes' = scopes
    BY <1>1, <1>13, <2>1 DEF CastExpr_gen, Steady, SameStacks, Leave
  <2>3. Top.node.kind = "cast" /\ Top.at \in {"start", "operand"} /\ Top.node \notin S
    BY <2>2, SimpleKinds DEF Evaluated, At
  <2>4. Along(cir, {}, e.c) /\ ~IsEmpty(e.r)
    <3>1. ~IsEmpty(ret)
      BY <2>2 DEF Found
    <3>. QED
      BY <1>1, <2>1, <3>1, AlongConvert
  <2>. QED
    BY <1>1, <2>2, <2>3, <2>4, LeaveAlong
<1>14. CASE VectorMember
  <2>1. CASE Report
    BY <2>1 DEF Report, Proceeds
  <2>2. PICK f : f = [Top EXCEPT !.at = "start", !.refs = Append(@, ret)]
    OBVIOUS
  <2>3. CASE Stay(f) /\ Steady /\ SameStacks /\ cir' = cir
    <3>1. /\ status' = "gen" /\ scopes' = scopes /\ Top.node.kind = "vector"
          /\ Top.at = "operand"
      BY <1>1, <1>14, <2>3 DEF VectorMember, Steady, SameStacks, At
    <3>2. f.node = Top.node /\ f.defers = Top.defers /\ f.at = "start"
      BY <1>1, <2>2 DEF FrameType
    <3>3. ~Over(S, f)
      BY <3>1, <3>2 DEF Over
    <3>. QED
      BY <1>1, <2>3, <3>1, <3>2, <3>3, StayAlong
  <2>. QED
    BY <1>14, <2>1, <2>2, <2>3 DEF VectorMember
<1>15. CASE ConstantVectorExpr_gen
  <2>1. /\ EmitAndLeave(cir, Instr("ConstVector", "array", Top.refs))
        /\ status' = "gen" /\ scopes' = scopes /\ Top.node.kind = "vector" /\ Top.at = "start"
    BY <1>1, <1>15 DEF ConstantVectorExpr_gen, Steady, SameStacks, At
  <2>. QED
    BY <1>1, <1>5, <2>1
<1>16. CASE AsmExpr_gen
  <2>1. CASE Report
    BY <2>1 DEF Report, Proceeds
  <2>2. PICK i : i = Instr("InlineAsm", "none",
                           [k \in DOMAIN Top.node.kids |-> varRefs[Top.node.kids[k].x]])
    OBVIOUS
  <2>3. CASE EmitAndLeave(cir, i) /\ Steady /\ SameStacks
    <3>1. /\ status' = "gen" /\ scopes' = scopes /\ Top.node.kind = "asm"
          /\ Top.at = "start"
      BY <1>1, <1>16, <2>3 DEF AsmExpr_gen, Steady, SameStacks, At
    <3>. QED
      BY <1>1, <1>5, <2>3, <3>1
  <2>. QED
    BY <1>16, <2>1, <2>2, <2>3 DEF AsmExpr_gen
<1>. QED
  BY <1>2, <1>3, <1>4, <1>6, <1>8, <1>9, <1>10, <1>11, <1>12, <1>13, <1>14, <1>15, <1>16 DEF Memory

\* A branch to a new block, where the instructions go from then on.
LEMMA JumpFurther ==
    ASSUME NEW c, Len(c.blk) \in Nat, Writable(c), NEW base, NEW n, n = LastBlock(NewBlock(c, base)),
           NEW d, d = SetInsertPoint(CreateGoto(Added(c, base), n), n), NEW X, n \in X
    PROVE  /\ Furthers(c, X, d) /\ d.cur = n /\ HasNever(d, c.cur) /\ Len(d.blk) = n
           /\ InLast(d, n) /\ c.cur \in 1..Len(c.blk) /\ n = Len(c.blk) + 1
<1>0. n = Len(c.blk) + 1
  BY FurtherBlock
<1>1. PICK a : a = Added(c, base)
  OBVIOUS
<1>2. Along(c, X, a) /\ Len(a.blk) = n /\ InLast(a, n)
  <2>1. Along(c, {n}, a) /\ Len(a.blk) = n /\ InLast(a, n)
    BY <1>0, <1>1, FurtherOps
  <2>. QED
    BY <2>1 DEF Along, Furthers
<1>3. n \in 1..n /\ n \in Nat /\ c.cur \in 1..Len(c.blk) /\ c.cur \in 1..n
  <2>1. PICK k : k = Len(c.blk)
    OBVIOUS
  <2>2. k \in Nat /\ c.cur \in 1..k
    BY <2>1, WritableLemma
  <2>. QED
    BY <1>0, <2>1, <2>2
<1>4. PICK g : g = CreateGoto(a, n)
  OBVIOUS
<1>5. Along(c, X, g) /\ Len(g.blk) = n /\ HasNever(g, c.cur)
  BY <1>2, <1>3, <1>4, AlongGoto
<1>6. InLast(g, n)
  <2>1. Writable(a)
    BY <1>2 DEF Along, Furthers
  <2>2. Along(a, {}, g)
    BY <1>2, <1>3, <1>4, <2>1, FurtherOps
  <2>. QED
    BY <1>2, <2>2 DEF Along, Furthers
<1>7. Writable(g) /\ Furthers(c, X, g)
  BY <1>5 DEF Along, Furthers
<1>8. Furthers(g, {}, d) /\ d.cur = n /\ Len(d.blk) = n
  BY <1>1, <1>4, <1>5, <1>6, <1>7, FurtherPoint
<1>9. Furthers(c, X, d)
  BY <1>7, <1>8, FurtherLemma
<1>10. HasNever(d, c.cur) /\ InLast(d, n)
  BY <1>3, <1>5, <1>6, <1>8 DEF Furthers
<1>. QED
  BY <1>0, <1>3, <1>8, <1>9, <1>10

\* LabelExprAST::cir_gen.
LEMMA LabelFlowing ==
    ASSUME NEW S, NEW Q, Honest(S, Q), Writing(S, Q), LabelExpr_gen
    PROVE  Proceeds(S, Q)
<1>1. status = "gen" /\ scopes \in Seq(Seq(Q)) /\ Len(cir.blk) \in Nat /\ Writable(cir)
  BY MethodLemma, WritingLemma
<1>2. PICK n, x : n = LastBlock(NewBlock(cir, x)) /\ x = Top.node.x
  OBVIOUS
<1>3. /\ cir' = SetInsertPoint(CreateGoto(Added(cir, x), n), n)
      /\ frames' = Front(frames) /\ scopes' = scopes /\ status' = "gen"
      /\ Top.node.kind = "label" /\ Top.at = "start"
  BY <1>1, <1>2 DEF LabelExpr_gen, Added, Leave, Steady, SameStacks, At
<1>4. Furthers(cir, {n}, cir') /\ cir'.cur = n /\ HasNever(cir', cir.cur)
  <2>1. PICK c, d : c = cir /\ d = cir'
    OBVIOUS
  <2>2. /\ Len(c.blk) \in Nat /\ Writable(c) /\ n = LastBlock(NewBlock(c, x))
        /\ d = SetInsertPoint(CreateGoto(Added(c, x), n), n) /\ n \in {n}
    BY <1>1, <1>2, <1>3, <2>1
  <2>3. Furthers(c, {n}, d) /\ d.cur = n /\ HasNever(d, c.cur)
    BY ONLY <2>2, JumpFurther, SMTT(20)
  <2>. QED
    BY <2>1, <2>3
<1>5. Top.node \notin S /\ Top.node \notin Q /\ ~Answers(Top.node) /\ \A b : ~Resumes(Top, b)
  BY <1>3, SimpleKinds DEF Answers, Resumes
<1>6. Flowing(S, Q)' /\ frames' # << >>
  BY <1>1, <1>3, <1>4, <1>5, LeaveFlowing
<1>. QED
  BY <1>3, <1>6 DEF Proceeds

\* Scopes that are opened and closed.
LEMMA DeferredLemma ==
    ASSUME NEW Q, NEW s \in Seq(Seq(Q))
    PROVE  /\ Append(s, << >>) \in Seq(Seq(Q))
           /\ s # << >> => /\ Last(s) \in Seq(Q) /\ Front(s) \in Seq(Seq(Q))
                           /\ [s EXCEPT ![Len(s)] = << >>] \in Seq(Seq(Q))
<1>1. << >> \in Seq(Q)
  OBVIOUS
<1>. DEFINE T == Seq(Q)
<1>2. << >> \in T /\ s \in Seq(T)
  BY <1>1
<1>. HIDE DEF T
<1>3. Append(s, << >>) \in Seq(T)
  BY <1>2
<1>4. ASSUME s # << >>
      PROVE  Last(s) \in T /\ Front(s) \in Seq(T) /\ [s EXCEPT ![Len(s)] = << >>] \in Seq(T)
  <2>1. Len(s) \in 1..Len(s) /\ Front(s) \in Seq(T) /\ Last(s) \in T
    BY <1>2, <1>4, StackLemma
  <2>2. [s EXCEPT ![Len(s)] = << >>] \in Seq(T)
    BY <1>2, <2>1
  <2>. QED
    BY <2>1, <2>2
<1>. QED
  BY <1>3, <1>4 DEF T

\* Scopes: createScope, the statements and endScope.
LEMMA ScopeFlowing ==
    ASSUME NEW S, NEW Q, Honest(S, Q), Writing(S, Q),
           ScopeExpr_gen \/ NextStatement \/ EndScope \/ RunDefer \/ ScopeExpr_end
    PROVE  Proceeds(S, Q)
<1>1. /\ IInv /\ frames # << >> /\ status = "gen"
      /\ Top.node \in Nodes /\ Top.node.kids \in Seq(Nodes) /\ Top.i \in Nat
      /\ Top \in FrameType(Len(cir.blk)) /\ Top.defers \in Seq(Q)
      /\ scopes \in Seq(Seq(Q)) /\ Along(cir, {}, cir) /\ Len(cir.blk) \in Nat
      /\ Over(S, Top) => HasNever(cir, cir.cur)
      /\ Top.node.kind = "scope" /\ Top.at = "start" => Top.i = 0
  BY MethodLemma
<1>2. CASE ScopeExpr_gen
  <2>1. PICK f : f = [Top EXCEPT !.at = "body"]
    OBVIOUS
  <2>2. /\ Top.node.kind = "scope" /\ Top.at = "start" /\ Stay(f) /\ cir' = cir /\ status' = "gen"
        /\ scopes' = Append(scopes, << >>)
    BY <1>1, <1>2, <2>1 DEF ScopeExpr_gen, At, Steady, OpenScope
  <2>3. f.node = Top.node /\ f.defers = Top.defers /\ f.at = "body" /\ f.i = 0
    BY <1>1, <2>1, <2>2 DEF FrameType
  <2>4. ~Over(S, f)
    <3>1. Top.node \in S => Top.node.kids # << >>
      BY <2>2 DEF Honest, Leaving
    <3>2. Top.node \in S => Len(Top.node.kids) # 0
      BY <1>1, <3>1
    <3>. QED
      BY <2>2, <2>3, <3>2 DEF Over
  <2>5. scopes' \in Seq(Seq(Q))
    BY <1>1, <2>2, DeferredLemma
  <2>. QED
    BY <1>1, <2>2, <2>3, <2>4, <2>5, StayAlong
<1>3. CASE NextStatement
  <2>1. PICK f, e : f = [Top EXCEPT !.i = @ + 1] /\ e = Top.node.kids[Top.i + 1]
    OBVIOUS
  <2>2. /\ Top.node.kind \in {"scope", "loop", "function"} /\ Top.at = "body"
        /\ Top.i < Len(Top.node.kids)
        /\ Enter(f, e) /\ cir' = cir /\ status' = "gen" /\ scopes' = scopes
    BY <1>1, <1>3, <2>1 DEF NextStatement, At, Steady, SameStacks
  <2>3. f.node = Top.node /\ f.defers = Top.defers /\ f.at = "body" /\ f.i = Top.i + 1
    BY <1>1, <2>1, <2>2 DEF FrameType
  <2>4. Over(S, f) => e \in S
    <3>1. ASSUME Over(S, f)
          PROVE  e \in S
      <4>1. /\ f.i = Len(Top.node.kids)
            /\ \/ Top.node.kind = "scope" /\ Top.node \in S
               \/ Top.node.kind = "function" /\ "Unreachable" \in Top.node.contains
        BY <2>2, <2>3, <3>1 DEF Over
      <4>2. e = Last(Top.node.kids)
        BY <2>1, <2>3, <4>1 DEF Last
      <4>3. Last(Top.node.kids) \in S
        BY <1>1, <4>1 DEF Honest, Leaving
      <4>. QED
        BY <4>2, <4>3
    <3>. QED
      BY <3>1
  <2>5. Top.node \notin Q
    BY <2>2, SimpleKinds
  <2>6. ~Stay(f)
    BY <2>2, StayOnly
  <2>. QED
    BY <1>1, <2>2, <2>3, <2>4, <2>5, <2>6, GoOnAlong
<1>4. CASE EndScope
  <2>1. PICK v : v = IF Top.node.kids = << >> THEN NoRef ELSE ret
    OBVIOUS
  <2>2. PICK f : f = [Top EXCEPT !.at = "endScope", !.defers = Last(scopes), !.val = v]
    OBVIOUS
  <2>3. /\ \/ Top.node.kind \in {"scope", "function", "loop"} /\ Top.i = Len(Top.node.kids)
           \/ Top.node.kind \in {"for", "while"}
        /\ Top.at = "body" /\ Stay(f) /\ cir' = cir /\ status' = "gen"
        /\ scopes' = [scopes EXCEPT ![Len(scopes)] = << >>]
    BY <1>1, <1>4, <2>1, <2>2 DEF EndScope, At, Steady
  <2>4. scopes # << >>
    <3>1. At(Scoped, "body")
      BY <1>1, <2>3 DEF At, Scoped
    <3>. QED
      BY <1>1, <3>1, OpenLemma
  <2>5. scopes' \in Seq(Seq(Q)) /\ Last(scopes) \in Seq(Q)
    BY <1>1, <2>3, <2>4, DeferredLemma
  <2>6. /\ f.node = Top.node /\ f.defers = Last(scopes) /\ f.at = "endScope"
        /\ f.after = Top.after
    BY <1>1, <2>2 DEF FrameType
  <2>7. Over(S, f) => Over(S, Top)
    BY <2>3, <2>6 DEF Over
  <2>8. PICK e : e = f
    OBVIOUS
  <2>9. ~Enter(f, e)
    BY <2>3, StayOnly
  <2>. QED
    BY <1>1, <2>3, <2>5, <2>6, <2>7, <2>9, GoOnAlong
<1>5. CASE RunDefer
  <2>1. PICK f, e, r : f = [Top EXCEPT !.defers = r] /\ e = Head(Top.defers) /\ r = Tail(Top.defers)
    OBVIOUS
  <2>2. /\ Top.node.kind \in Scoped /\ Top.at = "endScope" /\ Top.defers # << >>
        /\ Enter(f, e) /\ cir' = cir /\ status' = "gen" /\ scopes' = scopes
    BY <1>1, <1>5, <2>1 DEF RunDefer, At, Steady, SameStacks
  <2>3. e \in Q /\ r \in Seq(Q)
    BY <1>1, <2>1, <2>2
  <2>4. f.node = Top.node /\ f.defers = r /\ f.at = "endScope" /\ f.after = Top.after
    BY <1>1, <2>1, <2>2 DEF FrameType
  <2>5. Over(S, f) => Over(S, Top)
    BY <2>2, <2>4 DEF Over
  <2>. QED
    BY <1>1, <2>2, <2>3, <2>4, <2>5, GoOnAlong
<1>6. CASE ScopeExpr_end
  <2>1. /\ At({"scope"}, "endScope") /\ scopes' = Front(scopes) /\ frames' = Front(frames)
        /\ cir' = cir /\ status' = "gen" /\ Top.node.kind = "scope" /\ Top.at = "endScope"
    BY <1>1, <1>6 DEF ScopeExpr_end, CloseScope, Leave, Steady, At
  <2>2. scopes # << >>
    <3>1. At(Scoped, "endScope")
      BY <1>1, <2>1 DEF At, Scoped
    <3>. QED
      BY <1>1, <3>1, OpenLemma
  <2>3. scopes' \in Seq(Seq(Q))
    BY <1>1, <2>1, <2>2, DeferredLemma
  <2>4. (Top.node \in S => Over(S, Top)) /\ ~Answers(Top.node)
    BY <2>1 DEF Over, Answers
  <2>. QED
    BY <1>1, <2>1, <2>3, <2>4, LeaveAlong
<1>. QED
  BY <1>2, <1>3, <1>4, <1>5, <1>6

\* What a file that is written on keeps, and one operation after the other.
LEMMA KeptLemma ==
    ASSUME NEW c, Writable(c), NEW X, NEW d, Furthers(c, X, d)
    PROVE  /\ Writable(d) /\ Len(c.blk) \in Nat /\ Len(d.blk) \in Nat /\ d.cur \in 1..Len(d.blk)
           /\ c.cur \in 1..Len(c.blk) /\ 1..Len(c.blk) \subseteq 1..Len(d.blk)
           /\ \A b \in 1..Len(c.blk) : HasNever(c, b) => HasNever(d, b)
           /\ \A b : InLast(c, b) => InLast(d, b)
           /\ \A Y, e : Furthers(d, Y, e) => \A Z : X \subseteq Z /\ Y \subseteq Z => Furthers(c, Z, e)
<1>1. PICK m, n : m = Len(c.blk) /\ n = Len(d.blk)
  OBVIOUS
<1>2. Writable(d) /\ m <= n
  BY <1>1 DEF Furthers
<1>3. m \in Nat /\ c.cur \in 1..m
  BY <1>1, WritableLemma
<1>4. n \in Nat /\ d.cur \in 1..n
  BY <1>1, <1>2, WritableLemma
<1>5. 1..m \subseteq 1..n
  BY ONLY <1>2, <1>3, <1>4
<1>6. /\ \A b \in 1..Len(c.blk) : HasNever(c, b) => HasNever(d, b)
      /\ \A b : InLast(c, b) => InLast(d, b)
  BY DEF Furthers
<1>7. ASSUME NEW Y, NEW e, Furthers(d, Y, e), NEW Z, X \subseteq Z, Y \subseteq Z
      PROVE  Furthers(c, Z, e)
  <2>1. Len(c.blk) \in Nat
    BY <1>1, <1>3
  <2>. QED
    BY ONLY <2>1, <1>7, Furthers(c, X, d), FurtherLemma
<1>. QED
  BY <1>1, <1>2, <1>3, <1>4, <1>5, <1>6, <1>7

\* A branch to a block of the function, where the instructions go from then on.
LEMMA GotoFurther ==
    ASSUME NEW c, Writable(c), NEW b, InLast(c, b), NEW k \in 1..Len(c.blk),
           NEW d, d = SetInsertPoint(CreateGoto(c, k), b)
    PROVE  Furthers(c, {}, d) /\ d.cur = b /\ HasNever(d, c.cur) /\ Len(d.blk) = Len(c.blk)
<1>1. PICK e, n : e = CreateGoto(c, k) /\ n = Len(c.blk)
  OBVIOUS
<1>2. k \in 1..n
  BY <1>1
<1>3. Along(c, {}, e) /\ Len(e.blk) = n /\ HasNever(e, c.cur)
  BY <1>1, <1>2, FurtherOps
<1>4. Furthers(c, {}, e)
  BY <1>3 DEF Along
<1>5. Writable(e) /\ InLast(e, b) /\ c.cur \in 1..n /\ Len(c.blk) \in Nat
  BY <1>1, <1>4, KeptLemma
<1>6. Furthers(e, {}, d) /\ d.cur = b /\ Len(d.blk) = n
  BY <1>1, <1>3, <1>5, FurtherPoint
<1>7. HasNever(d, c.cur)
  <2>1. c.cur \in 1..Len(e.blk)
    BY <1>3, <1>5
  <2>. QED
    BY <1>3, <1>6, <2>1 DEF Furthers
<1>8. Furthers(c, {}, d)
  BY <1>4, <1>5, <1>6, FurtherLemma
<1>. QED
  BY <1>1, <1>6, <1>7, <1>8

\* A conditional one.
LEMMA BranchFurther ==
    ASSUME NEW c, Writable(c), NEW b \in 1..Len(c.blk), InLast(c, b), NEW k \in 1..Len(c.blk), NEW r,
           NEW d, d = SetInsertPoint(CreateGotoIf(c, r, b, k), b)
    PROVE  Furthers(c, {}, d) /\ d.cur = b /\ HasNever(d, c.cur) /\ Len(d.blk) = Len(c.blk)
<1>1. PICK e, n : e = CreateGotoIf(c, r, b, k) /\ n = Len(c.blk)
  OBVIOUS
<1>2. k \in 1..n /\ b \in 1..n
  BY <1>1
<1>3. Along(c, {}, e) /\ Len(e.blk) = n /\ HasNever(e, c.cur)
  BY <1>1, <1>2, FurtherOps
<1>4. Furthers(c, {}, e)
  BY <1>3 DEF Along
<1>5. Writable(e) /\ InLast(e, b) /\ c.cur \in 1..n /\ Len(c.blk) \in Nat
  BY <1>1, <1>4, KeptLemma
<1>6. Furthers(e, {}, d) /\ d.cur = b /\ Len(d.blk) = n
  BY <1>1, <1>3, <1>5, FurtherPoint
<1>7. HasNever(d, c.cur)
  <2>1. c.cur \in 1..Len(e.blk)
    BY <1>3, <1>5
  <2>. QED
    BY <1>3, <1>6, <2>1 DEF Furthers
<1>8. Furthers(c, {}, d)
  BY <1>4, <1>5, <1>6, FurtherLemma
<1>. QED
  BY <1>1, <1>6, <1>7, <1>8

\* A block that is left, by a branch to k if it has to be.
LEMMA LeftFurther ==
    ASSUME NEW c, Writable(c), NEW k \in 1..Len(c.blk),
           NEW e, (e = c /\ HasNever(c, c.cur)) \/ e = CreateGoto(c, k)
    PROVE  Along(c, {}, e) /\ Len(e.blk) = Len(c.blk) /\ HasNever(e, c.cur)
<1>1. PICK n : n = Len(c.blk)
  OBVIOUS
<1>2. k \in 1..n
  BY <1>1
<1>3. CASE e = c /\ HasNever(c, c.cur)
  BY <1>3, WritableLemma
<1>4. CASE e = CreateGoto(c, k)
  BY <1>1, <1>2, <1>4, FurtherOps
<1>. QED
  BY <1>3, <1>4

\* A block laid out when the one before it is left, where the instructions go
\* from then on.
LEMMA PlaceFurther ==
    ASSUME NEW c, Writable(c), NEW b \in 1..Len(c.blk), NEW e, Along(c, {}, e),
           Len(e.blk) = Len(c.blk), HasNever(e, c.cur),
           NEW d, d = SetInsertPoint(AddBasicBlock(e, b), b), NEW X, b \in X
    PROVE  Furthers(c, X, d) /\ d.cur = b /\ HasNever(d, c.cur) /\ Len(d.blk) = Len(c.blk)
<1>1. PICK n : n = Len(c.blk)
  OBVIOUS
<1>2. b \in 1..n /\ n \in Nat /\ c.cur \in 1..n
  BY <1>1, WritableLemma
<1>3. Len(e.blk) = n
  BY <1>1
<1>4. Furthers(c, {}, e) /\ Writable(e)
  BY <1>3 DEF Along, Furthers
<1>5. PICK g : g = AddBasicBlock(e, b)
  OBVIOUS
<1>6. Along(e, {b}, g) /\ Len(g.blk) = n /\ InLast(g, b)
  <2>1. b \in 1..Len(e.blk)
    BY <1>2, <1>3
  <2>. QED
    BY <1>3, <1>4, <1>5, <2>1, FurtherAdd
<1>7. Furthers(e, {b}, g) /\ Writable(g)
  BY <1>6 DEF Along, Furthers
<1>8. Furthers(g, {}, d) /\ d.cur = b /\ Len(d.blk) = n
  BY <1>5, <1>6, <1>7, FurtherPoint
<1>9. Furthers(c, {b}, g)
  BY <1>4, <1>7, KeptLemma
<1>10. Furthers(c, X, d)
  <2>1. Furthers(c, {b}, d)
    BY <1>8, <1>9, KeptLemma
  <2>. QED
    BY <2>1 DEF Furthers
<1>11. HasNever(d, c.cur)
  <2>1. HasNever(g, c.cur)
    BY <1>2, <1>3, <1>7 DEF Furthers
  <2>. QED
    BY <1>2, <1>6, <1>8, <2>1 DEF Furthers
<1>. QED
  BY <1>1, <1>8, <1>10, <1>11

\* An instruction where the file is written on.
LEMMA LastFurther ==
    ASSUME NEW c, Writable(c), NEW X, NEW d, Furthers(c, X, d), NEW i, NEW e, e = Emit(d, i)
    PROVE  /\ Furthers(c, X, e.c) /\ e.c.cur = d.cur /\ ~IsEmpty(e.r) /\ Len(e.c.blk) = Len(d.blk)
           /\ \A b \in 1..Len(d.blk) : HasNever(d, b) => HasNever(e.c, b)
           /\ i.ty = "never" => HasNever(e.c, d.cur)
<1>1. PICK n : n = Len(d.blk)
  OBVIOUS
<1>2. Writable(d) /\ n \in Nat
  BY <1>1, KeptLemma
<1>3. /\ Along(d, {}, e.c) /\ ~IsEmpty(e.r) /\ Len(e.c.blk) = n
      /\ i.ty = "never" => HasNever(e.c, d.cur)
  BY <1>1, <1>2, FurtherOps
<1>4. Furthers(d, {}, e.c) /\ e.c.cur = d.cur
  BY <1>3 DEF Along
<1>5. Furthers(c, X, e.c)
  BY <1>4, KeptLemma
<1>6. \A b \in 1..Len(d.blk) : HasNever(d, b) => HasNever(e.c, b)
  BY <1>4 DEF Furthers
<1>. QED
  BY <1>1, <1>3, <1>4, <1>5, <1>6

\* The blocks of an if, of which Then is laid out.
LEMMA ThenFurther ==
    ASSUME NEW c, Writable(c), NEW r, NEW c1, c1 = NewBlock(c, "then"),
           NEW then, then = LastBlock(c1), NEW c2, c2 = NewBlock(AddBasicBlock(c1, then), "else"),
           NEW else, else = LastBlock(c2), NEW c3, c3 = NewBlock(c2, "ifcont"),
           NEW d, d = SetInsertPoint(CreateGotoIf(c3, r, then, else), then)
    PROVE  Furthers(c, {then}, d) /\ d.cur = then /\ HasNever(d, c.cur)
<1>1. PICK n : n = Len(c.blk)
  OBVIOUS
<1>2. n \in Nat /\ c.cur \in 1..n
  BY <1>1, WritableLemma
<1>3. Along(c, {}, c1) /\ Len(c1.blk) = n + 1 /\ then = n + 1
  BY <1>1, FurtherBlock
<1>4. Furthers(c, {}, c1) /\ Writable(c1) /\ then \in 1..Len(c1.blk)
  BY <1>2, <1>3 DEF Along, Furthers
<1>5. PICK a : a = AddBasicBlock(c1, then)
  OBVIOUS
<1>6. Along(c1, {then}, a) /\ Len(a.blk) = Len(c1.blk) /\ InLast(a, then)
  BY ONLY <1>4, <1>5, FurtherAdd
<1>7. Furthers(c1, {then}, a) /\ Writable(a)
  BY <1>6 DEF Along, Furthers
<1>8. PICK m : m = Len(a.blk)
  OBVIOUS
<1>9. Along(a, {}, c2) /\ Len(c2.blk) = m + 1 /\ else = m + 1
  BY <1>5, <1>7, <1>8, FurtherBlock
<1>10. Furthers(a, {}, c2) /\ Writable(c2)
  BY <1>9 DEF Along, Furthers
<1>11. PICK l : l = Len(c2.blk)
  OBVIOUS
<1>12. Along(c2, {}, c3) /\ Len(c3.blk) = l + 1
  BY <1>10, <1>11, FurtherBlock
<1>13. Furthers(c2, {}, c3) /\ Writable(c3)
  BY <1>12 DEF Along, Furthers
<1>14. InLast(c3, then) /\ then \in 1..Len(c3.blk) /\ else \in 1..Len(c3.blk)
  <2>1. InLast(c3, then)
    BY <1>6, <1>10, <1>13 DEF Furthers
  <2>2. Len(c3.blk) = n + 3 /\ then = n + 1 /\ else = n + 2
    BY <1>2, <1>3, <1>6, <1>8, <1>9, <1>11, <1>12
  <2>. QED
    BY <1>2, <2>1, <2>2
<1>15. Furthers(c3, {}, d) /\ d.cur = then /\ HasNever(d, c3.cur)
  BY <1>13, <1>14, BranchFurther
<1>16. c3.cur = c.cur
  BY <1>3, <1>6, <1>9, <1>12 DEF Along
<1>17. Furthers(c, {then}, a)
  BY <1>4, <1>7, KeptLemma
<1>18. Furthers(c, {then}, c2)
  BY <1>10, <1>17, KeptLemma
<1>19. Furthers(c, {then}, c3)
  BY <1>13, <1>18, KeptLemma
<1>20. Furthers(c, {then}, d)
  BY <1>15, <1>19, KeptLemma
<1>. QED
  BY <1>15, <1>16, <1>20

\* A value of Then or of Else that is converted, where it is.
LEMMA ValueFurther ==
    ASSUME NEW c, Writable(c), NEW r, NEW from, NEW to,
           NEW e, e = Convert(c, r, from, to) \/ e = [c |-> c, r |-> r]
    PROVE  /\ Furthers(c, {}, e.c) /\ e.c.cur = c.cur /\ Len(e.c.blk) = Len(c.blk)
           /\ HasNever(c, c.cur) => HasNever(e.c, c.cur)
<1>1. Along(c, {}, e.c) /\ Len(e.c.blk) = Len(c.blk)
  <2>1. CASE e = Convert(c, r, from, to)
    BY <2>1, FurtherConvert
  <2>2. CASE e = [c |-> c, r |-> r]
    BY <2>2, WritableLemma
  <2>. QED
    BY <2>1, <2>2
<1>2. Furthers(c, {}, e.c) /\ e.c.cur = c.cur
  BY <1>1 DEF Along
<1>3. HasNever(c, c.cur) => HasNever(e.c, c.cur)
  BY <1>2, KeptLemma
<1>. QED
  BY <1>1, <1>2, <1>3

\* IfExprAST::cir_gen.
LEMMA IfFlowing ==
    ASSUME NEW S, NEW Q, Honest(S, Q), Writing(S, Q),
           IfExpr_gen \/ IfExpr_then \/ IfExpr_untyped \/ IfExpr_noElse \/ IfExpr_else
           \/ IfExpr_merge \/ IfExpr_abandon
    PROVE  Proceeds(S, Q)
<1>1. /\ IInv /\ frames # << >> /\ status = "gen"
      /\ Top.node \in Nodes /\ Top.node.kids \in Seq(Nodes) /\ Top.i \in Nat
      /\ Top \in FrameType(Len(cir.blk)) /\ Top.defers \in Seq(Q)
      /\ scopes \in Seq(Seq(Q)) /\ Along(cir, {}, cir) /\ Len(cir.blk) \in Nat
      /\ Over(S, Top) => HasNever(cir, cir.cur)
  BY MethodLemma
<1>2. Writable(cir)
  BY <1>1 DEF Along, Furthers
<1>3. Top.node.kind = "if" => /\ Top.node \notin S /\ Top.node \notin Q /\ ~Answers(Top.node)
                              /\ \A b : ~Resumes(Top, b)
                              /\ \A k \in 2..Len(Top.node.kids) :
                                    Diverts(Top.node.kids[k]) => Top.node.kids[k] \in S
  <2>1. Top.node.kind = "if" => /\ Top.node \notin S /\ Top.node \notin Q /\ ~Answers(Top.node)
                                /\ \A b : ~Resumes(Top, b)
    BY SimpleKinds DEF Answers, Resumes
  <2>2. Top.node.kind = "if" => \A k \in 2..Len(Top.node.kids) :
                                  Diverts(Top.node.kids[k]) => Top.node.kids[k] \in S
    BY <1>1 DEF Honest
  <2>. QED
    BY <2>1, <2>2
\* The blocks that an if holds.
<1>4. ASSUME Top.node.kind = "if", Top.at \in {"then", "else"}
      PROVE  Top.alt \in 1..Len(cir.blk) /\ Top.after \in 1..Len(cir.blk)
  <2>1. Top.alt \in 0..Len(cir.blk) /\ Top.after \in 0..Len(cir.blk)
    BY <1>1, TopLemma
  <2>2. Top.alt # 0 /\ Top.after # 0
    BY <1>1, <1>4, MethodLemma DEF HeldBlocks
  <2>. QED
    BY <1>1, <2>1, <2>2
<1>5. CASE IfExpr_untyped
  BY <1>5 DEF IfExpr_untyped, Abort, Proceeds
<1>6. CASE IfExpr_abandon
  <2>1. /\ frames' = Front(frames) /\ cir' = cir /\ scopes' = scopes /\ status' = "gen"
        /\ Top.node.kind = "if" /\ Top.at \in {"cond", "else"}
    BY <1>1, <1>6 DEF IfExpr_abandon, Leave, Steady, At
  <2>. QED
    BY <1>1, <1>3, <2>1, LeaveAlong
<1>7. CASE IfExpr_gen
  <2>1. PICK f, e : f = [Top EXCEPT !.at = "cond"] /\ e = Top.node.kids[1]
    OBVIOUS
  <2>2. /\ Top.node.kind = "if" /\ Top.at = "start" /\ Enter(f, e) /\ cir' = cir /\ status' = "gen"
        /\ scopes' = scopes
    BY <1>1, <1>7, <2>1 DEF IfExpr_gen, At, Steady, SameStacks
  <2>3. f.node = Top.node /\ f.defers = Top.defers /\ f.at = "cond"
    BY <1>1, <2>1 DEF FrameType
  <2>4. ~Over(S, f)
    BY <2>2, <2>3 DEF Over
  <2>. QED
    BY <1>1, <1>3, <2>2, <2>3, <2>4, GoOnAlong
\* Then and Else begin, in a block that is laid out where the code before ends.
<1>8. ASSUME NEW f, NEW e, NEW b, Enter(f, e), status' = "gen", scopes' = scopes,
             Furthers(cir, {b}, cir'), cir'.cur = b, HasNever(cir', cir.cur),
             f.node = Top.node, Top.node.kind = "if", Top.at \in {"cond", "then"},
             f.defers = Top.defers,
             (f.at = "then" /\ e = Top.node.kids[2])
             \/ (f.at = "else" /\ e = Top.node.kids[3] /\ Len(Top.node.kids) = 3)
      PROVE  Proceeds(S, Q)
  <2>1. Len(Top.node.kids) \in {2, 3}
    BY <1>1, <1>8, ProgramsAssumption
  <2>2. Over(S, f) => e \in S
    <3>1. 2 \in 2..Len(Top.node.kids) /\ (Len(Top.node.kids) = 3 => 3 \in 2..Len(Top.node.kids))
      BY <2>1
    <3>. QED
      BY <1>3, <1>8, <3>1 DEF Over
  <2>3. Awaits(S, f, e)
    BY <1>8, <2>2 DEF Awaits
  <2>4. ~Stay(f) /\ \A k : ~Resumes(f, k)
    BY <1>8, StayOnly DEF Resumes
  <2>5. f.at # "endScope" /\ f.at # "start" /\ f.node \notin Q
    BY <1>3, <1>8
  <2>6. Flowing(S, Q)' /\ frames' # << >>
    <3>1. PICK X : Furthers(cir, X, cir') /\ \A k : k \in X => k = b
      BY <1>8
    <3>2. \A k : k \in X \/ k = cir.cur \/ Resumes(Top, k)
                   => HasNever(cir', k) \/ k = cir'.cur \/ Resumes(f, k)
      BY <1>3, <1>8, <3>1
    <3>. QED
      BY <1>1, <1>3, <1>8, <2>3, <2>4, <2>5, <3>1, <3>2, GoOnFlowing
  <2>. QED
    BY <1>8, <2>6 DEF Proceeds
<1>9. CASE IfExpr_then
  <2>1. PICK c, e : c = cir /\ e = Convert(cir, ret, Top.node.kids[1].ty, "bool")
    OBVIOUS
  <2>2. PICK c1 : c1 = NewBlock(e.c, "then")
    OBVIOUS
  <2>3. PICK then : then = LastBlock(c1)
    OBVIOUS
  <2>4. PICK c2 : c2 = NewBlock(AddBasicBlock(c1, then), "else")
    OBVIOUS
  <2>5. PICK else : else = LastBlock(c2)
    OBVIOUS
  <2>6. PICK c3 : c3 = NewBlock(c2, "ifcont")
    OBVIOUS
  <2>7. PICK d, n : d = SetInsertPoint(CreateGotoIf(c3, e.r, then, else), then) /\ n = LastBlock(c3)
    OBVIOUS
  <2>8. PICK f : f = [Top EXCEPT !.at = "then", !.body = then, !.alt = else, !.after = n]
    OBVIOUS
  <2>9. /\ Top.node.kind = "if" /\ Top.at = "cond" /\ cir' = d /\ Enter(f, Top.node.kids[2])
        /\ status' = "gen" /\ scopes' = scopes
    BY <1>1, <1>9, <2>1, <2>2, <2>3, <2>4, <2>5, <2>6, <2>7, <2>8 DEF IfExpr_then, At, Steady, SameStacks
  <2>10. f.node = Top.node /\ f.defers = Top.defers /\ f.at = "then"
    BY <1>1, <2>8 DEF FrameType
  <2>11. Furthers(c, {}, e.c) /\ e.c.cur = c.cur /\ Writable(e.c) /\ Writable(c)
    BY <1>2, <2>1, ValueFurther, KeptLemma
  <2>12. Furthers(e.c, {then}, d) /\ d.cur = then /\ HasNever(d, e.c.cur)
    BY ONLY <2>2, <2>3, <2>4, <2>5, <2>6, <2>7, <2>11, ThenFurther
  <2>13. Furthers(c, {then}, d)
    BY <2>11, <2>12, KeptLemma
  <2>. QED
    BY <1>8, <2>1, <2>9, <2>10, <2>11, <2>12, <2>13
\* The code between Then and Else.
<1>10. ASSUME Top.node.kind = "if", Top.at = "then", NEW d, d = ElseBlock(cir)
       PROVE  /\ Furthers(cir, {Top.alt}, d) /\ d.cur = Top.alt /\ HasNever(d, cir.cur)
              /\ Len(d.blk) = Len(cir.blk)
  <2>1. PICK c, b, k : c = cir /\ b = Top.alt /\ k = Top.after
    OBVIOUS
  <2>2. PICK e : e = IF Diverts(Top.node.kids[2]) THEN c ELSE CreateGoto(c, k)
    OBVIOUS
  <2>3. Diverts(Top.node.kids[2]) => HasNever(c, c.cur)
    BY <1>1, <1>10, <2>1 DEF Over
  <2>4. b \in 1..Len(c.blk) /\ k \in 1..Len(c.blk) /\ Writable(c)
    BY <1>2, <1>4, <1>10, <2>1
  <2>5. d = SetInsertPoint(AddBasicBlock(e, b), b)
    BY <1>10, <2>1, <2>2 DEF ElseBlock
  <2>6. (e = c /\ HasNever(c, c.cur)) \/ e = CreateGoto(c, k)
    BY <2>2, <2>3
  <2>7. Furthers(c, {b}, d) /\ d.cur = b /\ HasNever(d, c.cur) /\ Len(d.blk) = Len(c.blk)
    <3>1. Along(c, {}, e) /\ Len(e.blk) = Len(c.blk) /\ HasNever(e, c.cur)
      BY ONLY <2>4, <2>6, LeftFurther
    <3>. QED
      BY ONLY <2>4, <2>5, <3>1, PlaceFurther
  <2>. QED
    BY <2>1, <2>7
<1>11. CASE IfExpr_else
  <2>1. PICK f : f = [Top EXCEPT !.at = "else", !.keep = ret, !.body = cir.cur]
    OBVIOUS
  <2>2. /\ Top.node.kind = "if" /\ Top.at = "then" /\ cir' = ElseBlock(cir)
        /\ Enter(f, Top.node.kids[3]) /\ Len(Top.node.kids) = 3
        /\ status' = "gen" /\ scopes' = scopes
    BY <1>1, <1>11, <2>1 DEF IfExpr_else, At, Steady, SameStacks
  <2>3. f.node = Top.node /\ f.defers = Top.defers /\ f.at = "else"
    BY <1>1, <2>1 DEF FrameType
  <2>4. PICK b : b = Top.alt
    OBVIOUS
  <2>5. Furthers(cir, {b}, cir') /\ cir'.cur = b /\ HasNever(cir', cir.cur)
    BY <1>10, <2>2, <2>4
  <2>. QED
    BY <1>8, <2>2, <2>3, <2>5
\* The code after Else: a void or a phi, in the block after the if.
<1>12. ASSUME NEW X, NEW c, Furthers(cir, X, c), NEW i, EmitAndLeave(c, i), status' = "gen",
              scopes' = scopes, Top.node.kind = "if", Top.at \in {"then", "else"},
              \A b : b \in X \/ b = cir.cur => HasNever(c, b) \/ b = c.cur,
              \A b : b \in X => b \in 1..Len(c.blk)
       PROVE  Proceeds(S, Q)
  <2>1. PICK e : e = Emit(c, i)
    OBVIOUS
  <2>2. cir' = e.c /\ ret' = e.r /\ frames' = Front(frames)
    BY <1>12, <2>1 DEF EmitAndLeave, Leave
  <2>3. /\ Furthers(cir, X, e.c) /\ e.c.cur = c.cur
        /\ \A b \in 1..Len(c.blk) : HasNever(c, b) => HasNever(e.c, b)
    <3>1. PICK a : a = cir
      OBVIOUS
    <3>2. Writable(a) /\ Furthers(a, X, c)
      <4>1. Writable(cir) /\ Furthers(cir, X, c)
        BY <1>2, <1>12
      <4>. QED
        BY ONLY <3>1, <4>1
    <3>3. /\ Writable(c) /\ Len(c.blk) \in Nat
          /\ \A Y, d : Furthers(c, Y, d) => \A Z : X \subseteq Z /\ Y \subseteq Z => Furthers(a, Z, d)
      BY ONLY <3>2, KeptLemma
    <3>4. /\ Furthers(c, {}, e.c) /\ e.c.cur = c.cur
      BY ONLY <2>1, <3>3, FurtherOps DEF Along
    <3>5. \A b \in 1..Len(c.blk) : HasNever(c, b) => HasNever(e.c, b)
      BY ONLY <3>4 DEF Furthers
    <3>6. Furthers(a, X, e.c)
      BY ONLY <3>3, <3>4
    <3>. QED
      BY <3>1, <3>4, <3>5, <3>6
  <2>4. cir.cur \in 1..Len(c.blk)
    BY <1>2, <1>12, KeptLemma
  <2>5. \A b : b \in X \/ b = cir.cur \/ Resumes(Top, b) => HasNever(cir', b) \/ b = cir'.cur
    BY <1>3, <1>12, <2>2, <2>3, <2>4
  <2>6. Flowing(S, Q)' /\ frames' # << >>
    BY <1>1, <1>3, <1>12, <2>2, <2>3, <2>5, LeaveFlowing
  <2>. QED
    BY <1>12, <2>6 DEF Proceeds
<1>13. CASE IfExpr_noElse
  <2>1. PICK d, b, k, i : /\ d = ElseBlock(cir) /\ b = Top.after /\ k = Top.alt
                          /\ i = Instr("ConstVoid", "void", << >>)
    OBVIOUS
  <2>2. PICK g : g = SetInsertPoint(AddBasicBlock(CreateGoto(d, b), b), b)
    OBVIOUS
  <2>3. /\ Top.node.kind = "if" /\ Top.at = "then" /\ EmitAndLeave(g, i)
        /\ status' = "gen" /\ scopes' = scopes
    BY <1>1, <1>13, <2>1, <2>2 DEF IfExpr_noElse, MergeBlock, At, Steady, SameStacks
  <2>4. /\ Furthers(cir, {k}, d) /\ d.cur = k /\ HasNever(d, cir.cur)
        /\ Len(d.blk) = Len(cir.blk)
    BY <1>10, <2>1, <2>3
  <2>5. b \in 1..Len(d.blk) /\ k \in 1..Len(d.blk)
    BY <1>4, <2>1, <2>3, <2>4
  <2>6. Writable(d) /\ cir.cur \in 1..Len(cir.blk)
    BY <1>2, <2>4, KeptLemma
  <2>7. PICK a : a = CreateGoto(d, b)
    OBVIOUS
  <2>8. Furthers(d, {b}, g) /\ g.cur = b /\ HasNever(g, d.cur) /\ Len(g.blk) = Len(d.blk)
    <3>1. Along(d, {}, a) /\ Len(a.blk) = Len(d.blk) /\ HasNever(a, d.cur)
      BY ONLY <2>5, <2>6, <2>7, LeftFurther
    <3>2. g = SetInsertPoint(AddBasicBlock(a, b), b)
      BY <2>2, <2>7
    <3>. QED
      BY ONLY <2>5, <2>6, <3>1, <3>2, PlaceFurther
  <2>9. Furthers(cir, {b, k}, g)
    BY <1>2, <2>4, <2>8, KeptLemma
  <2>10. HasNever(g, cir.cur)
    BY <2>4, <2>6, <2>8 DEF Furthers
  <2>11. \A x : x \in {b, k} \/ x = cir.cur => HasNever(g, x) \/ x = g.cur
    BY <2>4, <2>8, <2>10
  <2>12. \A x : x \in {b, k} => x \in 1..Len(g.blk)
    BY <2>5, <2>8
  <2>13. PICK X : X = {b, k}
    OBVIOUS
  <2>. QED
    BY <1>12, <2>3, <2>9, <2>11, <2>12, <2>13
<1>14. CASE IfExpr_merge
  <2>1. PICK then, else : then = Top.node.kids[2] /\ else = Top.node.kids[3]
    OBVIOUS
  <2>2. PICK e : e = IF else.ty = "void" THEN [c |-> cir, r |-> ret]
                     ELSE Convert(cir, ret, else.ty, then.ty)
    OBVIOUS
  <2>3. PICK c, i : /\ c = e.c
                    /\ i = IF Diverts(then) \/ Diverts(else) \/ then.ty = "void"
                           THEN Instr("ConstVoid", "void", << >>)
                           ELSE PhiInstr(then.ty, Top.body, Top.keep, Top.alt, e.r)
    OBVIOUS
  <2>4. PICK a, b : a = (IF Diverts(else) THEN c ELSE CreateGoto(c, b)) /\ b = Top.after
    OBVIOUS
  <2>5. PICK g : g = SetInsertPoint(AddBasicBlock(a, b), b)
    OBVIOUS
  <2>6. /\ Top.node.kind = "if" /\ Top.at = "else" /\ EmitAndLeave(g, i)
        /\ status' = "gen" /\ scopes' = scopes
    BY <1>1, <1>14, <2>1, <2>2, <2>3, <2>4, <2>5
       DEF IfExpr_merge, MergeBlock, At, Steady, SameStacks
  <2>7. /\ Furthers(cir, {}, c) /\ c.cur = cir.cur /\ Len(c.blk) = Len(cir.blk)
        /\ HasNever(cir, cir.cur) => HasNever(c, cir.cur)
    <3>1. e = Convert(cir, ret, else.ty, then.ty) \/ e = [c |-> cir, r |-> ret]
      BY <2>2
    <3>. QED
      BY <1>2, <2>3, <3>1, ValueFurther
  <2>8. Writable(c) /\ b \in 1..Len(c.blk)
    BY <1>2, <1>4, <2>4, <2>6, <2>7, KeptLemma
  <2>9. (a = c /\ HasNever(c, c.cur)) \/ a = CreateGoto(c, b)
    <3>1. Diverts(else) => HasNever(cir, cir.cur)
      BY <1>1, <2>1, <2>6 DEF Over
    <3>. QED
      BY <2>4, <2>7, <3>1
  <2>10. Furthers(c, {b}, g) /\ g.cur = b /\ HasNever(g, c.cur) /\ Len(g.blk) = Len(c.blk)
    <3>1. Along(c, {}, a) /\ Len(a.blk) = Len(c.blk) /\ HasNever(a, c.cur)
      BY ONLY <2>8, <2>9, LeftFurther
    <3>. QED
      BY ONLY <2>5, <2>8, <3>1, PlaceFurther
  <2>11. Furthers(cir, {b}, g)
    BY <1>2, <2>7, <2>10, KeptLemma
  <2>12. PICK X : X = {b}
    OBVIOUS
  <2>13. \A x : x \in X \/ x = cir.cur => HasNever(g, x) \/ x = g.cur
    BY <2>7, <2>10, <2>12
  <2>14. \A x : x \in X => x \in 1..Len(g.blk)
    BY <2>8, <2>10, <2>12
  <2>. QED
    BY <1>12, <2>6, <2>11, <2>12, <2>13, <2>14
<1>. QED
  BY <1>5, <1>6, <1>7, <1>9, <1>11, <1>13, <1>14

\* Where the code of a method begins.
LEMMA StartLemma ==
    ASSUME NEW S, NEW Q, Honest(S, Q), Writing(S, Q)
    PROVE  /\ Top.node.kids \in Seq(Nodes) /\ Writable(cir)
           /\ Top.node.kind \in {"loop", "for", "while"} =>
                 Top.node \notin Q /\ (Top.node.kind # "while" => Top.node \notin S)
           /\ scopes' = Append(scopes, << >>) => scopes' \in Seq(Seq(Q))
           /\ Top.node.kind \in Scoped /\ Top.at = "endScope" =>
                 scopes # << >> /\ Front(scopes) \in Seq(Seq(Q))
<1>1. /\ IInv /\ frames # << >> /\ status = "gen" /\ Top.node.kids \in Seq(Nodes)
      /\ scopes \in Seq(Seq(Q)) /\ Writable(cir)
  BY MethodLemma, WritingLemma
<1>2. Top.node.kind \in {"loop", "for", "while"} =>
         Top.node \notin Q /\ (Top.node.kind # "while" => Top.node \notin S)
  BY SimpleKinds
<1>3. Top.node.kind \in Scoped /\ Top.at = "endScope" => scopes # << >>
  <2>1. Top.node.kind \in Scoped /\ Top.at = "endScope" => At(Scoped, "endScope")
    BY <1>1 DEF At
  <2>. QED
    BY <1>1, <2>1, OpenLemma
<1>4. scopes # << >> => Front(scopes) \in Seq(Seq(Q))
  BY <1>1, DeferredLemma
<1>5. scopes' = Append(scopes, << >>) => scopes' \in Seq(Seq(Q))
  BY <1>1, DeferredLemma
<1>. QED
  BY <1>1, <1>2, <1>3, <1>4, <1>5

\* LoopExprAST::cir_gen without a variable.
LEMMA LoopFlowing ==
    ASSUME NEW S, NEW Q, Honest(S, Q), Writing(S, Q),
           LoopExpr_gen \/ LoopExpr_end \/ LoopExpr_abandon
    PROVE  Proceeds(S, Q)
<1>1. /\ frames # << >> /\ status = "gen" /\ HeldBlocks(Top)
      /\ Top \in FrameType(Len(cir.blk)) /\ Top.defers \in Seq(Q)
      /\ scopes \in Seq(Seq(Q)) /\ Along(cir, {}, cir) /\ Len(cir.blk) \in Nat
  BY MethodLemma
<1>2. /\ Writable(cir)
      /\ Top.node.kind = "loop" => Top.node \notin Q /\ Top.node \notin S
      /\ scopes' = Append(scopes, << >>) => scopes' \in Seq(Seq(Q))
      /\ Top.node.kind = "loop" /\ Top.at = "endScope" => Front(scopes) \in Seq(Seq(Q))
  BY StartLemma DEF Scoped
<1>3. CASE LoopExpr_gen
  <2>1. PICK n, x : n = LastBlock(NewBlock(cir, x)) /\ x = "loop_infinite"
    OBVIOUS
  <2>2. PICK f : f = [Top EXCEPT !.at = "body", !.head = n]
    OBVIOUS
  <2>3. /\ cir' = SetInsertPoint(CreateGoto(Added(cir, x), n), n) /\ Stay(f)
        /\ scopes' = Append(scopes, << >>) /\ status' = "gen"
        /\ Top.node.kind = "loop" /\ Top.at = "start"
    BY <1>1, <1>3, <2>1, <2>2 DEF LoopExpr_gen, Added, OpenScope, Steady, At
  <2>4. PICK c, d, X : c = cir /\ d = cir' /\ X = {n}
    OBVIOUS
  <2>5. Furthers(c, X, d) /\ d.cur = n /\ HasNever(d, c.cur)
    <3>1. /\ Len(c.blk) \in Nat /\ Writable(c) /\ n = LastBlock(NewBlock(c, x))
          /\ d = SetInsertPoint(CreateGoto(Added(c, x), n), n) /\ n \in X
      BY <1>1, <1>2, <2>1, <2>3, <2>4
    <3>. QED
      BY ONLY <3>1, JumpFurther
  <2>6. f.node = Top.node /\ f.defers = Top.defers /\ f.at = "body"
    BY <1>1, <2>2 DEF FrameType
  <2>7. ~Over(S, f) /\ \A b : ~Resumes(f, b) /\ ~Resumes(Top, b)
    BY <2>3, <2>6 DEF Over, Resumes
  <2>8. PICK e : e = f
    OBVIOUS
  <2>9. ~Enter(f, e)
    BY <2>3, StayOnly
  <2>10. \A b : b \in X \/ b = cir.cur \/ Resumes(Top, b)
                   => HasNever(cir', b) \/ b = cir'.cur \/ Resumes(f, b)
    BY <2>4, <2>5, <2>7
  <2>11. Flowing(S, Q)' /\ frames' # << >>
    BY <1>1, <1>2, <2>3, <2>4, <2>5, <2>6, <2>7, <2>9, <2>10, GoOnFlowing
  <2>. QED
    BY <2>3, <2>11 DEF Proceeds
<1>4. CASE LoopExpr_end
  <2>1. PICK b, i, g : b = Top.head /\ i = Instr("ConstNever", "never", << >>) /\ g = CreateGoto(cir, b)
    OBVIOUS
  <2>2. /\ Top.node.kind = "loop" /\ Top.at = "endScope" /\ EmitAndLeave(g, i)
        /\ status' = "gen" /\ scopes' = Front(scopes)
    BY <1>1, <1>4, <2>1 DEF LoopExpr_end, CloseScope, At, Steady
  <2>3. b \in 1..Len(cir.blk)
    BY <1>1, <2>1, <2>2 DEF HeldBlocks, FrameType
  <2>4. Along(cir, {}, g)
    BY <1>1, <2>1, <2>3, AlongGoto
  <2>. QED
    BY <1>2, <2>2, <2>4, EmitAlong
<1>5. CASE LoopExpr_abandon
  <2>1. /\ frames' = Front(frames) /\ cir' = cir /\ scopes' = scopes /\ status' = "gen"
        /\ Top.node.kind = "loop" /\ Top.at = "body" /\ ~Answers(Top.node)
    BY <1>1, <1>5 DEF LoopExpr_abandon, Leave, Steady, SameStacks, At, Answers
  <2>. QED
    BY <1>1, <1>2, <2>1, LeaveAlong
<1>. QED
  BY <1>3, <1>4, <1>5

\* The instruction that a method makes last, on a file it has written on.
LEMMA LastLeave ==
    ASSUME NEW S, NEW Q, Writing(S, Q), NEW X, NEW c, Furthers(cir, X, c),
           NEW i, EmitAndLeave(c, i), status' = "gen", scopes' \in Seq(Seq(Q)),
           Top.node \notin Q, Top.node \in S => i.ty = "never",
           Top.node.kind # "function", Top.at # "args",
           \A b : b \in X \/ b = cir.cur \/ Resumes(Top, b) => HasNever(c, b) \/ b = c.cur,
           \A b : b \in X \/ Resumes(Top, b) => b \in 1..Len(c.blk)
    PROVE  Proceeds(S, Q)
<1>1. Writable(cir)
  BY WritingLemma
<1>2. PICK e : e = Emit(c, i)
  OBVIOUS
<1>3. cir' = e.c /\ ret' = e.r /\ frames' = Front(frames)
  BY <1>2 DEF EmitAndLeave, Leave
<1>4. PICK a : a = cir
  OBVIOUS
<1>5. Writable(a) /\ Furthers(a, X, c)
  BY <1>1, <1>4
<1>6. /\ Writable(c) /\ Len(c.blk) \in Nat /\ a.cur \in 1..Len(c.blk)
      /\ \A Y, d : Furthers(c, Y, d) => \A Z : X \subseteq Z /\ Y \subseteq Z => Furthers(a, Z, d)
  BY ONLY <1>5, KeptLemma
<1>7. /\ Furthers(c, {}, e.c) /\ e.c.cur = c.cur /\ ~IsEmpty(e.r)
      /\ i.ty = "never" => HasNever(e.c, c.cur)
  BY ONLY <1>2, <1>6, FurtherOps DEF Along
<1>8. \A b \in 1..Len(c.blk) : HasNever(c, b) => HasNever(e.c, b)
  BY ONLY <1>7 DEF Furthers
<1>9. Furthers(a, X, e.c)
  BY ONLY <1>6, <1>7
<1>10. \A b : b \in X \/ b = cir.cur \/ Resumes(Top, b) => HasNever(cir', b) \/ b = cir'.cur
  BY <1>3, <1>4, <1>6, <1>7, <1>8
<1>11. Furthers(cir, X, cir')
  BY ONLY <1>3, <1>4, <1>9
<1>12. (Top.node \in S => HasNever(cir', cir'.cur)) /\ ~IsEmpty(ret')
  BY <1>3, <1>7
<1>13. Flowing(S, Q)' /\ frames' # << >>
  BY <1>3, <1>10, <1>11, <1>12, LeaveFlowing
<1>. QED
  BY <1>13 DEF Proceeds

\* A block that is made and laid out.
LEMMA AddedFurther ==
    ASSUME NEW c, Writable(c), NEW base, NEW d, d = Added(c, base), NEW n, n = LastBlock(d),
           NEW X, n \in X
    PROVE  /\ Furthers(c, X, d) /\ d.cur = c.cur /\ InLast(d, n) /\ n \in 1..Len(d.blk)
           /\ Writable(d) /\ Len(d.blk) \in Nat /\ Len(d.blk) = n
           /\ n = LastBlock(NewBlock(c, base))
<1>1. PICK k : k = LastBlock(NewBlock(c, base))
  OBVIOUS
<1>2. k = Len(c.blk) + 1 /\ Len(c.blk) \in Nat
  BY <1>1, FurtherBlock, WritableLemma
<1>3. Along(c, {k}, d) /\ Len(d.blk) = k /\ InLast(d, k)
  BY <1>2, FurtherOps
<1>4. Furthers(c, {n}, d) /\ d.cur = c.cur /\ Writable(d) /\ n = k
  BY <1>3 DEF Along, Furthers, LastBlock
<1>5. Furthers(c, X, d)
  BY <1>4 DEF Furthers
<1>. QED
  BY <1>1, <1>2, <1>3, <1>4, <1>5

\* The blocks of a while before its condition.
LEMMA WhileFurther ==
    ASSUME NEW c, Writable(c), NEW g, g = Added(c, "while"), NEW w, w = LastBlock(g),
           NEW h, h = SetInsertPoint(CreateGoto(g, w), w), NEW d, d = Added(h, "loop_while"),
           NEW n, n = LastBlock(d), NEW X, w \in X, n \in X
    PROVE  Furthers(c, X, d) /\ d.cur = w /\ HasNever(d, c.cur) /\ InLast(d, n)
<1>1. PICK x, y : x = "while" /\ y = "loop_while"
  OBVIOUS
<1>2. g = Added(c, x) /\ d = Added(h, y)
  BY <1>1
<1>3. w = LastBlock(NewBlock(c, x))
  <2>1. PICK a, m, X1 : a = Added(c, x) /\ m = LastBlock(a) /\ X1 = {m}
    OBVIOUS
  <2>2. m \in X1 /\ Writable(c)
    BY <2>1
  <2>3. m = LastBlock(NewBlock(c, x))
    BY ONLY <2>1, <2>2, AddedFurther
  <2>. QED
    BY <1>2, <2>1, <2>3
<1>4. Len(c.blk) \in Nat /\ h = SetInsertPoint(CreateGoto(Added(c, x), w), w)
  BY <1>2, WritableLemma
<1>5. Furthers(c, X, h) /\ h.cur = w /\ HasNever(h, c.cur) /\ c.cur \in 1..Len(c.blk)
  BY ONLY Writable(c), <1>3, <1>4, w \in X, JumpFurther
<1>6. Writable(h) /\ c.cur \in 1..Len(h.blk)
  BY ONLY Writable(c), <1>5, KeptLemma
<1>7. Furthers(h, X, d) /\ d.cur = h.cur /\ InLast(d, n)
  BY ONLY <1>2, <1>6, n = LastBlock(d), n \in X, AddedFurther
<1>8. Furthers(c, X, d)
  BY ONLY Writable(c), <1>5, <1>7, KeptLemma
<1>9. HasNever(d, c.cur)
  BY ONLY <1>5, <1>6, <1>7 DEF Furthers
<1>. QED
  BY ONLY <1>5, <1>7, <1>8, <1>9

\* Those before its body, which begins in block b.
LEMMA WhileBodyFurther ==
    ASSUME NEW c, Writable(c), NEW b, InLast(c, b), NEW r, NEW g, g = Added(c, "afterloop_while"),
           NEW n, n = LastBlock(g), NEW d, d = SetInsertPoint(CreateGotoIf(g, r, b, n), b),
           NEW X, n \in X
    PROVE  Furthers(c, X, d) /\ d.cur = b /\ HasNever(d, c.cur) /\ InLast(d, n)
<1>1. PICK x : x = "afterloop_while"
  OBVIOUS
<1>2. g = Added(c, x)
  BY <1>1
<1>3. /\ Furthers(c, X, g) /\ g.cur = c.cur /\ InLast(g, n) /\ n \in 1..Len(g.blk) /\ Writable(g)
  BY ONLY Writable(c), <1>2, n = LastBlock(g), n \in X, AddedFurther
<1>4. InLast(g, b) /\ b \in 1..Len(g.blk)
  <2>1. InLast(g, b)
    BY <1>3 DEF Furthers
  <2>. QED
    BY <1>3, <2>1, WritableLemma
<1>5. Furthers(g, {}, d) /\ d.cur = b /\ HasNever(d, g.cur)
  BY ONLY <1>3, <1>4, d = SetInsertPoint(CreateGotoIf(g, r, b, n), b), BranchFurther
<1>6. Furthers(c, X, d)
  BY ONLY Writable(c), <1>3, <1>5, KeptLemma
<1>7. InLast(d, n)
  BY ONLY <1>3, <1>5 DEF Furthers
<1>. QED
  BY ONLY <1>3, <1>5, <1>6, <1>7

\* WhileExprAST::cir_gen.
LEMMA WhileFlowing ==
    ASSUME NEW S, NEW Q, Honest(S, Q), Writing(S, Q),
           WhileExpr_gen \/ WhileExpr_body \/ WhileExpr_abandon \/ WhileExpr_end
    PROVE  Proceeds(S, Q)
<1>1. /\ frames # << >> /\ status = "gen" /\ HeldBlocks(Top) /\ Top.node \in Nodes
      /\ Top \in FrameType(Len(cir.blk)) /\ Top.defers \in Seq(Q)
      /\ scopes \in Seq(Seq(Q)) /\ Len(cir.blk) \in Nat
      /\ \A b : Resumes(Top, b) => InLast(cir, b)
  BY MethodLemma
<1>2. /\ Writable(cir)
      /\ Top.node.kind = "while" => Top.node \notin Q
      /\ scopes' = Append(scopes, << >>) => scopes' \in Seq(Seq(Q))
      /\ Top.node.kind = "while" /\ Top.at = "endScope" => Front(scopes) \in Seq(Seq(Q))
  BY StartLemma DEF Scoped
<1>3. CASE WhileExpr_gen
  <2>1. PICK c, d, g : c = cir /\ d = cir' /\ g = Added(cir, "while")
    OBVIOUS
  <2>2. PICK w : w = LastBlock(g)
    OBVIOUS
  <2>3. PICK h : h = SetInsertPoint(CreateGoto(g, w), w)
    OBVIOUS
  <2>4. PICK n : n = LastBlock(Added(h, "loop_while"))
    OBVIOUS
  <2>5. PICK f, e : /\ f = [Top EXCEPT !.at = "cond", !.head = w, !.body = n]
                    /\ e = Top.node.kids[1]
    OBVIOUS
  <2>6. /\ cir' = Added(h, "loop_while") /\ Enter(f, e) /\ scopes' = scopes /\ status' = "gen"
        /\ Top.node.kind = "while" /\ Top.at = "start"
    BY <1>1, <1>3, <2>1, <2>2, <2>3, <2>4, <2>5 DEF WhileExpr_gen, Steady, SameStacks, At
  <2>7. PICK X : X = {w, n}
    OBVIOUS
  <2>8. Furthers(c, X, d) /\ d.cur = w /\ HasNever(d, c.cur) /\ InLast(d, n)
    <3>1. /\ Writable(c) /\ g = Added(c, "while") /\ w = LastBlock(g)
          /\ h = SetInsertPoint(CreateGoto(g, w), w) /\ d = Added(h, "loop_while")
          /\ n = LastBlock(d) /\ w \in X /\ n \in X
      BY <1>2, <2>1, <2>2, <2>3, <2>4, <2>6, <2>7
    <3>. QED
      BY ONLY <3>1, WhileFurther
  <2>9. f.node = Top.node /\ f.defers = Top.defers /\ f.at = "cond" /\ f.body = n
    BY <1>1, <2>5 DEF FrameType
  <2>10. ~Over(S, f) /\ ~Stay(f) /\ \A b : ~Resumes(Top, b) /\ (Resumes(f, b) => b = n)
    BY <2>6, <2>9, StayOnly DEF Over, Resumes
  <2>11. Resumes(f, n)
    BY <2>6, <2>9 DEF Resumes
  <2>12. Awaits(S, f, e)
    BY <1>1, <2>5, <2>6, <2>9, <2>10 DEF Honest, Awaits
  <2>13. \A b : b \in X \/ b = cir.cur \/ Resumes(Top, b)
                   => HasNever(cir', b) \/ b = cir'.cur \/ Resumes(f, b)
    BY <2>1, <2>7, <2>8, <2>10, <2>11
  <2>14. \A b : Resumes(f, b) => InLast(cir', b)
    BY <2>1, <2>8, <2>10
  <2>15. Flowing(S, Q)' /\ frames' # << >>
    BY <1>1, <1>2, <2>1, <2>6, <2>8, <2>9, <2>10, <2>12, <2>13, <2>14, GoOnFlowing
  <2>. QED
    BY <2>6, <2>15 DEF Proceeds
<1>4. CASE WhileExpr_body
  <2>1. PICK c, d, g, r, b : /\ c = cir /\ d = cir' /\ g = Added(cir, "afterloop_while")
                             /\ r = ret /\ b = Top.body
    OBVIOUS
  <2>2. PICK n : n = LastBlock(g)
    OBVIOUS
  <2>3. PICK f, e : f = [Top EXCEPT !.at = "body", !.after = n] /\ e = Top.node.kids[2]
    OBVIOUS
  <2>4. /\ cir' = SetInsertPoint(CreateGotoIf(g, r, b, n), b) /\ Enter(f, e)
        /\ scopes' = Append(scopes, << >>) /\ status' = "gen"
        /\ Top.node.kind = "while" /\ Top.at = "cond"
    BY <1>1, <1>4, <2>1, <2>2, <2>3 DEF WhileExpr_body, OpenScope, Steady, At
  <2>5. PICK X : X = {n}
    OBVIOUS
  <2>6. (\A k : Resumes(Top, k) => k = b) /\ InLast(c, b)
    BY <1>1, <2>1, <2>4 DEF Resumes
  <2>7. Furthers(c, X, d) /\ d.cur = b /\ HasNever(d, c.cur) /\ InLast(d, n)
    <3>1. /\ Writable(c) /\ InLast(c, b) /\ g = Added(c, "afterloop_while") /\ n = LastBlock(g)
          /\ d = SetInsertPoint(CreateGotoIf(g, r, b, n), b) /\ n \in X
      BY <1>2, <2>1, <2>2, <2>4, <2>5, <2>6
    <3>. QED
      BY ONLY <3>1, WhileBodyFurther
  <2>8. f.node = Top.node /\ f.defers = Top.defers /\ f.at = "body" /\ f.after = n
    BY <1>1, <2>3 DEF FrameType
  <2>9. ~Over(S, f) /\ ~Stay(f) /\ \A k : Resumes(f, k) => k = n
    BY <2>4, <2>8, StayOnly DEF Over, Resumes
  <2>10. Resumes(f, n)
    BY <2>4, <2>8 DEF Resumes
  <2>11. Awaits(S, f, e)
    BY <2>4, <2>8, <2>9 DEF Awaits
  <2>12. \A k : k \in X \/ k = cir.cur \/ Resumes(Top, k)
                   => HasNever(cir', k) \/ k = cir'.cur \/ Resumes(f, k)
    BY <2>1, <2>5, <2>6, <2>7, <2>10
  <2>13. \A k : Resumes(f, k) => InLast(cir', k)
    BY <2>1, <2>7, <2>9
  <2>14. Flowing(S, Q)' /\ frames' # << >>
    BY <1>1, <1>2, <2>1, <2>4, <2>7, <2>8, <2>9, <2>11, <2>12, <2>13, GoOnFlowing
  <2>. QED
    BY <2>4, <2>14 DEF Proceeds
\* The condition has a value.
<1>5. CASE WhileExpr_abandon
  <2>1. Top.node.kind = "while" /\ Top.at = "cond" /\ IsEmpty(ret)
    BY <1>5 DEF WhileExpr_abandon, At
  <2>. QED
    BY <2>1, WritingLemma
<1>6. CASE WhileExpr_end
  <2>1. PICK c, k, b, i : /\ c = cir /\ k = Top.head /\ b = Top.after
                          /\ i = Instr("ConstNever", "never", << >>)
    OBVIOUS
  <2>2. PICK d : d = SetInsertPoint(CreateGoto(c, k), b)
    OBVIOUS
  <2>3. /\ EmitAndLeave(d, i) /\ scopes' = Front(scopes) /\ status' = "gen"
        /\ Top.node.kind = "while" /\ Top.at = "endScope" /\ i.ty = "never"
    BY <1>1, <1>6, <2>1, <2>2 DEF WhileExpr_end, CloseScope, Steady, At, Instr
  <2>4. (\A x : Resumes(Top, x) => x = b) /\ InLast(c, b) /\ k \in 1..Len(c.blk)
    <3>1. k \in 1..Len(c.blk)
      BY <1>1, <2>1, <2>3 DEF HeldBlocks, FrameType
    <3>2. \A x : Resumes(Top, x) => x = b
      BY <2>1, <2>3 DEF Resumes
    <3>3. Resumes(Top, b)
      BY <2>1, <2>3 DEF Resumes
    <3>. QED
      BY <1>1, <2>1, <3>1, <3>2, <3>3
  <2>5. Furthers(c, {}, d) /\ d.cur = b /\ HasNever(d, c.cur) /\ Len(d.blk) = Len(c.blk)
    <3>1. Writable(c)
      BY <1>2, <2>1
    <3>. QED
      BY ONLY <2>2, <2>4, <3>1, GotoFurther
  <2>6. b \in 1..Len(d.blk)
    <3>1. Writable(c)
      BY <1>2, <2>1
    <3>. QED
      BY <2>4, <2>5, <3>1, WritableLemma
  <2>7. PICK X : X = {}
    OBVIOUS
  <2>8. \A x : x \in X \/ x = cir.cur \/ Resumes(Top, x) => HasNever(d, x) \/ x = d.cur
    BY <2>1, <2>4, <2>5, <2>7
  <2>9. \A x : x \in X \/ Resumes(Top, x) => x \in 1..Len(d.blk)
    BY <2>4, <2>6, <2>7
  <2>10. Furthers(cir, X, d)
    BY <2>1, <2>5, <2>7
  <2>. QED
    BY <1>2, <2>3, <2>8, <2>9, <2>10, LastLeave
<1>. QED
  BY <1>3, <1>4, <1>5, <1>6

\* The blocks of a for before its condition: the value of its variable is made
\* in file s, made from c.
LEMMA ForCondFurther ==
    ASSUME NEW c, Writable(c), NEW s, Along(c, {}, s), NEW x, NEW g, g = Added(s, x),
           NEW n, n = LastBlock(g), NEW d, d = SetInsertPoint(CreateGoto(g, n), n), NEW X, n \in X
    PROVE  Furthers(c, X, d) /\ d.cur = n /\ HasNever(d, c.cur)
<1>1. Furthers(c, {}, s) /\ s.cur = c.cur /\ Writable(s) /\ Len(s.blk) \in Nat
  BY DEF Along, Furthers
<1>2. n = LastBlock(NewBlock(s, x))
  BY ONLY <1>1, g = Added(s, x), n = LastBlock(g), n \in X, AddedFurther
<1>3. d = SetInsertPoint(CreateGoto(Added(s, x), n), n)
  OBVIOUS
<1>4. Furthers(s, X, d) /\ d.cur = n /\ HasNever(d, s.cur)
  BY ONLY <1>1, <1>2, <1>3, n \in X, JumpFurther
<1>5. Furthers(c, X, d)
  BY ONLY Writable(c), <1>1, <1>4, KeptLemma
<1>. QED
  BY ONLY <1>1, <1>4, <1>5

\* Those before its body.
LEMMA ForBodyFurther ==
    ASSUME NEW c, Writable(c), NEW r, NEW x, NEW y, NEW g, g = Added(c, x), NEW b, b = LastBlock(g),
           NEW h, h = NewBlock(g, y), NEW n, n = LastBlock(h),
           NEW d, d = SetInsertPoint(CreateGotoIf(h, r, b, n), b), NEW X, b \in X
    PROVE  Furthers(c, X, d) /\ d.cur = b /\ HasNever(d, c.cur)
<1>1. /\ Furthers(c, X, g) /\ g.cur = c.cur /\ InLast(g, b) /\ b \in 1..Len(g.blk) /\ Writable(g)
      /\ Len(g.blk) \in Nat
  BY ONLY Writable(c), g = Added(c, x), b = LastBlock(g), b \in X, AddedFurther
<1>2. PICK k : k = Len(g.blk)
  OBVIOUS
<1>3. Along(g, {}, h) /\ Len(h.blk) = k + 1 /\ n = k + 1
  BY <1>1, <1>2, FurtherBlock
<1>4. Furthers(g, {}, h) /\ h.cur = g.cur /\ Writable(h)
  BY ONLY <1>3 DEF Along, Furthers
<1>5. b \in 1..Len(h.blk) /\ n \in 1..Len(h.blk) /\ InLast(h, b)
  <2>1. InLast(h, b)
    BY ONLY <1>1, <1>4 DEF Furthers
  <2>. QED
    BY ONLY <1>1, <1>2, <1>3, <2>1
<1>6. Furthers(h, {}, d) /\ d.cur = b /\ HasNever(d, h.cur)
  BY ONLY <1>4, <1>5, d = SetInsertPoint(CreateGotoIf(h, r, b, n), b), BranchFurther
<1>7. Furthers(c, X, h)
  BY ONLY Writable(c), <1>1, <1>4, KeptLemma
<1>8. Furthers(c, X, d)
  BY ONLY Writable(c), <1>6, <1>7, KeptLemma
<1>. QED
  BY ONLY <1>1, <1>4, <1>6, <1>8

\* ForExprAST::cir_gen.
LEMMA ForFlowing ==
    ASSUME NEW S, NEW Q, Honest(S, Q), Writing(S, Q),
           ForExpr_gen \/ ForExpr_cond \/ ForExpr_body \/ ForExpr_step
           \/ ForExpr_end \/ ForExpr_abandon
    PROVE  Proceeds(S, Q)
<1>1. /\ frames # << >> /\ status = "gen" /\ HeldBlocks(Top) /\ Top.node \in Nodes
      /\ Top \in FrameType(Len(cir.blk)) /\ Top.defers \in Seq(Q)
      /\ scopes \in Seq(Seq(Q)) /\ Len(cir.blk) \in Nat /\ Along(cir, {}, cir)
  BY MethodLemma
<1>2. /\ Writable(cir)
      /\ Top.node.kind = "for" => Top.node \notin Q /\ Top.node \notin S
      /\ scopes' = Append(scopes, << >>) => scopes' \in Seq(Seq(Q))
      /\ Top.node.kind = "for" /\ Top.at = "endScope" => Front(scopes) \in Seq(Seq(Q))
  BY StartLemma DEF Scoped
<1>3. Top.node.kind = "for" => ~Answers(Top.node) /\ \A b : ~Resumes(Top, b)
  BY DEF Answers, Resumes
\* A step that goes on in another block.
<1>4. ASSUME NEW X, NEW n, \A b : b \in X => b = n, Furthers(cir, X, cir'), cir'.cur = n,
             HasNever(cir', cir.cur), NEW f, NEW e, Enter(f, e), f.node = Top.node,
             f.defers = Top.defers, f.at \in {"cond", "body"}, Top.at # "args",
             Top.node.kind = "for", scopes' \in Seq(Seq(Q)), status' = "gen"
      PROVE  Proceeds(S, Q)
  <2>1. ~Over(S, f) /\ ~Stay(f) /\ \A b : ~Resumes(f, b)
    BY <1>4, StayOnly DEF Over, Resumes
  <2>2. Awaits(S, f, e)
    BY <1>4, <2>1 DEF Awaits
  <2>3. \A b : b \in X \/ b = cir.cur \/ Resumes(Top, b)
                  => HasNever(cir', b) \/ b = cir'.cur \/ Resumes(f, b)
    BY <1>3, <1>4
  <2>4. f.at # "start" /\ f.at # "endScope" /\ f.node \notin Q /\ f.defers \in Seq(Q)
    BY <1>1, <1>2, <1>4
  <2>5. Flowing(S, Q)' /\ frames' # << >>
    BY <1>2, <1>4, <2>1, <2>2, <2>3, <2>4, GoOnFlowing
  <2>. QED
    BY <1>4, <2>5 DEF Proceeds
<1>5. CASE ForExpr_gen
  <2>1. PICK f, e : f = [Top EXCEPT !.at = "init"] /\ e = Top.node.kids[1]
    OBVIOUS
  <2>2. /\ Top.node.kind = "for" /\ Top.at = "start" /\ Enter(f, e) /\ cir' = cir /\ status' = "gen"
        /\ scopes' = scopes
    BY <1>1, <1>5, <2>1 DEF ForExpr_gen, At, Steady, SameStacks
  <2>3. f.node = Top.node /\ f.defers = Top.defers /\ f.at = "init"
    BY <1>1, <2>1 DEF FrameType
  <2>4. ~Over(S, f)
    BY <2>2, <2>3 DEF Over
  <2>. QED
    BY <1>1, <1>2, <2>2, <2>3, <2>4, GoOnAlong
<1>6. CASE ForExpr_cond
  <2>1. PICK s : s = Convert(cir, ret, Top.node.kids[1].ty, "val")
    OBVIOUS
  <2>2. PICK v : v = Emit(s.c, Instr("VarInit", "val", <<s.r>>))
    OBVIOUS
  <2>3. PICK g : g = Added(v.c, "loop_for_cond")
    OBVIOUS
  <2>4. PICK n : n = LastBlock(g)
    OBVIOUS
  <2>5. PICK f, e, x : /\ f = [Top EXCEPT !.at = "cond", !.keep = v.r, !.head = n]
                       /\ e = Top.node.kids[2] /\ x = "loop_for_cond"
    OBVIOUS
  <2>6. /\ cir' = SetInsertPoint(CreateGoto(g, n), n) /\ Enter(f, e) /\ scopes' = scopes
        /\ Top.node.kind = "for" /\ Top.at = "init" /\ status' = "gen"
    <3>1. At({"for"}, "init") /\ Steady /\ SameStacks
      BY ONLY <1>6 DEF ForExpr_cond
    <3>2. scopes' = scopes /\ Top.node.kind = "for" /\ Top.at = "init" /\ status' = "gen"
      BY <1>1, <3>1 DEF Steady, SameStacks, At
    <3>3. cir' = SetInsertPoint(CreateGoto(g, n), n) /\ Enter(f, e)
      BY ONLY <1>6, <2>1, <2>2, <2>3, <2>4, <2>5, Zenon DEF ForExpr_cond
    <3>. QED
      BY <3>2, <3>3
  <2>7. PICK c, d, X : c = cir /\ d = cir' /\ X = {n}
    OBVIOUS
  <2>8. Along(cir, {}, v.c)
    <3>1. Along(cir, {}, s.c)
      BY <1>1, <2>1, AlongConvert
    <3>. QED
      BY <1>1, <2>2, <3>1, AlongOps
  <2>9. Furthers(c, X, d) /\ d.cur = n /\ HasNever(d, c.cur)
    <3>1. PICK a : a = v.c
      OBVIOUS
    <3>2. /\ Writable(c) /\ Along(c, {}, a) /\ g = Added(a, x) /\ n = LastBlock(g)
          /\ d = SetInsertPoint(CreateGoto(g, n), n) /\ n \in X
      BY <1>2, <2>3, <2>4, <2>5, <2>6, <2>7, <2>8, <3>1
    <3>. QED
      BY ONLY <3>2, ForCondFurther
  <2>10. f.node = Top.node /\ f.defers = Top.defers /\ f.at = "cond"
    BY <1>1, <2>5 DEF FrameType
  <2>11. (\A b : b \in X => b = n) /\ scopes' \in Seq(Seq(Q))
    BY <1>1, <2>6, <2>7
  <2>12. Furthers(cir, X, cir') /\ cir'.cur = n /\ HasNever(cir', cir.cur)
    BY <2>7, <2>9
  <2>. QED
    BY <1>4, <2>6, <2>10, <2>11, <2>12
<1>7. CASE ForExpr_body
  <2>1. PICK x, y, g : x = "loop_for" /\ y = "afterloop" /\ g = Added(cir, x)
    OBVIOUS
  <2>2. PICK b, h : b = LastBlock(g) /\ h = NewBlock(g, y)
    OBVIOUS
  <2>3. PICK n, r : n = LastBlock(h) /\ r = ret
    OBVIOUS
  <2>4. PICK f, e : f = [Top EXCEPT !.at = "body", !.after = n] /\ e = Top.node.kids[3]
    OBVIOUS
  <2>5. /\ cir' = SetInsertPoint(CreateGotoIf(h, r, b, n), b) /\ Enter(f, e)
        /\ scopes' = Append(scopes, << >>)
        /\ Top.node.kind = "for" /\ Top.at = "cond" /\ status' = "gen"
    BY <1>1, <1>7, <2>1, <2>2, <2>3, <2>4 DEF ForExpr_body, OpenScope, Steady, At
  <2>6. PICK c, d, X : c = cir /\ d = cir' /\ X = {b}
    OBVIOUS
  <2>7. Furthers(c, X, d) /\ d.cur = b /\ HasNever(d, c.cur)
    <3>1. /\ Writable(c) /\ g = Added(c, x) /\ b = LastBlock(g) /\ h = NewBlock(g, y)
          /\ n = LastBlock(h) /\ d = SetInsertPoint(CreateGotoIf(h, r, b, n), b) /\ b \in X
      BY <1>2, <2>1, <2>2, <2>3, <2>5, <2>6
    <3>. QED
      BY ONLY <3>1, ForBodyFurther
  <2>8. f.node = Top.node /\ f.defers = Top.defers /\ f.at = "body"
    BY <1>1, <2>4 DEF FrameType
  <2>9. (\A k : k \in X => k = b) /\ scopes' \in Seq(Seq(Q))
    BY <1>2, <2>5, <2>6
  <2>10. Furthers(cir, X, cir') /\ cir'.cur = b /\ HasNever(cir', cir.cur)
    BY <2>6, <2>7
  <2>. QED
    BY <1>4, <2>5, <2>8, <2>9, <2>10
<1>8. CASE ForExpr_step
  <2>1. PICK f, e : f = [Top EXCEPT !.at = "step"] /\ e = Top.node.kids[4]
    OBVIOUS
  <2>2. /\ Top.node.kind = "for" /\ Top.at = "endScope" /\ Enter(f, e) /\ cir' = cir /\ status' = "gen"
        /\ scopes' = Front(scopes)
    BY <1>1, <1>8, <2>1 DEF ForExpr_step, CloseScope, At, Steady
  <2>3. f.node = Top.node /\ f.defers = Top.defers /\ f.at = "step"
    BY <1>1, <2>1 DEF FrameType
  <2>4. ~Over(S, f) /\ ~Stay(f)
    BY <2>2, <2>3, StayOnly DEF Over
  <2>5. scopes' \in Seq(Seq(Q)) /\ f.node \notin Q
    BY <1>2, <2>2, <2>3
  <2>. QED
    BY <1>1, <2>2, <2>3, <2>4, <2>5, GoOnAlong
<1>9. CASE ForExpr_end
  <2>1. PICK s : s = Convert(cir, ret, Top.node.kids[4].ty, "val")
    OBVIOUS
  <2>2. PICK u : u = Emit(s.c, Instr("LoadVar", "val", <<Top.keep>>))
    OBVIOUS
  <2>3. PICK v : v = Emit(u.c, Instr("Binary", "val", <<u.r, s.r>>))
    OBVIOUS
  <2>4. PICK w : w = Emit(v.c, Instr("StoreVar", "void", <<Top.keep, v.r>>))
    OBVIOUS
  <2>5. PICK g, d : /\ g = CreateGoto(w.c, Top.head)
                    /\ d = SetInsertPoint(AddBasicBlock(g, Top.after), Top.after)
    OBVIOUS
  <2>6. EmitAndLeave(d, Instr("ConstVoid", "void", << >>))
    BY ONLY <1>9, <2>1, <2>2, <2>3, <2>4, <2>5, Zenon DEF ForExpr_end
  <2>7. PICK a, k, b, i : /\ a = w.c /\ k = Top.head /\ b = Top.after
                          /\ i = Instr("ConstVoid", "void", << >>)
    OBVIOUS
  <2>8. /\ EmitAndLeave(d, i) /\ scopes' = scopes /\ status' = "gen"
        /\ Top.node.kind = "for" /\ Top.at = "step"
        /\ g = CreateGoto(a, k) /\ d = SetInsertPoint(AddBasicBlock(g, b), b)
    <3>1. At({"for"}, "step") /\ Steady /\ SameStacks
      BY ONLY <1>9, Zenon DEF ForExpr_end
    <3>2. scopes' = scopes /\ status' = "gen" /\ Top.node.kind = "for" /\ Top.at = "step"
      BY <1>1, <3>1 DEF Steady, SameStacks, At
    <3>. QED
      BY ONLY <2>5, <2>6, <2>7, <3>2, Zenon
  <2>9. Along(cir, {}, a) /\ Len(a.blk) = Len(cir.blk)
    <3>1. ASSUME NEW c, Along(cir, {}, c), Len(c.blk) = Len(cir.blk), NEW j, NEW h, h = Emit(c, j)
          PROVE  Along(cir, {}, h.c) /\ Len(h.c.blk) = Len(cir.blk)
      <4>1. Writable(c) /\ Furthers(cir, {}, c) /\ Len(c.blk) \in Nat /\ c.cur = cir.cur
        BY <1>1, <3>1 DEF Along, Furthers
      <4>2. Along(c, {}, h.c) /\ Len(h.c.blk) = Len(c.blk)
        <5>1. h.c = AddInstruction(c, j)
          BY ONLY <3>1 DEF Emit
        <5>. QED
          BY ONLY <4>1, <5>1, FurtherInstruction
      <4>3. Furthers(c, {}, h.c) /\ h.c.cur = c.cur
        BY ONLY <4>2 DEF Along
      <4>4. Furthers(cir, {}, h.c)
        BY <1>1, <4>1, <4>3, FurtherLemma
      <4>. QED
        BY <1>1, <3>1, <4>1, <4>2, <4>3, <4>4 DEF Along
    <3>2. Along(cir, {}, s.c) /\ Len(s.c.blk) = Len(cir.blk)
      BY <1>2, <2>1, FurtherConvert
    <3>3. Along(cir, {}, u.c) /\ Len(u.c.blk) = Len(cir.blk)
      BY ONLY <2>2, <3>1, <3>2
    <3>4. Along(cir, {}, v.c) /\ Len(v.c.blk) = Len(cir.blk)
      BY ONLY <2>3, <3>1, <3>3
    <3>5. Along(cir, {}, w.c) /\ Len(w.c.blk) = Len(cir.blk)
      BY ONLY <2>4, <3>1, <3>4
    <3>. QED
      BY <2>7, <3>5
  <2>10. k \in 1..Len(cir.blk) /\ b \in 1..Len(cir.blk)
    BY <1>1, <2>7, <2>8 DEF HeldBlocks, FrameType
  <2>11. PICK c, X : c = cir /\ X = {b}
    OBVIOUS
  <2>12. Along(c, {}, g) /\ Len(g.blk) = Len(c.blk) /\ HasNever(g, c.cur)
    <3>1. Len(c.blk) \in Nat /\ Along(c, {}, a) /\ k \in 1..Len(a.blk) /\ Len(a.blk) = Len(c.blk)
      BY <1>1, <2>9, <2>10, <2>11
    <3>. QED
      BY <2>8, <3>1, AlongGoto
  <2>13. Furthers(c, X, d) /\ d.cur = b /\ HasNever(d, c.cur) /\ Len(d.blk) = Len(c.blk)
    <3>1. Writable(c) /\ b \in 1..Len(c.blk) /\ b \in X
      BY <1>2, <2>10, <2>11
    <3>. QED
      BY ONLY <2>8, <2>12, <3>1, PlaceFurther
  <2>14. \A x : x \in X \/ x = cir.cur \/ Resumes(Top, x) => HasNever(d, x) \/ x = d.cur
    BY <1>3, <2>8, <2>11, <2>13
  <2>15. \A x : x \in X \/ Resumes(Top, x) => x \in 1..Len(d.blk)
    BY <1>3, <2>8, <2>10, <2>11, <2>13
  <2>16. Furthers(cir, X, d)
    BY <2>11, <2>13
  <2>. QED
    BY <1>1, <1>2, <2>8, <2>14, <2>15, <2>16, LastLeave
<1>10. CASE ForExpr_abandon
  <2>1. /\ frames' = Front(frames) /\ cir' = cir /\ scopes' = scopes /\ status' = "gen"
        /\ Top.node.kind = "for" /\ Top.at \in {"init", "cond", "body", "step"}
    BY <1>1, <1>10 DEF ForExpr_abandon, Leave, Steady, At
  <2>. QED
    BY <1>1, <1>2, <1>3, <2>1, LeaveAlong
<1>. QED
  BY <1>5, <1>6, <1>7, <1>8, <1>9, <1>10
-----------------------------------------------------------------------------
(* Functions.                                                              *)

\* The prologue of a function.
LEMMA FunctionFlowing ==
    ASSUME NEW S, NEW Q, Honest(S, Q), Writing(S, Q), FunctionAST_arg \/ FunctionAST_body
    PROVE  Proceeds(S, Q)
<1>1. /\ IInv /\ frames # << >> /\ status = "gen" /\ Top.node \in Nodes
      /\ Top.node.kids \in Seq(Nodes) /\ Top \in FrameType(Len(cir.blk)) /\ Top.defers \in Seq(Q)
      /\ scopes \in Seq(Seq(Q)) /\ Along(cir, {}, cir) /\ Len(cir.blk) \in Nat
  BY MethodLemma
<1>2. Top.node.kind = "function" /\ Top.at = "args"
  BY DEF FunctionAST_arg, FunctionAST_body, At
<1>3. CASE FunctionAST_arg
  <2>1. PICK f, i : f = [Top EXCEPT !.i = @ + 1] /\ i = Instr("InitArg", "ptr", << >>)
    OBVIOUS
  <2>2. cir' = Emit(cir, i).c /\ Stay(f) /\ status' = "gen" /\ scopes' = scopes
    BY <1>1, <1>3, <2>1 DEF FunctionAST_arg, Steady, SameStacks
  <2>3. f.node = Top.node /\ f.defers = Top.defers /\ f.at = "args"
    BY <1>1, <1>2, <2>1 DEF FrameType
  <2>4. Along(cir, {}, cir')
    <3>1. cir' = AddInstruction(cir, i) /\ Writable(cir)
      BY <2>2, WritingLemma DEF Emit
    <3>. QED
      BY <3>1, FurtherInstruction
  <2>5. ~Over(S, f)
    BY <1>2, <2>3 DEF Over
  <2>. QED
    BY <1>1, <1>2, <2>2, <2>3, <2>4, <2>5, StayAlong
<1>4. CASE FunctionAST_body
  <2>1. PICK f : f = [Top EXCEPT !.at = "body", !.i = 0]
    OBVIOUS
  <2>2. cir' = cir /\ Stay(f) /\ status' = "gen" /\ scopes' = Append(scopes, << >>)
    BY <1>1, <1>4, <2>1 DEF FunctionAST_body, Steady, OpenScope
  <2>3. f.node = Top.node /\ f.defers = Top.defers /\ f.at = "body" /\ f.i = 0
    BY <1>1, <2>1 DEF FrameType
  <2>4. ~Over(S, f)
    <3>1. "Unreachable" \in Top.node.contains => Top.node.kids # << >>
      BY <1>1, <1>2 DEF Honest
    <3>2. "Unreachable" \in Top.node.contains => Len(Top.node.kids) # 0
      BY <1>1, <3>1
    <3>. QED
      BY <1>2, <2>3, <3>2 DEF Over
  <2>5. scopes' \in Seq(Seq(Q))
    BY <1>1, <2>2, DeferredLemma
  <2>. QED
    BY <1>1, <1>2, <2>2, <2>3, <2>4, <2>5, StayAlong
<1>. QED
  BY <1>3, <1>4

\* Between two functions, and after the last one: each block has a never in it.
Closed(Q) ==
    /\ frames = << >> /\ scopes \in Seq(Seq(Q))
    /\ \A b \in BlocksOf(cir) : HasNever(cir, b)

\* The end of a function, after its last statement: it is closed with a return
\* or a never, or it has one already.
LEMMA EpilogueAlong ==
    ASSUME NEW S, NEW Q, Writing(S, Q), Top.node.kind = "function", Top.at = "endScope",
           NEW d, d = Epilogue(Returned)
    PROVE  Along(cir, {}, d) /\ HasNever(d, cir.cur)
<1>1. /\ Along(cir, {}, cir) /\ Writable(cir) /\ Len(cir.blk) \in Nat
      /\ Over(S, Top) => HasNever(cir, cir.cur)
  BY WritingLemma
<1>2. cir.cur \in 1..Len(cir.blk)
  BY <1>1, WritableLemma
<1>3. PICK e : e = Returned
  OBVIOUS
<1>4. ASSUME NEW c, Along(cir, {}, c), NEW i, NEW g, g = AddInstruction(c, i)
      PROVE  Along(cir, {}, g) /\ (i.ty = "never" => HasNever(g, cir.cur))
  <2>1. Writable(c) /\ c.cur = cir.cur /\ Furthers(cir, {}, c)
    BY <1>4 DEF Along, Furthers
  <2>2. Along(c, {}, g) /\ (i.ty = "never" => HasNever(g, cir.cur))
    BY <1>4, <2>1, FurtherInstruction
  <2>3. Furthers(c, {}, g)
    BY <2>2 DEF Along
  <2>. QED
    BY <1>1, <1>4, <2>1, <2>2, <2>3, FurtherLemma
<1>5. \A c : Along(cir, {}, c) => \A i : Along(cir, {}, Emit(c, i).c)
  BY <1>4 DEF Emit
<1>6. Along(cir, {}, e.c)
  <2>1. \/ e = Emit(cir, Instr("ConstVoid", "void", << >>))
        \/ e = Emit(cir, Instr("ConstNumber", "val", << >>))
        \/ e.c = cir
    BY <1>3 DEF Returned
  <2>. QED
    BY <1>1, <1>5, <2>1
<1>7. PICK v : v = IF TypeAt(e.c, e.r) = Top.node.ty THEN e
                   ELSE Emit(e.c, Instr("Cast", Top.node.ty, <<e.r>>))
  OBVIOUS
<1>8. Along(cir, {}, v.c)
  <2>1. v = e \/ v = Emit(e.c, Instr("Cast", Top.node.ty, <<e.r>>))
    BY <1>7
  <2>. QED
    BY <1>5, <1>6, <2>1
<1>9. PICK i, j : i = Instr("ConstNever", "never", << >>) /\ j = Instr("Return", "never", <<v.r>>)
  OBVIOUS
<1>10. i.ty = "never" /\ j.ty = "never"
  BY <1>9 DEF Instr
<1>11. \/ d = AddInstruction(e.c, i)
       \/ d = e.c /\ "Unreachable" \in Top.node.contains
       \/ d = AddInstruction(v.c, j)
  BY <1>3, <1>7, <1>9 DEF Epilogue
<1>12. CASE d = AddInstruction(e.c, i) \/ d = AddInstruction(v.c, j)
  BY <1>4, <1>6, <1>8, <1>10, <1>12
<1>13. CASE d = e.c /\ "Unreachable" \in Top.node.contains
  <2>1. Over(S, Top)
    BY <1>13 DEF Over
  <2>2. HasNever(cir, cir.cur) /\ Furthers(cir, {}, d)
    BY <1>1, <1>6, <1>13, <2>1 DEF Along
  <2>. QED
    BY <1>2, <1>6, <1>13, <2>2 DEF Furthers
<1>. QED
  BY <1>11, <1>12, <1>13

\* A function ends.
LEMMA FunctionClosed ==
    ASSUME NEW S, NEW Q, Honest(S, Q), Writing(S, Q), FunctionAST_end
    PROVE  Closed(Q)' /\ status' = "gen"
<1>1. /\ IInv /\ frames # << >> /\ status = "gen" /\ Flowing(S, Q)
  BY DEF Writing
<1>2. /\ Top.node.kind = "function" /\ Top.at = "endScope" /\ cir' = Epilogue(Returned)
      /\ frames' = Front(frames) /\ status' = "gen" /\ scopes' = Front(scopes)
  BY <1>1 DEF FunctionAST_end, CloseScope, At, Steady
<1>3. PICK m : m = Len(frames)
  OBVIOUS
<1>4. m = 1 /\ DOMAIN frames = 1..m /\ Top = frames[m] /\ frames \in Seq(FrameType(Len(cir.blk)))
  BY <1>2, <1>3, WritingLemma
<1>5. frames' = << >>
  <2>1. frames' \in Seq(FrameType(Len(cir.blk))) /\ Len(frames') = m - 1
    BY <1>1, <1>2, <1>3, <1>4, StackLemma
  <2>2. Len(frames') = 0
    BY <1>4, <2>1
  <2>. QED
    BY <2>1, <2>2
<1>6. scopes' \in Seq(Seq(Q))
  <2>1. Top.node.kind \in Scoped
    BY <1>2 DEF Scoped
  <2>2. Front(scopes) \in Seq(Seq(Q))
    BY <1>2, <2>1, StartLemma
  <2>. QED
    BY <1>2, <2>2
<1>7. Along(cir, {}, cir') /\ HasNever(cir', cir.cur)
  BY <1>2, EpilogueAlong
<1>8. ASSUME NEW b \in BlocksOf(cir')
      PROVE  HasNever(cir', b)
  <2>1. b \in BlocksOf(cir) /\ b \in 1..Len(cir.blk)
    <3>1. b \in BlocksOf(cir) /\ Writable(cir)
      BY <1>7, <1>8, WritingLemma DEF Along, Furthers
    <3>. QED
      BY <3>1, WritableLemma
  <2>2. HasNever(cir, b) \/ b = cir.cur
    <3>1. \A k \in DOMAIN frames : ~Resumes(frames[k], b)
      BY <1>2, <1>4 DEF Resumes
    <3>. QED
      BY <1>1, <2>1, <3>1 DEF Flowing
  <2>. QED
    BY <1>7, <2>1, <2>2 DEF Along, Furthers
<1>. QED
  BY ONLY <1>2, <1>5, <1>6, <1>8 DEF Closed, HasNever, BlocksOf

\* The entry block of a function, in a file that has a never in each block.
LEMMA EntryWritable ==
    ASSUME NEW c, Shaped(c), \A b \in BlocksOf(c) : HasNever(c, b),
           NEW g, g = Added(AddFunction(c), "entry"), NEW e, e = SetInsertPoint(g, LastBlock(g))
    PROVE  Writable(e) /\ \A b \in BlocksOf(e) : HasNever(e, b) \/ b = e.cur
<1>1. PICK n, m : n = Len(c.blk) /\ m = Len(c.fun)
  OBVIOUS
<1>2. PICK a : a = AddFunction(c)
  OBVIOUS
<1>3. PICK h : h = NewBlock(a, "entry")
  OBVIOUS
<1>4. /\ {"instr", "blk", "fun", "cur"} \subseteq DOMAIN c /\ c.fun \in Seq(Seq(1..n))
      /\ n \in Nat /\ m \in Nat /\ DOMAIN c.fun = 1..m
  BY <1>1 DEF Shaped
<1>5. /\ DOMAIN a = DOMAIN c /\ a.instr = c.instr /\ a.blk = c.blk
      /\ a.fun = Append(c.fun, << >>)
  BY <1>2, <1>4 DEF AddFunction
<1>6. /\ a.fun \in Seq(Seq(1..n)) /\ Len(a.fun) = m + 1 /\ a.fun[m + 1] = << >> /\ a.fun # << >>
      /\ DOMAIN a.fun = 1..(m + 1) /\ \A F \in 1..m : a.fun[F] = c.fun[F]
  <2>. DEFINE R == Seq(1..n)
  <2>1. << >> \in R /\ c.fun \in Seq(R)
    BY <1>4
  <2>. HIDE DEF R
  <2>2. /\ a.fun \in Seq(R) /\ Len(a.fun) = m + 1 /\ a.fun[m + 1] = << >> /\ a.fun # << >>
        /\ DOMAIN a.fun = 1..(m + 1) /\ \A F \in 1..m : a.fun[F] = c.fun[F]
    <3>1. PICK s, u : s = c.fun /\ u = Append(s, << >>)
      OBVIOUS
    <3>2. s \in Seq(R) /\ Len(s) = m /\ m \in Nat /\ DOMAIN s = 1..m
      BY <1>1, <1>4, <2>1, <3>1
    <3>3. u \in Seq(R) /\ Len(u) = m + 1 /\ u[m + 1] = << >> /\ \A F \in 1..m : u[F] = s[F]
      BY ONLY <2>1, <3>1, <3>2
    <3>4. DOMAIN u = 1..(m + 1) /\ u # << >>
      BY ONLY <3>2, <3>3
    <3>. QED
      BY ONLY <1>5, <3>1, <3>3, <3>4
  <2>. QED
    BY <2>2 DEF R
<1>7. Shaped(a)
  BY <1>1, <1>4, <1>5, <1>6 DEF Shaped
<1>8. Alike(a, h) /\ Len(h.blk) = n + 1 /\ LastBlock(h) = n + 1
  BY <1>1, <1>3, <1>5, <1>7, NewBlockAlike
<1>9. /\ Shaped(h) /\ h.fun = a.fun /\ h.instr = c.instr /\ n + 1 \in 1..Len(h.blk)
      /\ \A b \in 1..n : h.blk[b].ins = c.blk[b].ins
  BY <1>1, <1>4, <1>5, <1>8 DEF Alike
<1>10. LaidOut(h, n + 1, g)
  <2>1. g = AddBasicBlock(h, n + 1)
    BY <1>2, <1>3, <1>8 DEF Added
  <2>. QED
    BY <1>6, <1>9, <2>1, BlockPlaced
<1>11. /\ Shaped(g) /\ g.instr = c.instr /\ Len(g.blk) = n + 1 /\ DOMAIN g.fun = 1..(m + 1)
       /\ Len(g.fun) = m + 1 /\ g.fun[m + 1] = Append(<< >>, n + 1)
       /\ \A F \in 1..m : g.fun[F] = c.fun[F]
       /\ \A b \in 1..n : g.blk[b].ins = c.blk[b].ins
  <2>1. /\ Shaped(g) /\ g.instr = h.instr /\ Len(g.blk) = Len(h.blk)
        /\ \A k \in 1..Len(h.blk) : g.blk[k].ins = h.blk[k].ins
        /\ DOMAIN g.fun = 1..Len(h.fun) /\ Len(g.fun) = Len(h.fun)
        /\ g.fun[Len(h.fun)] = Append(h.fun[Len(h.fun)], n + 1)
        /\ \A F \in 1..Len(h.fun) : F # Len(h.fun) => g.fun[F] = h.fun[F]
    BY ONLY <1>10 DEF LaidOut
  <2>2. Len(h.fun) = m + 1 /\ h.fun[m + 1] = << >> /\ \A F \in 1..m : h.fun[F] = c.fun[F]
    BY <1>6, <1>9
  <2>3. /\ \A b \in 1..n : b \in 1..(n + 1)
        /\ \A F \in 1..m : F \in 1..(m + 1) /\ F # m + 1
    BY <1>4
  <2>. QED
    BY <1>8, <1>9, <2>1, <2>2, <2>3
<1>12. e.cur = n + 1 /\ DOMAIN e = DOMAIN g /\ e.instr = g.instr /\ e.blk = g.blk /\ e.fun = g.fun
  BY <1>11 DEF SetInsertPoint, LastBlock, Shaped
<1>13. Shaped(e)
  BY <1>11, <1>12 DEF Shaped
<1>14. PICK s : s = e.fun[m + 1]
  OBVIOUS
<1>15. DOMAIN s = {1} /\ s[1] = n + 1
  BY <1>4, <1>11, <1>12, <1>14
<1>16. ToSet(s) = {n + 1}
  BY <1>15 DEF ToSet
<1>17. InLast(e, e.cur) /\ e.fun # << >>
  <2>1. Len(e.fun) = m + 1 /\ Len(e.fun) # 0
    BY <1>4, <1>11, <1>12
  <2>. QED
    BY <1>12, <1>14, <1>16, <2>1 DEF InLast
<1>18. ASSUME NEW F \in DOMAIN e.fun, NEW b \in ToSet(e.fun[F])
       PROVE  HasNever(e, b) \/ b = e.cur
  <2>1. CASE F = m + 1
    BY <1>12, <1>14, <1>16, <1>18, <2>1
  <2>2. CASE F # m + 1
    <3>1. F \in 1..m /\ e.fun[F] = c.fun[F]
      BY <1>4, <1>11, <1>12, <1>18, <2>2
    <3>2. HasNever(c, b)
      BY <1>4, <1>18, <3>1 DEF BlocksOf
    <3>3. b \in 1..n
      <4>1. c.fun[F] \in Seq(1..n)
        BY <1>4, <3>1
      <4>2. PICK t : t = c.fun[F]
        OBVIOUS
      <4>3. t \in Seq(1..n) /\ b \in ToSet(t)
        BY <1>18, <3>1, <4>1, <4>2
      <4>4. \A k \in DOMAIN t : t[k] \in 1..n
        <5>1. PICK R : R = 1..n
          OBVIOUS
        <5>2. t \in Seq(R)
          BY <4>3, <5>1
        <5>3. \A k \in DOMAIN t : t[k] \in R
          BY ONLY <5>2
        <5>. QED
          BY <5>1, <5>3
      <4>5. \E k \in DOMAIN t : t[k] = b
        BY ONLY <4>3, Zenon DEF ToSet
      <4>. QED
        BY ONLY <4>4, <4>5
    <3>4. e.blk[b].ins = c.blk[b].ins /\ e.instr = c.instr
      BY <1>11, <1>12, <3>3
    <3>. QED
      BY <3>2, <3>4 DEF HasNever
  <2>. QED
    BY <2>1, <2>2
<1>. QED
  BY <1>13, <1>17, <1>18 DEF Writable, BlocksOf

\* A function begins.
LEMMA FunctionStarts ==
    ASSUME NEW S, NEW Q, IInv, Closed(Q), FunctionAST_gen
    PROVE  Flowing(S, Q)' /\ frames' # << >>
<1>1. PICK c, d : c = cir /\ d = cir'
  OBVIOUS
<1>2. PICK g : g = Added(AddFunction(c), "entry")
  OBVIOUS
<1>3. d = SetInsertPoint(g, LastBlock(g)) /\ scopes' = scopes
  BY <1>1, <1>2 DEF FunctionAST_gen
<1>4. Shaped(c) /\ \A b \in BlocksOf(c) : HasNever(c, b)
  BY <1>1, IInvParts, GoodShaped DEF RestOK, Closed
<1>5. Writable(d) /\ \A b \in BlocksOf(d) : HasNever(d, b) \/ b = d.cur
  BY ONLY <1>2, <1>3, <1>4, EntryWritable
<1>6. PICK f : f = [Activation(prog[fn'].node, breaks, Len(scopes)) EXCEPT !.at = "args"]
  OBVIOUS
<1>7. f.at = "args" /\ f.defers = << >>
  BY <1>6 DEF Activation
<1>8. frames' = <<f>>
  BY <1>6 DEF FunctionAST_gen
<1>9. DOMAIN frames' = {1} /\ Len(frames') = 1 /\ frames'[1] = f /\ frames' # << >>
  BY <1>8
<1>10. Last(frames') = f
  BY <1>9 DEF Last
<1>11. (\A b : ~Resumes(f, b)) /\ ~Over(S, f)
  BY <1>7 DEF Resumes, Over
<1>12. f.defers \in Seq(Q) /\ scopes' \in Seq(Seq(Q))
  BY <1>3, <1>7 DEF Closed
<1>13. \A j, k \in DOMAIN frames' : ~(j < k)
  BY <1>9
<1>14. /\ Writable(cir') /\ \A b \in BlocksOf(cir') : HasNever(cir', b) \/ b = cir'.cur
  BY <1>1, <1>5
<1>15. \A k \in DOMAIN frames' : k = 1 /\ k = Len(frames') /\ frames'[k] = f
  BY <1>9
<1>16. Flowing(S, Q)'
  BY ONLY <1>7, <1>10, <1>11, <1>12, <1>13, <1>14, <1>15
     DEF Flowing, Writable, Shaped, InLast, HasNever, BlocksOf, Resumes, Over, Awaits, Answers, Diverts, Top
<1>. QED
  BY <1>9, <1>16

-----------------------------------------------------------------------------
(* The file.                                                               *)

\* What is left of a block that has a never in it ends with one.
LEMMA NeverKept ==
    ASSUME NEW c, NEW m \in Nat, NEW ins \in Seq(1..m),
           \E k \in DOMAIN ins : c.instr[ins[k]].ty = "never", NEW u, u = UpToNever(c, ins)
    PROVE  u # << >> /\ c.instr[Last(u)].ty = "never"
<1>1. PICK nevers : nevers = {k \in DOMAIN ins : c.instr[ins[k]].ty = "never"}
  OBVIOUS
<1>2. PICK R : R = 1..m
  OBVIOUS
<1>3. ins \in Seq(R) /\ DOMAIN ins = 1..Len(ins) /\ Len(ins) \in Nat
  BY <1>2
<1>4. nevers # {} /\ nevers \subseteq Nat /\ nevers \subseteq 1..Len(ins)
  BY <1>1, <1>3
<1>5. PICK x : x = Min(nevers)
  OBVIOUS
<1>6. x \in nevers /\ x \in 1..Len(ins)
  BY <1>4, <1>5, MinLemma
<1>7. u = SubSeq(ins, 1, x)
  BY <1>1, <1>4, <1>5 DEF UpToNever
<1>8. Len(u) = x /\ u[x] = ins[x] /\ u # << >>
  BY ONLY <1>3, <1>6, <1>7
<1>9. c.instr[ins[x]].ty = "never"
  BY <1>1, <1>6
<1>. QED
  BY <1>8, <1>9 DEF Last

\* fixFileCIR leaves a never at the end of each block.
LEMMA FixClosed ==
    ASSUME NEW Q, IInv, Closed(Q), fixFileCIR
    PROVE  EveryBlockEndsInNever'
<1>1. PICK c, d : c = cir /\ d = cir'
  OBVIOUS
<1>2. d = FixFile(c) /\ \A b \in BlocksOf(c) : HasNever(c, b)
  BY <1>1 DEF fixFileCIR, Closed
<1>3. Shaped(c) /\ DOMAIN c.fun = 1..Len(c.fun)
  BY <1>1, IInvParts, GoodShaped DEF RestOK
<1>4. /\ {"instr", "blk", "fun", "cur"} \subseteq DOMAIN c /\ Len(c.instr) \in Nat
      /\ DOMAIN c.blk = 1..Len(c.blk) /\ c.fun \in Seq(Seq(1..Len(c.blk)))
      /\ \A b \in 1..Len(c.blk) : "ins" \in DOMAIN c.blk[b] /\ c.blk[b].ins \in Seq(1..Len(c.instr))
  BY <1>3 DEF Shaped
<1>5. /\ d.instr = c.instr /\ d.fun = c.fun
      /\ d.blk = [b \in DOMAIN c.blk |->
                    IF b \in BlocksOf(c) THEN [c.blk[b] EXCEPT !.ins = UpToNever(c, @)]
                                         ELSE c.blk[b]]
  BY <1>2, <1>4 DEF FixFile
<1>6. BlocksOf(d) = BlocksOf(c)
  BY <1>5 DEF BlocksOf
<1>7. BlocksOf(c) \subseteq 1..Len(c.blk)
  <2>1. ASSUME NEW F \in DOMAIN c.fun
        PROVE  ToSet(c.fun[F]) \subseteq 1..Len(c.blk)
    <3>1. PICK s, R : s = c.fun[F] /\ R = 1..Len(c.blk)
      OBVIOUS
    <3>2. s \in Seq(R)
      BY <1>3, <1>4, <2>1, <3>1
    <3>3. \A k \in DOMAIN s : s[k] \in R
      BY ONLY <3>2
    <3>. QED
      BY <3>1, <3>3 DEF ToSet
  <2>. QED
    BY <2>1 DEF BlocksOf
<1>8. ASSUME NEW b \in BlocksOf(d)
      PROVE  EndsInNever(d, b)
  <2>1. PICK ins, u : ins = c.blk[b].ins /\ u = UpToNever(c, ins)
    OBVIOUS
  <2>2. b \in BlocksOf(c) /\ b \in DOMAIN c.blk /\ b \in 1..Len(c.blk)
    BY <1>4, <1>6, <1>7, <1>8
  <2>3. d.blk[b].ins = u
    <3>1. d.blk[b] = [c.blk[b] EXCEPT !.ins = UpToNever(c, @)]
      BY <1>5, <2>2
    <3>2. "ins" \in DOMAIN c.blk[b]
      BY <1>4, <2>2
    <3>. QED
      BY <2>1, <3>1, <3>2
  <2>4. u # << >> /\ c.instr[Last(u)].ty = "never"
    <3>1. \E k \in DOMAIN ins : c.instr[ins[k]].ty = "never"
      BY <1>2, <2>1, <2>2 DEF HasNever
    <3>2. ins \in Seq(1..Len(c.instr))
      BY <1>4, <2>1, <2>2
    <3>3. PICK m : m = Len(c.instr)
      OBVIOUS
    <3>4. m \in Nat /\ ins \in Seq(1..m)
      BY <1>4, <3>2, <3>3
    <3>. QED
      BY ONLY <2>1, <3>1, <3>4, NeverKept
  <2>. QED
    BY <1>5, <2>3, <2>4 DEF EndsInNever
<1>. QED
  BY <1>1, <1>8 DEF EveryBlockEndsInNever, EndsInNever, BlocksOf

\* An error is not forgotten.
LEMMA ErrorsLemma ==
    ASSUME [Next]_vars, errors
    PROVE  errors'
<1>1. CASE Simple
  BY <1>1, Zenon
     DEF Simple, Constant, VariableExpr_gen, Operand, VarExpr_gen, Assign_gen,
         BinaryExpr_gen, Argument, Argument_missing, CallExpr_gen, Return_gen, DeferExpr_gen,
         MatchExpr_gen, LabelExpr_gen, GotoExpr_gen, BreakExpr_gen, BreakExpr_dangling,
         BreakExpr_error, SameStacks, Abort, Report
<1>2. CASE Memory
  BY <1>2, Zenon
     DEF Memory, AddrExpr_gen, DerefExpr_gen, ReadElement, ReadMember, WriteElement,
         WriteMember, StructMemberCallExpr_gen, NotImplemented, SizeofExpr_gen,
         CastExpr_gen, VectorMember, ConstantVectorExpr_gen, Operand_missing,
         AsmExpr_gen, LeaveWith, SameStacks, Abort, Report
<1>3. CASE Control
  BY <1>3, Zenon
     DEF Control, ScopeExpr_gen, NextStatement, EndScope, RunDefer, ScopeExpr_end,
         IfExpr_gen, IfExpr_then, IfExpr_untyped, IfExpr_noElse, IfExpr_else, IfExpr_merge,
         IfExpr_abandon, LoopExpr_gen, LoopExpr_end, LoopExpr_abandon, WhileExpr_gen,
         WhileExpr_body, WhileExpr_abandon, WhileExpr_end, ForExpr_gen, ForExpr_cond,
         ForExpr_body, ForExpr_step, ForExpr_end, ForExpr_abandon, SameStacks, Abort
<1>4. CASE File \/ Done \/ UNCHANGED vars
  BY <1>4
     DEF File, FunctionAST_gen, FunctionAST_arg, FunctionAST_body, FunctionAST_end,
         FunctionAST_noValue, FileAST_generated, fixFileCIR, checkFileCIR, Done, vars, SameStacks
<1>. QED
  BY <1>1, <1>2, <1>3, <1>4 DEF Next

\* The invariant: as long as there is no error, each block is closed or will
\* be.
Flows(S, Q) ==
    ~errors =>
        /\ status = "gen" /\ frames # << >> => Flowing(S, Q)
        /\ status \in {"gen", "generated"} /\ frames = << >> => Closed(Q)
        /\ status = "generated" => frames = << >>
        /\ EveryBlockEndsInNever

\* A step of a method.
LEMMA MethodFlows ==
    ASSUME NEW S, NEW Q, Honest(S, Q), IInv, Flows(S, Q), ~errors, ~errors',
           Simple \/ Memory \/ Control \/ FunctionAST_arg \/ FunctionAST_body
    PROVE  Flows(S, Q)'
<1>1. status = "gen" /\ frames # << >>
  BY RunningLemma
<1>2. Writing(S, Q)
  BY <1>1 DEF Flows, Writing
<1>3. Proceeds(S, Q)
  <2>1. CASE Simple
    BY <1>2, <2>1, SimpleFlowing, LabelFlowing
  <2>2. CASE Memory
    BY <1>2, <2>2, MemoryFlowing
  <2>3. CASE Control
    <3>1. CASE ScopeExpr_gen \/ NextStatement \/ EndScope \/ RunDefer \/ ScopeExpr_end
      BY <1>2, <3>1, ScopeFlowing
    <3>2. CASE \/ IfExpr_gen \/ IfExpr_then \/ IfExpr_untyped \/ IfExpr_noElse
               \/ IfExpr_else \/ IfExpr_merge \/ IfExpr_abandon
      BY <1>2, <3>2, IfFlowing
    <3>3. CASE LoopExpr_gen \/ LoopExpr_end \/ LoopExpr_abandon
      BY <1>2, <3>3, LoopFlowing
    <3>4. CASE WhileExpr_gen \/ WhileExpr_body \/ WhileExpr_abandon \/ WhileExpr_end
      BY <1>2, <3>4, WhileFlowing
    <3>5. CASE ForExpr_gen \/ ForExpr_cond \/ ForExpr_body \/ ForExpr_step
               \/ ForExpr_end \/ ForExpr_abandon
      BY <1>2, <3>5, ForFlowing
    <3>. QED
      BY <2>3, <3>1, <3>2, <3>3, <3>4, <3>5 DEF Control
  <2>4. CASE FunctionAST_arg \/ FunctionAST_body
    BY <1>2, <2>4, FunctionFlowing
  <2>. QED
    BY <2>1, <2>2, <2>3, <2>4
<1>4. CASE status' = "aborted"
  BY <1>4 DEF Flows, EveryBlockEndsInNever
<1>5. CASE status' = "gen" /\ frames' # << >> /\ Flowing(S, Q)'
  BY <1>5 DEF Flows, EveryBlockEndsInNever
<1>. QED
  BY <1>3, <1>4, <1>5 DEF Proceeds

\* Every step.
LEMMA NextFlows ==
    ASSUME NEW S, NEW Q, Honest(S, Q), IInv, Flows(S, Q), [Next]_vars
    PROVE  Flows(S, Q)'
<1>. SUFFICES ASSUME ~errors'
              PROVE  Flows(S, Q)'
  BY DEF Flows
<1>1. ~errors
  BY ErrorsLemma
<1>2. CASE Simple \/ Memory \/ Control \/ FunctionAST_arg \/ FunctionAST_body
  BY <1>1, <1>2, MethodFlows
<1>3. CASE FunctionAST_end
  <2>1. status = "gen" /\ frames # << >>
    BY <1>3, RunningLemma
  <2>2. Writing(S, Q)
    BY <1>1, <2>1 DEF Flows, Writing
  <2>3. Closed(Q)' /\ status' = "gen"
    BY <1>3, <2>2, FunctionClosed
  <2>4. frames' = << >>
    BY <2>3 DEF Closed
  <2>. QED
    BY <2>3, <2>4 DEF Flows, EveryBlockEndsInNever
<1>4. CASE FunctionAST_gen
  <2>1. Closed(Q) /\ status' = "gen"
    BY <1>1, <1>4 DEF Flows, FunctionAST_gen
  <2>2. Flowing(S, Q)' /\ frames' # << >>
    BY <1>4, <2>1, FunctionStarts
  <2>. QED
    BY <2>1, <2>2 DEF Flows, EveryBlockEndsInNever
<1>5. CASE FunctionAST_noValue
  BY <1>5 DEF FunctionAST_noValue, Flows, EveryBlockEndsInNever
<1>6. CASE FileAST_generated
  <2>1. Closed(Q) /\ status' = "generated"
    BY <1>1, <1>6 DEF Flows, FileAST_generated
  <2>2. /\ frames' = frames /\ scopes' = scopes /\ cir' = cir
    BY <1>6 DEF FileAST_generated
  <2>3. Closed(Q)' /\ frames' = << >>
    BY ONLY <2>1, <2>2 DEF Closed, HasNever, BlocksOf
  <2>. QED
    BY <2>1, <2>3 DEF Flows, EveryBlockEndsInNever
<1>7. CASE fixFileCIR
  <2>1. status = "generated" /\ status' = "fixed"
    BY <1>7 DEF fixFileCIR
  <2>2. Closed(Q)
    BY <1>1, <2>1 DEF Flows
  <2>3. EveryBlockEndsInNever'
    BY <1>7, <2>2, FixClosed
  <2>. QED
    BY <2>1, <2>3 DEF Flows
<1>8. CASE checkFileCIR
  <2>1. status' \in {"checked", "aborted"}
    BY <1>8 DEF checkFileCIR
  <2>. QED
    BY <2>1 DEF Flows, EveryBlockEndsInNever
<1>9. CASE UNCHANGED vars
  <2>1. /\ status' = status /\ frames' = frames /\ cir' = cir /\ scopes' = scopes /\ ret' = ret
    BY <1>9 DEF vars
  <2>2. /\ Flowing(S, Q) => Flowing(S, Q)'
        /\ Closed(Q) => Closed(Q)'
        /\ EveryBlockEndsInNever => EveryBlockEndsInNever'
    <3>1. Flowing(S, Q) => Flowing(S, Q)'
      BY ONLY <2>1, Zenon DEF Flowing, Top
    <3>2. Closed(Q) => Closed(Q)'
      BY ONLY <2>1, Zenon DEF Closed
    <3>3. EveryBlockEndsInNever => EveryBlockEndsInNever'
      BY ONLY <2>1, Zenon DEF EveryBlockEndsInNever
    <3>. QED
      BY ONLY <3>1, <3>2, <3>3
  <2>. QED
    BY <1>1, <2>1, <2>2 DEF Flows
<1>. QED
  BY <1>2, <1>3, <1>4, <1>5, <1>6, <1>7, <1>8, <1>9 DEF Next, File, Done

\* Nothing is generated yet.
LEMMA InitFlows ==
    ASSUME NEW S, NEW Q, Init
    PROVE  Flows(S, Q)
<1>1. cir = EmptyFile /\ frames = << >> /\ scopes = << >> /\ status = "gen"
  BY DEF Init
<1>2. cir.fun = << >>
  BY <1>1 DEF EmptyFile
<1>3. BlocksOf(cir) = {}
  BY <1>2 DEF BlocksOf
<1>4. Closed(Q)
  BY <1>1, <1>3 DEF Closed
<1>. QED
  BY <1>1, <1>4 DEF Flows, EveryBlockEndsInNever

\* In an honest program whose generation gives no error, the assertion of
\* checkFileCIR holds: fixFileCIR leaves an instruction of type never at the end
\* of each block of each function.
THEOREM BlocksEndInNever ==
    ASSUME NEW S, NEW Q, Honest(S, Q)
    PROVE  Spec => [](~errors => EveryBlockEndsInNever)
<1>1. Init => Flows(S, Q)
  BY InitFlows
<1>2. IInv /\ Flows(S, Q) /\ [Next]_vars => Flows(S, Q)'
  BY NextFlows
<1>3. Flows(S, Q) => (~errors => EveryBlockEndsInNever)
  BY DEF Flows
<1>. QED
  BY <1>1, <1>2, <1>3, Invariance, PTL DEF Spec

===============================================================================
