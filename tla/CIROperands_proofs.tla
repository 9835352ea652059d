------------------------- MODULE CIROperands_proofs -------------------------
(***************************************************************************)
(* Operands: an InstructionRef is a position in the layout of the function *)
(* being generated, computed by counting the instructions made so far.     *)
(* When and why the position it holds is that of the instruction it was    *)
(* made for.                                                               *)
(***************************************************************************)
EXTENDS CIRBlocks_proofs

(* Files, one operation after the other.                                   *)

\* The instructions of each block of function F, and the code of the function
\* that is being generated.
Pieces(c, F) == [k \in DOMAIN c.fun[F] |-> c.blk[c.fun[F][k]].ins]
Here(c) == Code(c, Len(c.fun))

\* A reference finds the instruction it was made for, or is empty.
Known(c, r) ==
    IsEmpty(r) \/ (r.pos + 1 \in 1..Len(Here(c)) /\ Here(c)[r.pos + 1] = r.def)

\* The operands of the instructions of function F are earlier instructions of it.
InOrder(c, F) ==
    \A k \in 1..Len(Code(c, F)) : \A u \in ToSet(c.instr[Code(c, F)[k]].uses) :
        IsEmpty(u) \/ (u.pos + 1 \in 1..(k - 1) /\ Code(c, F)[u.pos + 1] = u.def)

\* The blocks laid out after the insert point are empty.
AtEnd(c) ==
    \E j \in DOMAIN c.fun[Len(c.fun)] :
        /\ c.fun[Len(c.fun)][j] = c.cur
        /\ \A k \in DOMAIN c.fun[Len(c.fun)] :
              k > j => c.blk[c.fun[Len(c.fun)][k]].ins = << >>

\* Counting the instructions of the function gives the length of its code.
Counted(c) == InstructionNb(c, Len(c.fun)) = Len(Here(c))

\* A file, whose functions have the blocks of S, in which positions are right.
Sound(c, S) ==
    /\ Shaped(c) /\ Laid(c, S) /\ Blank(c) /\ AtEnd(c) /\ Counted(c)
    /\ \A F \in 1..Len(c.fun) : InOrder(c, F)

\* A block of the function that is being generated.
InLast(c, b) == b \in ToSet(c.fun[Len(c.fun)])

\* What was known in c is known in d, and the function has the blocks it had.
Keeps(c, d) ==
    /\ \A r : Known(c, r) => Known(d, r)
    /\ \A b : InLast(c, b) => InLast(d, b)

\* Sequences over a larger set.
LEMMA SeqSubset ==
    ASSUME NEW A, NEW B, \A a \in A : a \in B
    PROVE  Seq(A) \subseteq Seq(B) /\ Seq(Seq(A)) \subseteq Seq(Seq(B))
<1>1. \A X, Y : X \subseteq Y => Seq(X) \subseteq Seq(Y)
  OBVIOUS
<1>2. Seq(A) \subseteq Seq(B)
  BY <1>1
<1>. QED
  BY <1>1, <1>2

\* The code of a function in a file of this shape.
LEMMA CodeLemma ==
    ASSUME NEW c, Shaped(c), NEW F \in 1..Len(c.fun)
    PROVE  /\ Len(c.instr) \in Nat /\ Len(c.blk) \in Nat /\ Len(c.fun) \in Nat /\ DOMAIN c.fun = 1..Len(c.fun)
           /\ c.fun[F] \in Seq(1..Len(c.blk)) /\ DOMAIN c.fun[F] = 1..Len(c.fun[F]) /\ Len(c.fun[F]) \in Nat
           /\ Pieces(c, F) \in Seq(Seq(1..Len(c.instr))) /\ Len(Pieces(c, F)) = Len(c.fun[F])
           /\ \A k \in 1..Len(c.fun[F]) :
                 /\ c.fun[F][k] \in 1..Len(c.blk)
                 /\ Pieces(c, F)[k] = c.blk[c.fun[F][k]].ins
           /\ Code(c, F) = FlattenSeq(Pieces(c, F)) /\ Code(c, F) \in Seq(1..Len(c.instr))
<1>1. PICK X, Y : c.instr \in Seq(X) /\ c.blk \in Seq(Y)
  BY DEF Shaped
<1>2. /\ c.fun \in Seq(Seq(1..Len(c.blk)))
      /\ \A b \in 1..Len(c.blk) : c.blk[b].ins \in Seq(1..Len(c.instr))
  BY DEF Shaped
<1>3. Len(c.instr) \in Nat /\ Len(c.blk) \in Nat
  BY <1>1
<1>4. c.fun[F] \in Seq(1..Len(c.blk)) /\ Len(c.fun) \in Nat /\ DOMAIN c.fun = 1..Len(c.fun)
  BY <1>2
<1>5. PICK s : s = c.fun[F]
  OBVIOUS
<1>6. s \in Seq(1..Len(c.blk)) /\ DOMAIN s = 1..Len(s) /\ Len(s) \in Nat
      /\ \A k \in 1..Len(s) : s[k] \in 1..Len(c.blk)
  BY <1>4, <1>5
<1>7. PICK p : p = Pieces(c, F)
  OBVIOUS
<1>8. p = [k \in 1..Len(s) |-> c.blk[s[k]].ins]
  BY <1>5, <1>6, <1>7 DEF Pieces
<1>9. \A k \in 1..Len(s) : c.blk[s[k]].ins \in Seq(1..Len(c.instr))
  BY <1>2, <1>6
<1>10. p \in Seq(Seq(1..Len(c.instr))) /\ Len(p) = Len(s) /\ \A k \in 1..Len(s) : p[k] = c.blk[s[k]].ins
  BY <1>6, <1>8, <1>9
<1>11. FlattenSeq(p) \in Seq(1..Len(c.instr))
  <2>1. << >> \in Seq(1..Len(c.instr))
    OBVIOUS
  <2>. QED
    BY <1>10, <2>1, FlattenAppend
<1>12. Code(c, F) = FlattenSeq(p)
  BY <1>7 DEF Code, Pieces
<1>. QED
  BY <1>3, <1>4, <1>5, <1>6, <1>7, <1>10, <1>11, <1>12

\* The file d is c with instruction i at the end of the block at the insert point.
Appended(c, i, d) ==
    /\ Shaped(d) /\ Len(d.blk) = Len(c.blk) /\ d.cur = c.cur /\ d.fun = c.fun
    /\ Len(c.instr) \in Nat /\ Len(d.instr) = Len(c.instr) + 1
    /\ d.instr[Len(c.instr) + 1] = i
    /\ \A k \in 1..Len(c.instr) : d.instr[k] = c.instr[k]
    /\ d.blk[c.cur].ins = Append(c.blk[c.cur].ins, Len(c.instr) + 1)
    /\ \A b \in 1..Len(c.blk) : b # c.cur => d.blk[b].ins = c.blk[b].ins

\* What adding an instruction does to a file of this shape.
LEMMA InstructionAdded ==
    ASSUME NEW c, Shaped(c), c.cur \in 1..Len(c.blk), NEW i
    PROVE  Appended(c, i, AddInstruction(c, i))
<1>0. PICK d : d = AddInstruction(c, i)
  OBVIOUS
<1>1. PICK X, Y : c.instr \in Seq(X) /\ c.blk \in Seq(Y)
  BY DEF Shaped
<1>2. /\ {"instr", "blk", "fun", "cur"} \subseteq DOMAIN c /\ DOMAIN c.blk = 1..Len(c.blk)
      /\ \A b \in 1..Len(c.blk) : "ins" \in DOMAIN c.blk[b]
  BY <1>1 DEF Shaped
<1>3. PICK r : r = [c.blk[c.cur] EXCEPT !.ins = Append(@, Len(c.instr) + 1)]
  OBVIOUS
<1>4. r.ins = Append(c.blk[c.cur].ins, Len(c.instr) + 1)
  BY <1>2, <1>3
<1>5. d.instr = Append(c.instr, i) /\ d.blk = [c.blk EXCEPT ![c.cur] = r]
  BY <1>0, <1>2, <1>3 DEF AddInstruction
<1>6. /\ Len(c.instr) \in Nat /\ Len(d.instr) = Len(c.instr) + 1
      /\ d.instr[Len(c.instr) + 1] = i
      /\ \A k \in 1..Len(c.instr) : d.instr[k] = c.instr[k]
  <2>1. c.instr \in Seq(X \union {i}) /\ i \in X \union {i}
    BY <1>1
  <2>. QED
    BY <1>5, <2>1
<1>7. d.blk[c.cur].ins = Append(c.blk[c.cur].ins, Len(c.instr) + 1)
  BY <1>2, <1>4, <1>5
<1>8. /\ Shaped(d) /\ Len(d.blk) = Len(c.blk) /\ d.cur = c.cur /\ d.fun = c.fun
      /\ \A b \in 1..Len(c.blk) : b # c.cur => d.blk[b].ins = c.blk[b].ins
  BY <1>0, AddInstructionTargets
<1>. QED
  BY ONLY <1>0, <1>6, <1>7, <1>8 DEF Appended

\* The shape of a sound file.
LEMMA SoundShape ==
    ASSUME NEW c, NEW S, Sound(c, S), NEW m, m = Len(c.fun)
    PROVE  /\ Shaped(c) /\ Laid(c, S) /\ OnceIn(c) /\ BlocksOf(c) = S /\ S \subseteq 1..Len(c.blk)
           /\ Len(c.blk) \in Nat /\ Len(c.instr) \in Nat /\ m \in Nat /\ m > 0 /\ m \in 1..m
           /\ DOMAIN c.fun = 1..m /\ c.fun # << >>
           /\ c.cur \in 1..Len(c.blk) /\ c.cur \in ToSet(c.fun[m]) /\ c.cur \in S
           /\ \A F \in 1..m : ToSet(c.fun[F]) \subseteq S
<1>1. Shaped(c) /\ Laid(c, S) /\ AtEnd(c)
  BY DEF Sound
<1>2. OnceIn(c) /\ BlocksOf(c) = S /\ c.fun # << >>
  BY <1>1 DEF Laid
<1>3. PICK X, Y : c.instr \in Seq(X) /\ c.blk \in Seq(Y)
  BY <1>1 DEF Shaped
<1>4. Len(c.blk) \in Nat /\ Len(c.instr) \in Nat /\ c.fun \in Seq(Seq(1..Len(c.blk)))
  BY <1>1, <1>3 DEF Shaped
<1>5. m \in Nat /\ m > 0 /\ DOMAIN c.fun = 1..m /\ m \in 1..m
  BY <1>2, <1>4
<1>6. \A F \in 1..m : ToSet(c.fun[F]) \subseteq S
  BY <1>2, <1>5 DEF BlocksOf
<1>7. S \subseteq 1..Len(c.blk)
  <2>1. ASSUME NEW F \in 1..m
        PROVE  ToSet(c.fun[F]) \subseteq 1..Len(c.blk)
    <3>1. c.fun[F] \in Seq(1..Len(c.blk))
      BY <1>4, <1>5
    <3>. QED
      BY <3>1 DEF ToSet
  <2>. QED
    BY <1>2, <1>5, <2>1 DEF BlocksOf
<1>8. c.cur \in ToSet(c.fun[m])
  BY <1>1 DEF AtEnd, ToSet
<1>. QED
  BY <1>1, <1>2, <1>4, <1>5, <1>6, <1>7, <1>8

\* An instruction is added at the end of the code of its function.
LEMMA CodeAppended ==
    ASSUME NEW c, NEW S, Sound(c, S), NEW i, NEW d, d = AddInstruction(c, i)
    PROVE  /\ Here(c) \in Seq(1..Len(c.instr))
           /\ Here(d) = Append(Here(c), Len(c.instr) + 1)
           /\ \A F \in 1..Len(c.fun) : F # Len(c.fun) => Code(d, F) = Code(c, F)
<1>1. PICK m : m = Len(c.fun)
  OBVIOUS
<1>2. /\ Shaped(c) /\ OnceIn(c) /\ Len(c.blk) \in Nat /\ Len(c.instr) \in Nat /\ m \in Nat /\ m \in 1..m
      /\ DOMAIN c.fun = 1..m /\ c.cur \in 1..Len(c.blk) /\ c.cur \in ToSet(c.fun[m])
  BY <1>1, SoundShape
<1>3. /\ Shaped(d) /\ Len(d.blk) = Len(c.blk) /\ d.fun = c.fun /\ Len(d.instr) = Len(c.instr) + 1
      /\ d.blk[c.cur].ins = Append(c.blk[c.cur].ins, Len(c.instr) + 1)
      /\ \A b \in 1..Len(c.blk) : b # c.cur => d.blk[b].ins = c.blk[b].ins
  <2>1. Appended(c, i, d)
    BY <1>2, InstructionAdded
  <2>. QED
    BY ONLY <2>1 DEF Appended
<1>4. PICK x : x = Len(c.instr) + 1
  OBVIOUS
<1>5. PICK s : s = c.fun[m]
  OBVIOUS
<1>6. PICK j \in DOMAIN s : s[j] = c.cur /\ \A k \in DOMAIN s : k > j => c.blk[s[k]].ins = << >>
  BY <1>1, <1>5 DEF Sound, AtEnd
<1>7. PICK p, q : p = Pieces(c, m) /\ q = Pieces(d, m)
  OBVIOUS
<1>8. /\ DOMAIN s = 1..Len(s) /\ Len(s) \in Nat /\ p \in Seq(Seq(1..Len(c.instr))) /\ Len(p) = Len(s)
      /\ \A k \in 1..Len(s) : s[k] \in 1..Len(c.blk) /\ p[k] = c.blk[s[k]].ins
      /\ Here(c) = FlattenSeq(p) /\ Here(c) \in Seq(1..Len(c.instr))
  <2>0. Shaped(c) /\ m \in 1..Len(c.fun)
    BY <1>1, <1>2
  <2>1. /\ DOMAIN c.fun[m] = 1..Len(c.fun[m]) /\ Len(c.fun[m]) \in Nat
        /\ Pieces(c, m) \in Seq(Seq(1..Len(c.instr))) /\ Len(Pieces(c, m)) = Len(c.fun[m])
        /\ \A k \in 1..Len(c.fun[m]) :
              /\ c.fun[m][k] \in 1..Len(c.blk)
              /\ Pieces(c, m)[k] = c.blk[c.fun[m][k]].ins
        /\ Code(c, m) = FlattenSeq(Pieces(c, m)) /\ Code(c, m) \in Seq(1..Len(c.instr))
    BY ONLY <2>0, CodeLemma
  <2>2. Here(c) = Code(c, m)
    BY <1>1 DEF Here
  <2>. QED
    BY <1>5, <1>7, <2>1, <2>2
<1>9. /\ q \in Seq(Seq(1..x)) /\ Len(q) = Len(s)
      /\ \A k \in 1..Len(s) : q[k] = d.blk[s[k]].ins
      /\ Here(d) = FlattenSeq(q)
  <2>1. m \in 1..Len(d.fun) /\ d.fun[m] = s /\ Len(d.fun) = m
    BY <1>1, <1>2, <1>3, <1>5
  <2>0. Shaped(d) /\ m \in 1..Len(d.fun)
    BY <1>3, <2>1
  <2>2. /\ Pieces(d, m) \in Seq(Seq(1..Len(d.instr))) /\ Len(Pieces(d, m)) = Len(d.fun[m])
        /\ \A k \in 1..Len(d.fun[m]) : Pieces(d, m)[k] = d.blk[d.fun[m][k]].ins
        /\ Code(d, m) = FlattenSeq(Pieces(d, m))
    BY ONLY <2>0, CodeLemma
  <2>3. Here(d) = Code(d, m)
    BY <2>1 DEF Here
  <2>. QED
    BY <1>3, <1>4, <1>7, <2>1, <2>2, <2>3
<1>10. \A k \in DOMAIN s : s[k] = c.cur => k = j
  BY <1>2, <1>5, <1>6 DEF OnceIn
<1>11. /\ q[j] = Append(p[j], x)
       /\ \A k \in 1..Len(s) : k # j => q[k] = p[k]
       /\ \A k \in 1..Len(s) : k > j => p[k] = << >>
  <2>1. j \in 1..Len(s) /\ s[j] = c.cur /\ c.cur \in 1..Len(c.blk)
    BY <1>2, <1>6, <1>8
  <2>2. q[j] = Append(p[j], x)
    BY ONLY <1>3, <1>4, <1>8, <1>9, <2>1
  <2>3. ASSUME NEW k \in 1..Len(s), k # j
        PROVE  q[k] = p[k]
    <3>1. s[k] \in 1..Len(c.blk) /\ s[k] # c.cur
      BY <1>8, <1>10, <2>3
    <3>. QED
      BY ONLY <1>3, <1>8, <1>9, <2>3, <3>1
  <2>4. \A k \in 1..Len(s) : k > j => p[k] = << >>
    BY ONLY <1>6, <1>8
  <2>. QED
    BY <2>2, <2>3, <2>4
<1>12. p \in Seq(Seq(1..x)) /\ x \in 1..x
  <2>1. PICK y : y = Len(c.instr)
    OBVIOUS
  <2>2. y \in Nat /\ x = y + 1
    BY <1>2, <1>4, <2>1
  <2>3. x \in 1..x /\ \A z \in 1..y : z \in 1..x
    BY ONLY <2>2
  <2>4. Seq(Seq(1..y)) \subseteq Seq(Seq(1..x))
    BY ONLY <2>3, SeqSubset
  <2>. QED
    BY <1>8, <2>1, <2>3, <2>4
<1>13. Here(d) = Append(Here(c), x)
  <2>1. j \in 1..Len(p) /\ Len(q) = Len(p)
    BY <1>6, <1>8, <1>9
  <2>2. /\ \A k \in 1..Len(p) : k # j => q[k] = p[k]
        /\ \A k \in 1..Len(p) : k > j => p[k] = << >>
    BY <1>8, <1>11
  <2>3. p \in Seq(Seq(1..x)) /\ q \in Seq(Seq(1..x)) /\ x \in 1..x /\ q[j] = Append(p[j], x)
    BY <1>9, <1>11, <1>12
  <2>4. PICK X : X = 1..x
    OBVIOUS
  <2>5. p \in Seq(Seq(X)) /\ q \in Seq(Seq(X)) /\ x \in X
    BY <2>3, <2>4
  <2>6. FlattenSeq(q) = Append(FlattenSeq(p), x)
    <3>1. LaterAt(p, q, j, x)
      BY ONLY <2>1, <2>2, <2>3 DEF LaterAt
    <3>. QED
      BY ONLY <2>5, <3>1, FlattenLater
  <2>. QED
    BY <1>8, <1>9, <2>6
<1>14. ASSUME NEW F \in 1..m, F # m
       PROVE  Code(d, F) = Code(c, F)
  <2>1. PICK t : t = c.fun[F]
    OBVIOUS
  <2>2. c.cur \notin ToSet(t) /\ t \in Seq(1..Len(c.blk))
    <3>1. ToSet(t) \intersect ToSet(c.fun[m]) = {}
      BY <1>2, <1>14, <2>1 DEF OnceIn
    <3>2. t \in Seq(1..Len(c.blk))
      BY <1>1, <1>2, <2>1, CodeLemma
    <3>. QED
      BY <1>2, <3>1, <3>2
  <2>3. \A k \in DOMAIN t : t[k] # c.cur /\ t[k] \in 1..Len(c.blk)
    BY <2>2 DEF ToSet
  <2>4. \A k \in DOMAIN t : d.blk[t[k]].ins = c.blk[t[k]].ins
    BY <1>3, <2>3
  <2>5. d.fun[F] = t
    BY <1>3, <2>1
  <2>6. [k \in DOMAIN t |-> d.blk[t[k]].ins] = [k \in DOMAIN t |-> c.blk[t[k]].ins]
    BY <2>4
  <2>. QED
    BY <2>1, <2>5, <2>6 DEF Code
<1>. QED
  BY <1>1, <1>4, <1>8, <1>13, <1>14

\* And the number of instructions of the function grows by one.
LEMMA CountAppended ==
    ASSUME NEW c, NEW S, Sound(c, S), NEW i, NEW d, d = AddInstruction(c, i)
    PROVE  InstructionNb(d, Len(d.fun)) = InstructionNb(c, Len(c.fun)) + 1
<1>1. PICK m : m = Len(c.fun)
  OBVIOUS
<1>2. /\ Shaped(c) /\ Len(c.blk) \in Nat /\ Len(c.instr) \in Nat
      /\ c.cur \in 1..Len(c.blk) /\ c.cur \in ToSet(c.fun[m])
      /\ ToSet(c.fun[m]) \subseteq 1..Len(c.blk)
  BY <1>1, SoundShape
<1>3. /\ d.fun = c.fun
      /\ d.blk[c.cur].ins = Append(c.blk[c.cur].ins, Len(c.instr) + 1)
      /\ \A b \in 1..Len(c.blk) : b # c.cur => d.blk[b].ins = c.blk[b].ins
  <2>1. Appended(c, i, d)
    BY <1>2, InstructionAdded
  <2>. QED
    BY ONLY <2>1 DEF Appended
<1>4. PICK x, T : x = Len(c.instr) + 1 /\ T = ToSet(c.fun[m])
  OBVIOUS
<1>5. PICK U : U = UNION {ToSet(c.blk[b].ins) : b \in T}
  OBVIOUS
<1>6. PICK V : V = UNION {ToSet(d.blk[b].ins) : b \in T}
  OBVIOUS
<1>7. \A b \in T : c.blk[b].ins \in Seq(1..Len(c.instr))
  BY <1>2, <1>4 DEF Shaped
<1>8. U \subseteq 1..Len(c.instr)
  <2>1. ASSUME NEW b \in T
        PROVE  ToSet(c.blk[b].ins) \subseteq 1..Len(c.instr)
    <3>1. PICK s : s = c.blk[b].ins
      OBVIOUS
    <3>2. s \in Seq(1..Len(c.instr))
      BY <1>7, <3>1
    <3>. QED
      BY <3>1, <3>2 DEF ToSet
  <2>. QED
    BY <1>5, <2>1
<1>9. V = U \union {x}
  <2>1. \A e : e \in ToSet(d.blk[c.cur].ins) <=> e \in ToSet(c.blk[c.cur].ins) \/ e = x
    <3>1. PICK s : s = c.blk[c.cur].ins
      OBVIOUS
    <3>2. s \in Seq(Nat) /\ x \in Nat
      BY <1>2, <1>4, <1>7, <3>1
    <3>3. PICK u : u = d.blk[c.cur].ins
      OBVIOUS
    <3>4. u = Append(s, x)
      BY <1>3, <1>4, <3>1, <3>3
    <3>5. \A e : e \in ToSet(u) <=> e \in ToSet(s) \/ e = x
      BY <3>2, <3>4, AppendLemma
    <3>. QED
      BY <3>1, <3>3, <3>5
  <2>2. \A b \in T : b # c.cur => ToSet(d.blk[b].ins) = ToSet(c.blk[b].ins)
    BY <1>2, <1>3, <1>4
  <2>3. c.cur \in T
    BY <1>2, <1>4
  <2>4. ASSUME NEW e, e \in V
        PROVE  e \in U \union {x}
    <3>1. PICK b \in T : e \in ToSet(d.blk[b].ins)
      BY <1>6, <2>4
    <3>. QED
      BY <1>5, <2>1, <2>2, <3>1
  <2>5. ASSUME NEW e, e \in U \union {x}
        PROVE  e \in V
    <3>1. CASE e = x
      BY <1>6, <2>1, <2>3, <3>1
    <3>2. CASE e \in U
      <4>1. PICK b \in T : e \in ToSet(c.blk[b].ins)
        BY <1>5, <3>2
      <4>. QED
        BY <1>6, <2>1, <2>2, <4>1
    <3>. QED
      BY <2>5, <3>1, <3>2
  <2>. QED
    BY <2>4, <2>5
<1>10. IsFiniteSet(U) /\ x \notin U
  <2>1. PICK y : y = Len(c.instr)
    OBVIOUS
  <2>2. y \in Nat /\ x = y + 1 /\ U \subseteq 1..y
    BY <1>2, <1>4, <1>8, <2>1
  <2>3. IsFiniteSet(1..y)
    BY <2>2, FS_Interval
  <2>4. x \notin 1..y
    BY ONLY <2>2
  <2>. QED
    BY <2>2, <2>3, <2>4, FS_Subset
<1>11. Cardinality(V) = Cardinality(U) + 1
  BY <1>9, <1>10, FS_AddElement
<1>12. InstructionNb(c, m) = Cardinality(U) /\ InstructionNb(d, m) = Cardinality(V)
  BY <1>3, <1>4, <1>5, <1>6 DEF InstructionNb
<1>. QED
  BY <1>1, <1>3, <1>11, <1>12

\* The operands of an instruction are known.
Fits(c, i) == \A u \in ToSet(i.uses) : Known(c, u)

\* What is known stays known, and the reference to the new instruction finds it.
LEMMA KnownAppended ==
    ASSUME NEW c, NEW S, Sound(c, S), NEW i, NEW d, d = AddInstruction(c, i)
    PROVE  /\ Keeps(c, d) /\ Counted(d)
           /\ Known(d, LastRef(d)) /\ ~IsEmpty(LastRef(d))
<1>1. PICK h, x : h = Here(c) /\ x = Len(c.instr) + 1
  OBVIOUS
<1>2. Len(c.instr) \in Nat /\ Shaped(c) /\ c.cur \in 1..Len(c.blk)
  BY SoundShape
<1>3. h \in Seq(1..Len(c.instr)) /\ Here(d) = Append(h, x)
  BY <1>1, CodeAppended
<1>4. PICK g : g = Here(d)
  OBVIOUS
<1>5. /\ Len(h) \in Nat /\ Len(g) = Len(h) + 1 /\ g[Len(h) + 1] = x
      /\ \A k \in 1..Len(h) : g[k] = h[k]
  <2>1. h \in Seq(Nat) /\ x \in Nat
    BY <1>1, <1>2, <1>3
  <2>. QED
    BY <1>3, <1>4, <2>1
<1>6. PICK y : y = Len(h)
  OBVIOUS
<1>7. y \in Nat /\ Len(g) = y + 1 /\ g[y + 1] = x /\ \A k \in 1..y : g[k] = h[k]
  BY <1>5, <1>6
<1>8. Keeps(c, d)
  <2>1. ASSUME NEW r, Known(c, r)
        PROVE  Known(d, r)
    <3>1. CASE IsEmpty(r)
      BY <3>1 DEF Known
    <3>2. CASE ~IsEmpty(r)
      <4>1. r.pos + 1 \in 1..y /\ h[r.pos + 1] = r.def
        BY <1>1, <1>6, <2>1, <3>2 DEF Known
      <4>2. 1..y \subseteq 1..(y + 1)
        BY ONLY <1>7
      <4>. QED
        BY <1>4, <1>7, <4>1, <4>2 DEF Known
    <3>. QED
      BY <3>1, <3>2
  <2>2. d.fun = c.fun
    BY <1>2, InstructionAdded DEF Appended
  <2>. QED
    BY <2>1, <2>2 DEF Keeps, InLast
<1>9. InstructionNb(d, Len(d.fun)) = InstructionNb(c, Len(c.fun)) + 1
  BY CountAppended
<1>10. InstructionNb(c, Len(c.fun)) = y
  BY <1>1, <1>6 DEF Sound, Counted
<1>11. Counted(d)
  BY <1>4, <1>7, <1>9, <1>10 DEF Counted
<1>12. Len(d.instr) = x
  BY <1>1, <1>2, InstructionAdded DEF Appended
<1>13. LastRef(d) = [pos |-> (y + 1) - 1, def |-> x]
  BY <1>9, <1>10, <1>12 DEF LastRef, CurrentFunction
<1>14. PICK r : r = LastRef(d)
  OBVIOUS
<1>15. r.pos = y /\ r.def = x
  BY <1>7, <1>13, <1>14
<1>16. ~IsEmpty(r) /\ r.pos + 1 \in 1..Len(g) /\ g[r.pos + 1] = r.def
  BY <1>7, <1>15 DEF IsEmpty
<1>. QED
  BY <1>4, <1>8, <1>11, <1>14, <1>16 DEF Known

\* The operands are still earlier instructions.
LEMMA OrderAppended ==
    ASSUME NEW c, NEW S, Sound(c, S), NEW i, Fits(c, i), NEW d, d = AddInstruction(c, i),
           NEW F \in 1..Len(c.fun)
    PROVE  InOrder(d, F)
<1>1. PICK m, h, x, y : m = Len(c.fun) /\ h = Code(c, F) /\ x = Len(c.instr) + 1 /\ y = Len(h)
  OBVIOUS
<1>2. Len(c.instr) \in Nat /\ Shaped(c) /\ c.cur \in 1..Len(c.blk) /\ x \in Nat /\ x > Len(c.instr)
  BY <1>1, SoundShape
<1>3. /\ h \in Seq(1..Len(c.instr)) /\ y \in Nat /\ \A k \in 1..y : h[k] \in 1..Len(c.instr)
  BY <1>1, <1>2, CodeLemma
<1>4. /\ d.instr[x] = i /\ \A k \in 1..Len(c.instr) : d.instr[k] = c.instr[k]
      /\ d.fun = c.fun
  BY <1>1, <1>2, InstructionAdded DEF Appended
<1>5. \A k \in 1..y : \A u \in ToSet(c.instr[h[k]].uses) :
          IsEmpty(u) \/ (u.pos + 1 \in 1..(k - 1) /\ h[u.pos + 1] = u.def)
  BY <1>1 DEF Sound, InOrder
<1>6. CASE F # m
  <2>1. Code(d, F) = h
    BY <1>1, <1>6, CodeAppended
  <2>2. \A k \in 1..y : d.instr[h[k]] = c.instr[h[k]]
    BY <1>3, <1>4
  <2>. QED
    BY <1>1, <1>5, <2>1, <2>2 DEF InOrder
<1>7. CASE F = m
  <2>1. PICK g : g = Code(d, F)
    OBVIOUS
  <2>2. g = Append(h, x)
    BY <1>1, <1>4, <1>7, <2>1, CodeAppended DEF Here
  <2>3. /\ Len(g) = y + 1 /\ g[y + 1] = x /\ \A k \in 1..y : g[k] = h[k]
    <3>1. h \in Seq(Nat)
      BY <1>2, <1>3
    <3>. QED
      BY <1>1, <1>2, <2>2, <3>1
  <2>4. ASSUME NEW k \in 1..(y + 1), NEW u \in ToSet(d.instr[g[k]].uses), ~IsEmpty(u)
        PROVE  u.pos + 1 \in 1..(k - 1) /\ g[u.pos + 1] = u.def
    <3>1. CASE k = y + 1
      <4>1. u \in ToSet(i.uses)
        BY <1>4, <2>3, <2>4, <3>1
      <4>2. Known(c, u)
        BY <4>1 DEF Fits
      <4>3. u.pos + 1 \in 1..y /\ h[u.pos + 1] = u.def
        BY <1>1, <1>7, <2>4, <4>2 DEF Known, Here
      <4>4. k - 1 = y
        BY <1>3, <3>1
      <4>. QED
        BY <2>3, <4>3, <4>4
    <3>2. CASE k # y + 1
      <4>1. k \in 1..y
        BY <1>3, <3>2
      <4>2. u \in ToSet(c.instr[h[k]].uses)
        BY <1>3, <1>4, <2>3, <2>4, <4>1
      <4>3. u.pos + 1 \in 1..(k - 1) /\ h[u.pos + 1] = u.def
        BY <1>5, <2>4, <4>1, <4>2
      <4>4. u.pos + 1 \in 1..y
        BY <1>3, <4>1, <4>3
      <4>. QED
        BY <2>3, <4>3, <4>4
    <3>. QED
      BY <3>1, <3>2
  <2>. QED
    BY <2>1, <2>3, <2>4 DEF InOrder
<1>. QED
  BY <1>6, <1>7

\* An instruction whose operands are known may be added.
LEMMA SoundInstruction ==
    ASSUME NEW c, NEW S, Sound(c, S), NEW i, Fits(c, i), NEW d, d = AddInstruction(c, i)
    PROVE  /\ Sound(d, S) /\ Keeps(c, d)
           /\ Known(d, LastRef(d)) /\ ~IsEmpty(LastRef(d))
           /\ d.cur = c.cur /\ d.fun = c.fun /\ Len(d.blk) = Len(c.blk)
<1>1. PICK m : m = Len(c.fun)
  OBVIOUS
<1>2. /\ Shaped(c) /\ Laid(c, S) /\ OnceIn(c) /\ BlocksOf(c) = S /\ Len(c.blk) \in Nat /\ m \in Nat
      /\ m \in 1..m /\ DOMAIN c.fun = 1..m /\ c.cur \in 1..Len(c.blk) /\ c.cur \in S
      /\ ToSet(c.fun[m]) \subseteq S /\ S \subseteq 1..Len(c.blk)
  BY <1>1, SoundShape
<1>3. /\ Shaped(d) /\ Len(d.blk) = Len(c.blk) /\ d.cur = c.cur /\ d.fun = c.fun
      /\ \A b \in 1..Len(c.blk) : b # c.cur => d.blk[b].ins = c.blk[b].ins
  <2>1. Appended(c, i, d)
    BY <1>2, InstructionAdded
  <2>. QED
    BY ONLY <2>1 DEF Appended
<1>4. Laid(d, S)
  <2>1. "fun" \in DOMAIN d
    BY <1>3 DEF Shaped
  <2>. QED
    BY <1>2, <1>3, <2>1, SameLayoutLemma
<1>5. Blank(d)
  <2>1. \A b \in 1..Len(c.blk) : b \notin S => c.blk[b].ins = << >>
    BY <1>2 DEF Sound, Blank
  <2>2. BlocksOf(d) = S
    BY <1>4 DEF Laid
  <2>. QED
    BY <1>2, <1>3, <2>1, <2>2 DEF Blank
<1>6. AtEnd(d)
  <2>1. PICK s : s = c.fun[m]
    OBVIOUS
  <2>2. PICK j \in DOMAIN s : s[j] = c.cur /\ \A k \in DOMAIN s : k > j => c.blk[s[k]].ins = << >>
    BY <1>1, <2>1 DEF Sound, AtEnd
  <2>3. \A k \in DOMAIN s : s[k] = c.cur => k = j
    BY <1>2, <2>1, <2>2 DEF OnceIn
  <2>4. \A k \in DOMAIN s : s[k] \in 1..Len(c.blk)
    BY <1>2, <2>1 DEF ToSet
  <2>5. s \in Seq(Nat)
    BY <1>2, <2>1 DEF Laid
  <2>6. j \in Nat
    BY <2>2, <2>5
  <2>7. \A k \in DOMAIN s : k > j => k # j
    BY <2>5, <2>6
  <2>8. \A k \in DOMAIN s : k > j => d.blk[s[k]].ins = << >>
    BY <1>3, <2>2, <2>3, <2>4, <2>7
  <2>9. d.fun[Len(d.fun)] = s
    BY <1>1, <1>3, <2>1
  <2>. QED
    BY <1>3, <2>2, <2>8, <2>9 DEF AtEnd
<1>7. Keeps(c, d) /\ Counted(d) /\ Known(d, LastRef(d)) /\ ~IsEmpty(LastRef(d))
  BY KnownAppended
<1>8. \A F \in 1..Len(d.fun) : InOrder(d, F)
  BY <1>3, OrderAppended
<1>. QED
  BY <1>3, <1>4, <1>5, <1>6, <1>7, <1>8 DEF Sound

-----------------------------------------------------------------------------
(* Operations that add no instruction.                                     *)

\* The instructions of c are those of d, in the same blocks; what d has more
\* are empty blocks.
Alike(c, d) ==
    /\ Shaped(d) /\ d.fun = c.fun /\ d.instr = c.instr /\ Len(c.blk) <= Len(d.blk)
    /\ \A b \in 1..Len(c.blk) : d.blk[b].ins = c.blk[b].ins
    /\ \A b \in 1..Len(d.blk) : b \notin 1..Len(c.blk) => d.blk[b].ins = << >>

\* Then the code of each function is the same.
LEMMA AlikeCode ==
    ASSUME NEW c, Shaped(c), NEW d, Alike(c, d), NEW F \in 1..Len(c.fun)
    PROVE  Code(d, F) = Code(c, F)
<1>1. PICK t : t = c.fun[F]
  OBVIOUS
<1>2. /\ d.fun = c.fun /\ \A b \in 1..Len(c.blk) : d.blk[b].ins = c.blk[b].ins
      /\ \A k \in DOMAIN t : t[k] \in 1..Len(c.blk)
  BY <1>1, CodeLemma DEF Alike
<1>3. [k \in DOMAIN t |-> d.blk[t[k]].ins] = [k \in DOMAIN t |-> c.blk[t[k]].ins]
  BY <1>2
<1>. QED
  BY <1>1, <1>2, <1>3 DEF Code

\* Then positions are right in both, if the insert point is.
LEMMA SoundAlike ==
    ASSUME NEW c, NEW S, Sound(c, S), NEW d, Alike(c, d), AtEnd(d)
    PROVE  Sound(d, S) /\ Keeps(c, d)
<1>1. PICK m : m = Len(c.fun)
  OBVIOUS
<1>2. /\ Shaped(c) /\ Laid(c, S) /\ BlocksOf(c) = S /\ Len(c.blk) \in Nat /\ m \in Nat
      /\ m \in 1..m /\ DOMAIN c.fun = 1..m /\ S \subseteq 1..Len(c.blk)
      /\ \A F \in 1..m : ToSet(c.fun[F]) \subseteq S
  BY <1>1, SoundShape
<1>3. /\ Shaped(d) /\ d.fun = c.fun /\ d.instr = c.instr
      /\ \A b \in 1..Len(c.blk) : d.blk[b].ins = c.blk[b].ins
      /\ \A b \in 1..Len(d.blk) : b \notin 1..Len(c.blk) => d.blk[b].ins = << >>
  BY DEF Alike
<1>4. Laid(d, S)
  <2>1. "fun" \in DOMAIN d
    BY <1>3 DEF Shaped
  <2>. QED
    BY <1>2, <1>3, <2>1, SameLayoutLemma
<1>5. Blank(d)
  <2>1. \A b \in 1..Len(c.blk) : b \notin S => c.blk[b].ins = << >>
    BY <1>2 DEF Sound, Blank
  <2>2. BlocksOf(d) = S
    BY <1>4 DEF Laid
  <2>. QED
    BY <1>3, <2>1, <2>2 DEF Blank
<1>6. ASSUME NEW F \in 1..m
      PROVE  Code(d, F) = Code(c, F)
  BY <1>1, <1>2, AlikeCode
<1>7. Here(d) = Here(c)
  BY <1>1, <1>2, <1>3, <1>6 DEF Here
<1>8. Keeps(c, d)
  BY <1>3, <1>7 DEF Keeps, Known, InLast
<1>9. Counted(d)
  <2>1. PICK T : T = ToSet(c.fun[m])
    OBVIOUS
  <2>2. {ToSet(d.blk[b].ins) : b \in T} = {ToSet(c.blk[b].ins) : b \in T}
    <3>1. \A b \in T : d.blk[b].ins = c.blk[b].ins
      BY <1>2, <1>3, <2>1
    <3>. QED
      BY <3>1
  <2>3. InstructionNb(d, m) = InstructionNb(c, m)
    BY <1>3, <2>1, <2>2 DEF InstructionNb
  <2>. QED
    BY <1>1, <1>3, <1>7, <2>3 DEF Sound, Counted
<1>10. ASSUME NEW F \in 1..m
       PROVE  InOrder(d, F)
  <2>1. InOrder(c, F)
    BY <1>1, <1>10 DEF Sound
  <2>2. Code(d, F) = Code(c, F)
    BY <1>6, <1>10
  <2>. QED
    BY <1>3, <2>1, <2>2 DEF InOrder
<1>. QED
  BY <1>1, <1>3, <1>4, <1>5, <1>8, <1>9, <1>10 DEF Sound

\* It is, if it is the same.
LEMMA AtEndAlike ==
    ASSUME NEW c, NEW S, Sound(c, S), NEW d, Alike(c, d), d.cur = c.cur
    PROVE  AtEnd(d)
<1>1. PICK m, s : m = Len(c.fun) /\ s = c.fun[m]
  OBVIOUS
<1>2. /\ m \in 1..m /\ DOMAIN c.fun = 1..m /\ S \subseteq 1..Len(c.blk)
      /\ ToSet(s) \subseteq S
  BY <1>1, SoundShape
<1>3. d.fun = c.fun /\ \A b \in 1..Len(c.blk) : d.blk[b].ins = c.blk[b].ins
  BY DEF Alike
<1>4. \A k \in DOMAIN s : s[k] \in 1..Len(c.blk)
  BY <1>2 DEF ToSet
<1>5. PICK j \in DOMAIN s : s[j] = c.cur /\ \A k \in DOMAIN s : k > j => c.blk[s[k]].ins = << >>
  BY <1>1 DEF Sound, AtEnd
<1>6. d.fun[Len(d.fun)] = s
  BY <1>1, <1>3
<1>. QED
  BY <1>3, <1>4, <1>5, <1>6 DEF AtEnd

\* Block b is the last one laid out.
Ends(c, b) ==
    /\ c.fun[Len(c.fun)] # << >>
    /\ c.fun[Len(c.fun)][Len(c.fun[Len(c.fun)])] = b

\* d is c with one function and its blocks where they were, and positions right.
Same(c, S, d) ==
    /\ Sound(d, S) /\ Keeps(c, d)
    /\ d.fun = c.fun /\ d.cur = c.cur /\ Len(d.blk) = Len(c.blk)

LEMMA SameLemma ==
    ASSUME NEW c, NEW S, NEW d
    PROVE  /\ Sound(c, S) => Same(c, S, c)
           /\ \A e : Same(c, S, d) /\ Same(d, S, e) => Same(c, S, e)
  BY DEF Same, Keeps

\* A predecessor is recorded.
LEMMA SoundPred ==
    ASSUME NEW c, NEW S, Sound(c, S), NEW p \in 1..Len(c.blk), NEW q
    PROVE  Same(c, S, AddPred(c, p, q))
<1>1. PICK d : d = AddPred(c, p, q)
  OBVIOUS
<1>2. Shaped(c) /\ Len(c.blk) \in Nat
  BY SoundShape
<1>3. /\ Shaped(d) /\ Len(d.blk) = Len(c.blk) /\ d.cur = c.cur /\ d.fun = c.fun
      /\ \A b \in 1..Len(c.blk) : d.blk[b].ins = c.blk[b].ins
  BY <1>1, <1>2, AddPredTargets
<1>4. d.instr = c.instr
  BY <1>1, <1>2 DEF AddPred, Shaped
<1>5. Alike(c, d)
  BY <1>2, <1>3, <1>4 DEF Alike
<1>6. AtEnd(d)
  BY <1>3, <1>5, AtEndAlike
<1>7. Sound(d, S) /\ Keeps(c, d)
  BY <1>5, <1>6, SoundAlike
<1>. QED
  BY <1>1, <1>3, <1>7 DEF Same

\* A block is made.
LEMMA NewBlockAlike ==
    ASSUME NEW c, Shaped(c), NEW base, NEW d, d = NewBlock(c, base), NEW n, n = Len(c.blk)
    PROVE  /\ Alike(c, d) /\ d.cur = c.cur /\ Len(d.blk) = n + 1 /\ LastBlock(d) = n + 1
           /\ n \in Nat /\ d.blk[n + 1].ins = << >>
<1>1. n \in Nat
  BY DEF Shaped
<1>2. PICK R : c.blk \in Seq(R)
  BY DEF Shaped
<1>3. PICK r : r = [name |-> <<base, 0>>, ins |-> << >>, preds |-> {}]
  OBVIOUS
<1>4. /\ {"instr", "blk", "fun", "cur"} \subseteq DOMAIN c /\ c.fun \in Seq(Seq(1..n))
      /\ \E X : c.instr \in Seq(X)
      /\ \A b \in 1..n : "ins" \in DOMAIN c.blk[b] /\ c.blk[b].ins \in Seq(1..Len(c.instr))
  BY DEF Shaped
<1>5. /\ DOMAIN d = DOMAIN c /\ d.instr = c.instr /\ d.blk = Append(c.blk, r)
      /\ d.cur = c.cur /\ d.fun = c.fun
  BY <1>3, <1>4 DEF NewBlock
<1>6. /\ d.blk \in Seq(R \union {r}) /\ Len(d.blk) = n + 1 /\ d.blk[n + 1] = r
      /\ \A b \in 1..n : d.blk[b] = c.blk[b]
  <2>1. c.blk \in Seq(R \union {r}) /\ r \in R \union {r}
    BY <1>2
  <2>. QED
    BY <1>5, <2>1
<1>7. "ins" \in DOMAIN r /\ r.ins = << >>
  BY <1>3
<1>8. \A b \in 1..(n + 1) : b \in 1..n \/ b = n + 1
  BY ONLY <1>1
<1>9. Shaped(d)
  <2>1. \A b \in 1..(n + 1) : "ins" \in DOMAIN d.blk[b] /\ d.blk[b].ins \in Seq(1..Len(d.instr))
    <3>1. ASSUME NEW b \in 1..(n + 1)
          PROVE  "ins" \in DOMAIN d.blk[b] /\ d.blk[b].ins \in Seq(1..Len(d.instr))
      <4>1. << >> \in Seq(1..Len(d.instr))
        OBVIOUS
      <4>2. CASE b \in 1..n
        BY <1>4, <1>5, <1>6, <4>2
      <4>3. CASE b = n + 1
        BY <1>6, <1>7, <4>1, <4>3
      <4>. QED
        BY <1>8, <3>1, <4>2, <4>3
    <3>. QED
      BY <3>1
  <2>2. d.fun \in Seq(Seq(1..(n + 1)))
    <3>1. \A a \in 1..n : a \in 1..(n + 1)
      BY ONLY <1>1
    <3>2. Seq(Seq(1..n)) \subseteq Seq(Seq(1..(n + 1)))
      <4>1. PICK A, B : A = 1..n /\ B = 1..(n + 1)
        OBVIOUS
      <4>2. \A a \in A : a \in B
        BY ONLY <3>1, <4>1
      <4>3. Seq(Seq(A)) \subseteq Seq(Seq(B))
        BY ONLY <4>2, SeqSubset
      <4>. QED
        BY <4>1, <4>3
    <3>. QED
      BY <1>4, <1>5, <3>2
  <2>. QED
    BY <1>4, <1>5, <1>6, <2>1, <2>2 DEF Shaped
<1>10. Alike(c, d)
  <2>1. Len(c.blk) <= Len(d.blk)
    BY <1>1, <1>6
  <2>2. \A b \in 1..Len(d.blk) : b \notin 1..Len(c.blk) => d.blk[b].ins = << >>
    BY <1>6, <1>7, <1>8
  <2>. QED
    BY <1>5, <1>6, <1>9, <2>1, <2>2 DEF Alike
<1>. QED
  BY <1>1, <1>5, <1>6, <1>7, <1>10 DEF LastBlock

LEMMA SoundNewBlock ==
    ASSUME NEW c, NEW S, Sound(c, S), NEW base, NEW d, d = NewBlock(c, base), NEW n, n = Len(c.blk)
    PROVE  /\ Sound(d, S) /\ Keeps(c, d)
           /\ d.fun = c.fun /\ d.cur = c.cur /\ Len(d.blk) = n + 1 /\ LastBlock(d) = n + 1
           /\ n \in Nat /\ n + 1 \notin S
<1>1. Shaped(c) /\ n \in Nat /\ S \subseteq 1..n
  BY SoundShape
<1>2. Alike(c, d) /\ d.cur = c.cur /\ Len(d.blk) = n + 1 /\ LastBlock(d) = n + 1
  BY <1>1, NewBlockAlike
<1>3. AtEnd(d)
  BY <1>2, AtEndAlike
<1>4. Sound(d, S) /\ Keeps(c, d)
  BY <1>2, <1>3, SoundAlike
<1>5. n + 1 \notin S
  BY <1>1
<1>. QED
  BY <1>1, <1>2, <1>4, <1>5 DEF Alike

\* The insert point moves.
LEMMA SoundInsertPoint ==
    ASSUME NEW c, NEW S, Sound(c, S), NEW b, NEW d, d = SetInsertPoint(c, b)
    PROVE  /\ AtEnd(d) => Sound(d, S)
           /\ Ends(c, b) => Sound(d, S)
           /\ Keeps(c, d) /\ d.fun = c.fun /\ Len(d.blk) = Len(c.blk) /\ d.cur = b
<1>1. Shaped(c) /\ Len(c.blk) \in Nat
  BY SoundShape
<1>2. /\ DOMAIN d = DOMAIN c /\ d.instr = c.instr /\ d.blk = c.blk /\ d.fun = c.fun /\ d.cur = b
  BY <1>1 DEF SetInsertPoint, Shaped
<1>3. Shaped(d)
  BY <1>1, <1>2 DEF Shaped
<1>4. Alike(c, d)
  BY <1>1, <1>2, <1>3 DEF Alike
<1>5. Keeps(c, d)
  <2>1. Here(d) = Here(c)
    BY <1>2 DEF Here, Code
  <2>. QED
    BY <1>2, <2>1 DEF Keeps, Known, InLast
<1>6. ASSUME Ends(c, b)
      PROVE  AtEnd(d)
  <2>1. PICK m, s, l : m = Len(c.fun) /\ s = c.fun[m] /\ l = Len(s)
    OBVIOUS
  <2>2. s \in Seq(1..Len(c.blk)) /\ s # << >>
    <3>1. m \in 1..m
      BY <2>1, SoundShape
    <3>. QED
      BY <1>1, <1>6, <2>1, <3>1, CodeLemma DEF Ends
  <2>3. l \in DOMAIN s /\ s[l] = d.cur /\ \A k \in DOMAIN s : ~(k > l)
    BY <1>2, <1>6, <2>1, <2>2 DEF Ends
  <2>4. d.fun[Len(d.fun)] = s
    BY <1>2, <2>1
  <2>. QED
    BY <2>3, <2>4 DEF AtEnd
<1>7. AtEnd(d) => Sound(d, S)
  BY <1>4, SoundAlike
<1>. QED
  BY <1>2, <1>5, <1>6, <1>7

\* Block b of c comes last in d, and that is all.
LaidOut(c, b, d) ==
    LET m == Len(c.fun)
    IN  /\ Shaped(d) /\ d.instr = c.instr /\ d.cur = c.cur /\ Len(d.blk) = Len(c.blk)
        /\ \A k \in 1..Len(c.blk) : d.blk[k].ins = c.blk[k].ins
        /\ m \in Nat /\ m > 0 /\ m \in 1..m /\ DOMAIN d.fun = 1..m /\ Len(d.fun) = m
        /\ c.fun[m] \in Seq(1..Len(c.blk)) /\ d.fun[m] = Append(c.fun[m], b)
        /\ \A F \in 1..m : F # m => d.fun[F] = c.fun[F]

LEMMA BlockPlaced ==
    ASSUME NEW c, Shaped(c), c.fun # << >>, NEW b \in 1..Len(c.blk)
    PROVE  LaidOut(c, b, AddBasicBlock(c, b))
<1>. SUFFICES ASSUME NEW d, d = AddBasicBlock(c, b), NEW m, m = Len(c.fun)
              PROVE  LaidOut(c, b, d)
  OBVIOUS
<1>. DEFINE n == Len(c.blk)
<1>1. PICK X, R : c.instr \in Seq(X) /\ c.blk \in Seq(R)
  BY DEF Shaped
<1>2. /\ {"instr", "blk", "fun", "cur"} \subseteq DOMAIN c /\ c.fun \in Seq(Seq(1..n))
      /\ \A k \in 1..n : "ins" \in DOMAIN c.blk[k] /\ c.blk[k].ins \in Seq(1..Len(c.instr))
  BY DEF Shaped
<1>3. m \in Nat /\ m > 0 /\ m \in 1..m /\ DOMAIN c.fun = 1..m /\ c.fun[m] \in Seq(1..n)
  BY <1>2
<1>4. PICK v : d.blk = [c.blk EXCEPT ![b].name = v]
  BY <1>2 DEF AddBasicBlock
<1>5. PICK r, t : r = [c.blk[b] EXCEPT !.name = v] /\ t = Append(c.fun[m], b)
  OBVIOUS
<1>6. /\ DOMAIN d = DOMAIN c /\ d.instr = c.instr /\ d.cur = c.cur
      /\ d.fun = [c.fun EXCEPT ![m] = Append(@, b)]
  BY <1>2 DEF AddBasicBlock, CurrentFunction
<1>7. /\ d.blk \in Seq(R \union {r}) /\ Len(d.blk) = n
      /\ \A k \in 1..n : "ins" \in DOMAIN d.blk[k] /\ d.blk[k].ins = c.blk[k].ins
  <2>1. d.blk = [c.blk EXCEPT ![b] = r]
    BY <1>4, <1>5
  <2>2. c.blk \in Seq(R \union {r}) /\ r \in R \union {r}
    BY <1>1
  <2>3. d.blk \in Seq(R \union {r}) /\ Len(d.blk) = n
        /\ \A k \in 1..n : d.blk[k] = IF k = b THEN r ELSE c.blk[k]
    BY <2>1, <2>2
  <2>4. "ins" \in DOMAIN r /\ r.ins = c.blk[b].ins
    BY <1>2, <1>5
  <2>. QED
    BY <1>2, <2>3, <2>4
<1>8. t \in Seq(1..n)
  BY <1>3, <1>5
<1>9. /\ d.fun \in Seq(Seq(1..n)) /\ Len(d.fun) = m /\ DOMAIN d.fun = 1..m /\ d.fun[m] = t
      /\ \A F \in 1..m : F # m => d.fun[F] = c.fun[F]
  <2>1. d.fun = [c.fun EXCEPT ![m] = t]
    BY <1>5, <1>6
  <2>. QED
    BY <1>2, <1>3, <1>8, <2>1
<1>10. Shaped(d)
  BY <1>1, <1>2, <1>6, <1>7, <1>9 DEF Shaped
<1>. QED
  BY <1>3, <1>5, <1>6, <1>7, <1>9, <1>10 DEF LaidOut

\* An empty block added at the end leaves the code as it is.
LEMMA PlacedCode ==
    ASSUME NEW c, Shaped(c), c.fun # << >>, NEW b \in 1..Len(c.blk), c.blk[b].ins = << >>,
           NEW d, d = AddBasicBlock(c, b)
    PROVE  /\ \A F \in 1..Len(c.fun) : Code(d, F) = Code(c, F)
           /\ Here(d) = Here(c)
           /\ InstructionNb(d, Len(d.fun)) = InstructionNb(c, Len(c.fun))
           /\ \A F \in 1..Len(c.fun) : InOrder(c, F) => InOrder(d, F)
<1>1. PICK m, s, t : m = Len(c.fun) /\ s = c.fun[m] /\ t = d.fun[m]
  OBVIOUS
<1>2. /\ Shaped(d) /\ d.instr = c.instr /\ Len(d.blk) = Len(c.blk)
      /\ \A k \in 1..Len(c.blk) : d.blk[k].ins = c.blk[k].ins
      /\ m \in Nat /\ m \in 1..m /\ Len(d.fun) = m /\ DOMAIN d.fun = 1..m
      /\ s \in Seq(1..Len(c.blk)) /\ t = Append(s, b)
      /\ \A F \in 1..m : F # m => d.fun[F] = c.fun[F]
  <2>1. LaidOut(c, b, d)
    BY BlockPlaced
  <2>. QED
    BY <1>1, <2>1 DEF LaidOut
<1>3. ASSUME NEW F \in 1..m, F # m
      PROVE  Code(d, F) = Code(c, F)
  <2>1. PICK u : u = c.fun[F]
    OBVIOUS
  <2>2. c.fun[F] \in Seq(1..Len(c.blk))
    BY <1>1, <1>3, CodeLemma
  <2>3. \A k \in DOMAIN u : u[k] \in 1..Len(c.blk)
    BY <2>1, <2>2
  <2>4. [k \in DOMAIN u |-> d.blk[u[k]].ins] = [k \in DOMAIN u |-> c.blk[u[k]].ins]
    BY <1>2, <2>3
  <2>5. d.fun[F] = u
    BY <1>2, <1>3, <2>1
  <2>. QED
    BY <2>1, <2>4, <2>5 DEF Code
<1>4. Code(d, m) = Code(c, m)
  <2>1. PICK p, q, X : p = Pieces(c, m) /\ q = Pieces(d, m) /\ X = 1..Len(c.instr)
    OBVIOUS
  <2>2. /\ p \in Seq(Seq(X)) /\ Len(p) = Len(s) /\ Len(s) \in Nat
        /\ \A k \in 1..Len(s) : s[k] \in 1..Len(c.blk) /\ p[k] = c.blk[s[k]].ins
        /\ Code(c, m) = FlattenSeq(p)
    <3>1. m \in 1..Len(c.fun)
      BY <1>1, <1>2
    <3>2. /\ Pieces(c, m) \in Seq(Seq(1..Len(c.instr))) /\ Len(Pieces(c, m)) = Len(c.fun[m])
          /\ \A k \in 1..Len(c.fun[m]) :
                c.fun[m][k] \in 1..Len(c.blk) /\ Pieces(c, m)[k] = c.blk[c.fun[m][k]].ins
          /\ Code(c, m) = FlattenSeq(Pieces(c, m)) /\ Len(c.fun[m]) \in Nat
      BY <3>1, CodeLemma
    <3>. QED
      BY <1>1, <2>1, <3>2
  <2>3. m \in 1..Len(d.fun) /\ Shaped(d)
    BY <1>2
  <2>4. /\ Pieces(d, m) \in Seq(Seq(1..Len(d.instr))) /\ Len(Pieces(d, m)) = Len(d.fun[m])
        /\ \A k \in 1..Len(d.fun[m]) : Pieces(d, m)[k] = d.blk[d.fun[m][k]].ins
        /\ Code(d, m) = FlattenSeq(Pieces(d, m))
    BY ONLY <2>3, CodeLemma
  <2>5. /\ q \in Seq(Seq(X)) /\ Len(q) = Len(t) /\ Code(d, m) = FlattenSeq(q)
        /\ \A k \in 1..Len(t) : q[k] = d.blk[t[k]].ins
    BY <1>1, <1>2, <2>1, <2>4
  <2>6. Len(t) = Len(s) + 1 /\ t[Len(s) + 1] = b /\ \A k \in 1..Len(s) : t[k] = s[k]
    BY <1>2
  <2>7. PICK l : l = Len(s)
    OBVIOUS
  <2>8. /\ l \in Nat /\ Len(p) = l /\ Len(q) = l + 1 /\ q[l + 1] = << >>
        /\ \A k \in 1..l : q[k] = p[k]
    <3>1. l \in Nat /\ l + 1 \in 1..(l + 1) /\ \A k \in 1..l : k \in 1..(l + 1)
      BY <2>2, <2>7
    <3>0. Len(t) = l + 1 /\ t[l + 1] = b /\ \A k \in 1..l : t[k] = s[k]
      BY <2>6, <2>7
    <3>2. q[l + 1] = << >>
      <4>1. q[l + 1] = d.blk[t[l + 1]].ins
        BY <2>5, <3>0, <3>1
      <4>2. d.blk[b].ins = c.blk[b].ins
        BY <1>2
      <4>. QED
        BY <3>0, <4>1, <4>2
    <3>3. ASSUME NEW k \in 1..l
          PROVE  q[k] = p[k]
      <4>1. q[k] = d.blk[t[k]].ins /\ t[k] = s[k]
        BY <2>5, <3>0, <3>1
      <4>2. p[k] = c.blk[s[k]].ins /\ s[k] \in 1..Len(c.blk)
        BY <2>2, <2>7
      <4>. QED
        BY <1>2, <4>1, <4>2
    <3>. QED
      BY <2>2, <2>5, <2>6, <2>7, <3>1, <3>2, <3>3
  <2>9. q = Append(p, << >>)
    <3>1. << >> \in Seq(X)
      OBVIOUS
    <3>2. PICK Y : Y = Seq(X)
      OBVIOUS
    <3>3. p \in Seq(Y) /\ q \in Seq(Y) /\ << >> \in Y
      BY <2>2, <2>5, <3>1, <3>2
    <3>. QED
      BY ONLY <2>8, <3>3
  <2>10. FlattenSeq(p) \in Seq(X) /\ FlattenSeq(q) = FlattenSeq(p) \o << >>
    <3>1. << >> \in Seq(X)
      OBVIOUS
    <3>. QED
      BY ONLY <2>2, <2>9, <3>1, FlattenAppend
  <2>11. PICK h : h = FlattenSeq(p)
    OBVIOUS
  <2>12. h \o << >> = h
    BY <2>10, <2>11
  <2>. QED
    BY <2>2, <2>5, <2>10, <2>11, <2>12
<1>5. \A F \in 1..m : Code(d, F) = Code(c, F)
  BY <1>3, <1>4
<1>6. InstructionNb(d, m) = InstructionNb(c, m)
  <2>1. PICK T, U : T = ToSet(s) /\ U = ToSet(t)
    OBVIOUS
  <2>2. \A x : x \in U <=> x \in T \/ x = b
    <3>1. s \in Seq(Nat) /\ b \in Nat
      BY <1>2
    <3>. QED
      BY <1>2, <2>1, <3>1, AppendLemma
  <2>3. \A k \in T : k \in 1..Len(c.blk)
    BY <1>2, <2>1 DEF ToSet
  <2>4. /\ \A k \in T : d.blk[k].ins = c.blk[k].ins
        /\ d.blk[b].ins = << >>
    BY <1>2, <2>3
  <2>5. ToSet(d.blk[b].ins) = {}
    BY <2>4 DEF ToSet
  <2>6. UNION {ToSet(d.blk[k].ins) : k \in U} = UNION {ToSet(c.blk[k].ins) : k \in T}
    <3>1. ASSUME NEW e \in UNION {ToSet(d.blk[k].ins) : k \in U}
          PROVE  e \in UNION {ToSet(c.blk[k].ins) : k \in T}
      <4>1. PICK k \in U : e \in ToSet(d.blk[k].ins)
        BY <3>1
      <4>2. k \in T
        BY <2>2, <2>5, <4>1
      <4>. QED
        BY <2>4, <4>1, <4>2
    <3>2. ASSUME NEW e \in UNION {ToSet(c.blk[k].ins) : k \in T}
          PROVE  e \in UNION {ToSet(d.blk[k].ins) : k \in U}
      <4>1. PICK k \in T : e \in ToSet(c.blk[k].ins)
        BY <3>2
      <4>. QED
        BY <2>2, <2>4, <4>1
    <3>. QED
      BY <3>1, <3>2
  <2>. QED
    BY <1>1, <2>1, <2>6 DEF InstructionNb
<1>7. Here(d) = Here(c)
  BY <1>1, <1>2, <1>4 DEF Here
<1>8. ASSUME NEW F \in 1..m, InOrder(c, F)
      PROVE  InOrder(d, F)
  BY <1>2, <1>5, <1>8 DEF InOrder
<1>. QED
  BY <1>1, <1>2, <1>5, <1>6, <1>7, <1>8

\* A block that is in no function is added to the last one.
LEMMA SoundAdd ==
    ASSUME NEW c, NEW S, Sound(c, S), NEW b \in 1..Len(c.blk), b \notin S,
           NEW d, d = AddBasicBlock(c, b)
    PROVE  /\ Sound(d, S \union {b}) /\ Keeps(c, d)
           /\ d.cur = c.cur /\ Len(d.blk) = Len(c.blk) /\ Ends(d, b)
<1>1. PICK m, s, t : m = Len(c.fun) /\ s = c.fun[m] /\ t = d.fun[m]
  OBVIOUS
<1>2. /\ Shaped(c) /\ Laid(c, S) /\ BlocksOf(c) = S /\ c.fun # << >>
      /\ ToSet(s) \subseteq S /\ S \subseteq 1..Len(c.blk) /\ m \in 1..m
  BY <1>1, SoundShape
<1>3. c.blk[b].ins = << >>
  BY <1>2 DEF Sound, Blank
<1>4. /\ Shaped(d) /\ d.instr = c.instr /\ d.cur = c.cur /\ Len(d.blk) = Len(c.blk)
      /\ \A k \in 1..Len(c.blk) : d.blk[k].ins = c.blk[k].ins
      /\ m \in Nat /\ DOMAIN d.fun = 1..m /\ Len(d.fun) = m
      /\ s \in Seq(1..Len(c.blk)) /\ t = Append(s, b)
  <2>1. LaidOut(c, b, d)
    BY <1>2, BlockPlaced
  <2>. QED
    BY <1>1, <2>1 DEF LaidOut
<1>5. Laid(d, S \union {b})
  BY <1>2, AddLemma
<1>6. Blank(d)
  <2>1. \A k \in 1..Len(c.blk) : k \notin S => c.blk[k].ins = << >>
    BY <1>2 DEF Sound, Blank
  <2>2. BlocksOf(d) = S \union {b}
    BY <1>5 DEF Laid
  <2>. QED
    BY <1>4, <2>1, <2>2 DEF Blank
<1>7. PICK l : l = Len(s)
  OBVIOUS
<1>8. /\ l \in Nat /\ DOMAIN s = 1..l /\ DOMAIN t = 1..(l + 1) /\ Len(t) = l + 1 /\ t[l + 1] = b
      /\ t # << >> /\ \A k \in 1..l : t[k] = s[k]
  BY <1>4, <1>7
<1>9. AtEnd(d)
  <2>1. PICK j \in 1..l : s[j] = c.cur /\ \A k \in 1..l : k > j => c.blk[s[k]].ins = << >>
    BY <1>1, <1>8 DEF Sound, AtEnd
  <2>2. ASSUME NEW k \in 1..(l + 1), k > j
        PROVE  d.blk[t[k]].ins = << >>
    <3>1. CASE k = l + 1
      BY <1>3, <1>4, <1>8, <3>1
    <3>2. CASE k # l + 1
      <4>1. k \in 1..l
        BY <1>8, <3>2
      <4>2. s[k] \in 1..Len(c.blk)
        <5>1. s \in Seq(1..Len(c.blk)) /\ k \in DOMAIN s
          BY <1>4, <1>8, <4>1
        <5>. QED
          BY ONLY <5>1
      <4>. QED
        BY <1>4, <1>8, <2>1, <2>2, <4>1, <4>2
    <3>. QED
      BY <3>1, <3>2
  <2>3. j \in 1..(l + 1) /\ t[j] = d.cur
    BY <1>4, <1>8, <2>1
  <2>4. d.fun[Len(d.fun)] = t
    BY <1>1, <1>4
  <2>. QED
    BY <1>8, <2>2, <2>3, <2>4 DEF AtEnd
<1>10. /\ Here(d) = Here(c) /\ InstructionNb(d, Len(d.fun)) = InstructionNb(c, Len(c.fun))
       /\ \A F \in 1..Len(c.fun) : InOrder(c, F) => InOrder(d, F)
  BY <1>2, <1>3, PlacedCode
<1>11. Keeps(c, d)
  <2>1. \A x : x \in ToSet(t) <=> x \in ToSet(s) \/ x = b
    <3>1. s \in Seq(Nat) /\ b \in Nat
      BY <1>4
    <3>. QED
      BY <1>4, <3>1, AppendLemma
  <2>2. \A x : InLast(c, x) => InLast(d, x)
    BY <1>1, <1>4, <2>1 DEF InLast
  <2>3. \A r : Known(c, r) => Known(d, r)
    BY <1>10 DEF Known
  <2>. QED
    BY <2>2, <2>3 DEF Keeps
<1>12. Counted(d)
  BY <1>10 DEF Sound, Counted
<1>13. \A F \in 1..Len(d.fun) : InOrder(d, F)
  BY <1>1, <1>4, <1>10 DEF Sound
<1>14. Ends(d, b)
  BY <1>1, <1>4, <1>8 DEF Ends
<1>. QED
  BY <1>4, <1>5, <1>6, <1>9, <1>11, <1>12, <1>13, <1>14 DEF Sound

-----------------------------------------------------------------------------
(* What the methods do to a file.                                          *)

\* A file and a reference, made from c: no block is added, and the reference
\* is known.
Gives(c, S, e) == Same(c, S, e.c) /\ Known(e.c, e.r)

\* A reference that is known stays known, an instruction that fits still fits.
LEMMA KeepsLemma ==
    ASSUME NEW c, NEW d, Keeps(c, d)
    PROVE  /\ \A r : Known(c, r) => Known(d, r)
           /\ \A i : Fits(c, i) => Fits(d, i)
           /\ \A b : InLast(c, b) => InLast(d, b)
           /\ \A e : Keeps(d, e) => Keeps(c, e)
           /\ Known(c, NoRef)
  BY DEF Keeps, Fits, Known, IsEmpty, NoRef

\* The instructions the methods make.
LEMMA FitsLemma ==
    ASSUME NEW c
    PROVE  /\ \A op, ty : Fits(c, Instr(op, ty, << >>))
           /\ \A op, ty, r : Known(c, r) => Fits(c, Instr(op, ty, <<r>>))
           /\ \A op, ty, r, q : Known(c, r) /\ Known(c, q) => Fits(c, Instr(op, ty, <<r, q>>))
           /\ \A op, ty, rs : (\A r \in ToSet(rs) : Known(c, r)) => Fits(c, Instr(op, ty, rs))
           /\ \A b : Fits(c, GotoInstr(b))
           /\ \A r, b1, b2 : Known(c, r) => Fits(c, GotoIfInstr(r, b1, b2))
           /\ \A ty, b1, r, b2, q :
                 Known(c, r) /\ Known(c, q) => Fits(c, PhiInstr(ty, b1, r, b2, q))
<1>1. /\ ToSet(<< >>) = {} /\ (\A r : ToSet(<<r>>) = {r}) /\ \A r, q : ToSet(<<r, q>>) = {r, q}
  BY DEF ToSet
<1>2. \A op, ty, rs : Instr(op, ty, rs).uses = rs
  BY DEF Instr
<1>3. \A b : GotoInstr(b).uses = << >>
  BY DEF GotoInstr
<1>6. ASSUME NEW op, NEW ty
      PROVE  /\ Fits(c, Instr(op, ty, << >>))
             /\ \A r : Known(c, r) => Fits(c, Instr(op, ty, <<r>>))
             /\ \A r, q : Known(c, r) /\ Known(c, q) => Fits(c, Instr(op, ty, <<r, q>>))
             /\ \A rs : (\A r \in ToSet(rs) : Known(c, r)) => Fits(c, Instr(op, ty, rs))
  <2>1. ASSUME NEW r, NEW q, Known(c, r), Known(c, q)
        PROVE  Fits(c, Instr(op, ty, <<r, q>>))
    BY <1>1, <1>2, <2>1 DEF Fits
  <2>2. ASSUME NEW r, Known(c, r)
        PROVE  Fits(c, Instr(op, ty, <<r>>))
    BY <1>1, <1>2, <2>2 DEF Fits
  <2>3. ASSUME NEW rs, \A r \in ToSet(rs) : Known(c, r)
        PROVE  Fits(c, Instr(op, ty, rs))
    BY <1>2, <2>3 DEF Fits
  <2>4. Fits(c, Instr(op, ty, << >>))
    BY <1>1, <1>2 DEF Fits
  <2>. QED
    BY <2>1, <2>2, <2>3, <2>4
<1>7. \A b : Fits(c, GotoInstr(b))
  BY <1>1, <1>3 DEF Fits
<1>8. ASSUME NEW r, NEW b1, NEW b2, Known(c, r)
      PROVE  Fits(c, GotoIfInstr(r, b1, b2))
  <2>1. PICK g : g = GotoIfInstr(r, b1, b2)
    OBVIOUS
  <2>2. ToSet(g.uses) = {r}
    <3>1. g.uses = <<r>>
      BY <2>1 DEF GotoIfInstr
    <3>2. ToSet(<<r>>) = {r}
      BY <1>1
    <3>. QED
      BY <3>1, <3>2
  <2>3. Fits(c, g)
    BY <1>8, <2>2 DEF Fits
  <2>. QED
    BY <2>1, <2>3
<1>9. ASSUME NEW ty, NEW b1, NEW r, NEW b2, NEW q, Known(c, r), Known(c, q)
      PROVE  Fits(c, PhiInstr(ty, b1, r, b2, q))
  <2>1. PICK g : g = PhiInstr(ty, b1, r, b2, q)
    OBVIOUS
  <2>2. ToSet(g.uses) = {r, q}
    <3>1. g.uses = <<r, q>>
      BY <2>1 DEF PhiInstr
    <3>2. ToSet(<<r, q>>) = {r, q}
      BY <1>1
    <3>. QED
      BY <3>1, <3>2
  <2>3. Fits(c, g)
    BY <1>9, <2>2 DEF Fits
  <2>. QED
    BY <2>1, <2>3
<1>. QED
  BY <1>6, <1>7, <1>8, <1>9

\* Instructions, conversions and branches.
LEMMA SoundOps ==
    ASSUME NEW c, NEW S, Sound(c, S)
    PROVE  /\ \A i : Fits(c, i) => Gives(c, S, Emit(c, i)) /\ ~IsEmpty(Emit(c, i).r)
           /\ \A i : Fits(c, i) => Same(c, S, AddInstruction(c, i))
           /\ \A r, from, to : Known(c, r) => Gives(c, S, Convert(c, r, from, to))
           /\ \A b \in 1..Len(c.blk) : Same(c, S, CreateGoto(c, b))
           /\ \A r : \A b1, b2 \in 1..Len(c.blk) :
                 Known(c, r) => Same(c, S, CreateGotoIf(c, r, b1, b2))
<1>1. ASSUME NEW d, Sound(d, S), NEW i, Fits(d, i)
      PROVE  /\ Same(d, S, AddInstruction(d, i))
             /\ Gives(d, S, Emit(d, i)) /\ ~IsEmpty(Emit(d, i).r)
  <2>1. PICK g : g = AddInstruction(d, i)
    OBVIOUS
  <2>2. Same(d, S, g) /\ Known(g, LastRef(g)) /\ ~IsEmpty(LastRef(g))
    BY <1>1, <2>1, SoundInstruction DEF Same
  <2>3. Emit(d, i).c = g /\ Emit(d, i).r = LastRef(g)
    BY <2>1 DEF Emit
  <2>. QED
    BY <2>1, <2>2, <2>3 DEF Gives
<1>2. ASSUME NEW r, NEW from, NEW to, Known(c, r)
      PROVE  Gives(c, S, Convert(c, r, from, to))
  <2>1. CASE from = to
    <3>1. Convert(c, r, from, to).c = c /\ Convert(c, r, from, to).r = r
      BY <2>1 DEF Convert
    <3>. QED
      BY <1>2, <3>1, SameLemma DEF Gives
  <2>2. CASE from # to
    <3>1. PICK i : /\ i = IF to = "void" THEN Instr("ConstVoid", "void", << >>)
                          ELSE Instr("Cast", to, <<r>>)
      OBVIOUS
    <3>2. Fits(c, i)
      BY <1>2, <3>1, FitsLemma
    <3>3. Convert(c, r, from, to) = Emit(c, i)
      BY <2>2, <3>1 DEF Convert
    <3>. QED
      BY <1>1, <3>2, <3>3
  <2>. QED
    BY <2>1, <2>2
<1>3. ASSUME NEW b \in 1..Len(c.blk)
      PROVE  Same(c, S, CreateGoto(c, b))
  <2>1. PICK d : d = AddPred(c, b, c.cur)
    OBVIOUS
  <2>2. Same(c, S, d) /\ Sound(d, S)
    BY <2>1, SoundPred DEF Same
  <2>3. Same(d, S, AddInstruction(d, GotoInstr(b)))
    BY <1>1, <2>2, FitsLemma
  <2>. QED
    BY <2>1, <2>2, <2>3, SameLemma DEF CreateGoto
<1>4. ASSUME NEW r, NEW b1 \in 1..Len(c.blk), NEW b2 \in 1..Len(c.blk), Known(c, r)
      PROVE  Same(c, S, CreateGotoIf(c, r, b1, b2))
  <2>1. PICK d, e : d = AddPred(c, b1, c.cur) /\ e = AddPred(d, b2, c.cur)
    OBVIOUS
  <2>2. Same(c, S, d) /\ Sound(d, S) /\ Len(d.blk) = Len(c.blk)
    BY <2>1, SoundPred DEF Same
  <2>3. Same(d, S, e) /\ Sound(e, S)
    BY <2>1, <2>2, SoundPred DEF Same
  <2>4. Known(e, r)
    BY <1>4, <2>2, <2>3, KeepsLemma DEF Same
  <2>5. Same(e, S, AddInstruction(e, GotoIfInstr(r, b1, b2)))
    BY <1>1, <2>3, <2>4, FitsLemma
  <2>. QED
    BY <2>1, <2>2, <2>3, <2>5, SameLemma DEF CreateGotoIf
<1>. QED
  BY <1>1, <1>2, <1>3, <1>4

\* A new block, laid out last.
LEMMA SoundAdded ==
    ASSUME NEW c, NEW S, Sound(c, S), NEW n, n = Len(c.blk), NEW base,
           NEW d, d = Added(c, base)
    PROVE  /\ Sound(d, S \union {n + 1}) /\ Keeps(c, d) /\ n \in Nat
           /\ d.cur = c.cur /\ Len(d.blk) = n + 1 /\ LastBlock(d) = n + 1 /\ Ends(d, n + 1)
<1>1. PICK e : e = NewBlock(c, base)
  OBVIOUS
<1>2. /\ Sound(e, S) /\ Keeps(c, e) /\ e.cur = c.cur /\ Len(e.blk) = n + 1 /\ LastBlock(e) = n + 1
      /\ n \in Nat /\ n + 1 \notin S
  BY <1>1, SoundNewBlock
<1>3. d = AddBasicBlock(e, n + 1) /\ n + 1 \in 1..Len(e.blk)
  BY <1>1, <1>2 DEF Added
<1>4. /\ Sound(d, S \union {n + 1}) /\ Keeps(e, d) /\ d.cur = e.cur /\ Len(d.blk) = Len(e.blk)
      /\ Ends(d, n + 1)
  <2>1. PICK b : b = n + 1
    OBVIOUS
  <2>2. b \in 1..Len(e.blk) /\ b \notin S /\ d = AddBasicBlock(e, b) /\ Sound(e, S)
    BY <1>2, <1>3, <2>1
  <2>3. /\ Sound(d, S \union {b}) /\ Keeps(e, d) /\ d.cur = e.cur /\ Len(d.blk) = Len(e.blk)
        /\ Ends(d, b)
    BY ONLY <2>2, SoundAdd
  <2>. QED
    BY <2>1, <2>3
<1>5. Keeps(c, d)
  BY <1>2, <1>4, KeepsLemma
<1>. QED
  BY <1>2, <1>4, <1>5 DEF LastBlock

-----------------------------------------------------------------------------
(* The invariant.                                                          *)

\* What an activation holds: references that are known and, where a while goes
\* on in a block it has laid out, a block of the function.
KnownBy(c, f) ==
    /\ Known(c, f.keep) /\ Known(c, f.val)
    /\ \A r \in ToSet(f.refs) : Known(c, r)
    /\ f.node.kind = "while" /\ f.at \in {"cond", "body", "endScope"} => InLast(c, f.body)
    /\ f.node.kind = "while" /\ f.at \in {"body", "endScope"} => InLast(c, f.after)

\* An activation that may go on with the reference its callee returned.
ReadsRet(f) ==
    \/ f.at \in {"operand", "cond", "then", "else", "init", "step"}
    \/ f.at = "body" /\ f.node.kind \in {"for", "while"}
    \/ f.i > 0 /\ f.at # "args"

\* A file in which positions are right.
Right(c) == Sound(c, BlocksOf(c))

\* While a function is generated: every reference that is held is known.
Inside ==
    /\ Right(cir)
    /\ \A k \in DOMAIN frames : KnownBy(cir, frames[k])
    /\ \A x \in VarNames : Known(cir, varRefs[x])
    /\ ReadsRet(Top) => Known(cir, ret)
    /\ \A k \in DOMAIN frames :
          k # 1 /\ frames[k].node.kind = "function" => frames[k].at = "start"

\* Between functions, and to the end.
OrderedAlready ==
    /\ \A F \in 1..Len(cir.fun) : InOrder(cir, F)
    /\ status = "gen" => Blank(cir)

Resolved ==
    /\ status = "gen" /\ frames # << >> => Inside
    /\ status # "aborted" /\ frames = << >> => OrderedAlready
    /\ status \notin {"gen", "aborted"} => frames = << >>

\* The blocks of a sound file are those it is sound for.
LEMMA RightLemma ==
    ASSUME NEW c, NEW S, Sound(c, S)
    PROVE  Right(c) /\ S = BlocksOf(c)
  BY SoundShape DEF Right

\* What an activation knew it still knows, if the file keeps it.
LEMMA KnownByKept ==
    ASSUME NEW c, NEW d, Keeps(c, d), NEW f, KnownBy(c, f)
    PROVE  KnownBy(d, f)
  BY KeepsLemma DEF KnownBy

\* What an action of a method finds.
LEMMA InsideFound ==
    ASSUME IInv, Resolved, status = "gen", frames # << >>
    PROVE  /\ Right(cir) /\ Inside
           /\ KnownBy(cir, Top)
           /\ \A x \in VarNames : Known(cir, varRefs[x])
           /\ ReadsRet(Top) => Known(cir, ret)
           /\ Top.node.kind = "function" /\ Top.at # "start" => Len(frames) = 1
           /\ Len(frames) \in Nat /\ Len(frames) > 0 /\ DOMAIN frames = 1..Len(frames)
           /\ Top = frames[Len(frames)] /\ Top \in FrameType(Len(cir.blk))
           /\ frames \in Seq(FrameType(Len(cir.blk))) /\ Len(cir.blk) \in Nat
<1>1. Inside
  BY DEF Resolved
<1>2. /\ Len(cir.blk) \in Nat /\ frames \in Seq(FrameType(Len(cir.blk)))
      /\ Top \in FrameType(Len(cir.blk))
  BY InsideLemma DEF Good, WellFormed, FileCIR
<1>3. /\ Len(frames) \in Nat /\ Len(frames) > 0 /\ DOMAIN frames = 1..Len(frames)
      /\ Top = frames[Len(frames)]
  BY <1>2, StackLemma DEF Top
<1>4. Len(frames) \in DOMAIN frames
  BY <1>3
<1>. QED
  BY <1>1, <1>2, <1>3, <1>4 DEF Inside

\* A method returns a reference that is known, or the function ends.
LEMMA LeaveResolved ==
    ASSUME IInv, Resolved, status = "gen", frames # << >>, frames' = Front(frames), status' = "gen",
           Right(cir'), Keeps(cir, cir'), \A x \in VarNames : Known(cir', varRefs'[x]),
           Known(cir', ret') \/ Len(frames) = 1
    PROVE  Resolved'
<1>. DEFINE m == Len(frames)
            n == Len(cir.blk)
<1>1. /\ Inside /\ m \in Nat /\ m > 0 /\ DOMAIN frames = 1..m /\ frames \in Seq(FrameType(n))
  BY InsideFound
<1>2. /\ frames' \in Seq(FrameType(n)) /\ Len(frames') = m - 1
      /\ \A k \in 1..(m - 1) : frames'[k] = frames[k]
  BY <1>1, StackLemma
<1>. HIDE DEF m, n
<1>3. DOMAIN frames' = 1..(m - 1)
  BY <1>2
<1>4. CASE frames' # << >>
  <2>1. m - 1 # 0
    BY <1>2, <1>4
  <2>2. Known(cir', ret')
    BY <1>1, <2>1 DEF m
  <2>3. ASSUME NEW k \in 1..(m - 1)
        PROVE  /\ KnownBy(cir', frames'[k])
               /\ k # 1 /\ frames'[k].node.kind = "function" => frames'[k].at = "start"
    <3>1. k \in 1..m /\ frames'[k] = frames[k]
      BY <1>1, <1>2
    <3>2. KnownBy(cir, frames[k])
      BY <1>1, <3>1 DEF Inside
    <3>. QED
      BY <1>1, <3>1, <3>2, KnownByKept DEF Inside
  <2>4. Inside'
    BY <1>3, <2>2, <2>3 DEF Inside, Right, Sound, Shaped, Laid, OnceIn, BlocksOf, Blank, AtEnd, Counted,
                            InstructionNb, Here, Code, InOrder, Known, KnownBy, InLast, ReadsRet
  <2>. QED
    BY <1>4, <2>4 DEF Resolved
<1>5. CASE frames' = << >>
  <2>1. OrderedAlready'
    BY DEF OrderedAlready, Right, Sound, Blank, InOrder, BlocksOf, Code
  <2>. QED
    BY <1>5, <2>1 DEF Resolved
<1>. QED
  BY <1>4, <1>5

\* A method goes on, or calls another one: what it holds is known.
LEMMA GoOnResolved ==
    ASSUME IInv, Resolved, status = "gen", frames # << >>, status' = "gen",
           Right(cir'), Keeps(cir, cir'), \A x \in VarNames : Known(cir', varRefs'[x]),
           NEW f, KnownBy(cir', f), f.node = Top.node,
           Top.node.kind = "function" => Top.at # "start",
           \/ Stay(f) /\ (ReadsRet(f) => Known(cir', ret'))
           \/ \E e : Enter(f, e)
    PROVE  Resolved'
<1>. DEFINE m == Len(frames)
            n == Len(cir.blk)
<1>1. /\ Inside /\ m \in Nat /\ m > 0 /\ DOMAIN frames = 1..m /\ frames \in Seq(FrameType(n))
      /\ Top.node.kind = "function" => m = 1
  BY InsideFound
<1>2. /\ \A k \in 1..(m - 1) : frames'[k] = frames[k]
      /\ frames'[m] = f
      /\ \/ DOMAIN frames' = 1..m
         \/ /\ DOMAIN frames' = 1..(m + 1)
            /\ \E e, brk, dep : frames'[m + 1] = Activation(e, brk, dep)
  BY GoOnFrames
<1>. HIDE DEF n
<1>3. ASSUME NEW g, \E e, brk, dep : g = Activation(e, brk, dep)
      PROVE  KnownBy(cir', g) /\ g.at = "start" /\ ~ReadsRet(g)
  <2>1. /\ g.keep = NoRef /\ g.val = NoRef /\ g.refs = << >> /\ g.at = "start" /\ g.i = 0
    BY <1>3 DEF Activation
  <2>2. ToSet(g.refs) = {}
    BY <2>1 DEF ToSet
  <2>. QED
    BY <2>1, <2>2, KeepsLemma DEF KnownBy, ReadsRet, Known, IsEmpty, NoRef
<1>4. ASSUME NEW k \in DOMAIN frames'
      PROVE  /\ KnownBy(cir', frames'[k])
             /\ k # 1 /\ frames'[k].node.kind = "function" => frames'[k].at = "start"
  <2>1. CASE k \in 1..(m - 1)
    <3>1. k \in 1..m /\ frames'[k] = frames[k]
      BY <1>1, <1>2, <2>1
    <3>2. KnownBy(cir, frames[k])
      BY <1>1, <3>1 DEF Inside
    <3>. QED
      BY <1>1, <3>1, <3>2, KnownByKept DEF Inside
  <2>2. CASE k = m
    BY <1>1, <1>2, <2>2
  <2>3. CASE k \notin 1..(m - 1) /\ k # m
    <3>1. k = m + 1 /\ \E e, brk, dep : frames'[m + 1] = Activation(e, brk, dep)
      BY <1>1, <1>2, <2>3
    <3>. QED
      BY <1>3, <3>1
  <2>. QED
    BY <2>1, <2>2, <2>3
<1>5. frames' # << >>
  <2>1. m \in DOMAIN frames'
    BY <1>1, <1>2
  <2>. QED
    BY <2>1
<1>6. PICK g : g = Last(frames')
  OBVIOUS
<1>7. ReadsRet(g) => Known(cir', ret')
  <2>1. CASE Stay(f) /\ (ReadsRet(f) => Known(cir', ret'))
    <3>. DEFINE F == FrameType(n) \union {f}
    <3>1. frames \in Seq(F) /\ f \in F
      BY <1>1
    <3>. HIDE DEF F
    <3>2. frames' = Append(Front(frames), f)
      BY <2>1 DEF Stay
    <3>3. /\ Append(Front(frames), f) \in Seq(F) /\ Len(Append(Front(frames), f)) = m
          /\ Append(Front(frames), f)[m] = f
      BY <3>1, ReplaceLemma
    <3>4. g = f
      BY <1>6, <3>2, <3>3 DEF Last
    <3>. QED
      BY <2>1, <3>4
  <2>2. CASE \E e : Enter(f, e)
    <3>1. PICK e : frames' = Front(frames) \o <<f, Activation(e, breaks', Len(scopes'))>>
      BY <2>2 DEF Enter
    <3>2. PICK a : a = Activation(e, breaks', Len(scopes'))
      OBVIOUS
    <3>3. frames' = Front(frames) \o <<f, a>> /\ ~ReadsRet(a)
      BY <1>3, <3>1, <3>2
    <3>. DEFINE F == FrameType(n) \union {f, a}
    <3>4. frames \in Seq(F) /\ f \in F /\ a \in F
      BY <1>1
    <3>. HIDE DEF F
    <3>5. frames' \in Seq(F) /\ Len(frames') = m + 1 /\ frames'[m + 1] = a
      BY <1>1, <3>3, <3>4, PushLemma
    <3>6. g = a
      BY <1>6, <3>5 DEF Last
    <3>. QED
      BY <3>3, <3>6
  <2>. QED
    BY <2>1, <2>2
<1>8. Inside'
  BY <1>4, <1>6, <1>7 DEF Inside, Right, Sound, Shaped, Laid, OnceIn, BlocksOf, Blank, AtEnd, Counted,
                          InstructionNb, Here, Code, InOrder, Known, KnownBy, InLast, ReadsRet, Top
<1>. QED
  BY <1>5, <1>8 DEF Resolved

\* A method is in progress.
Resolving == IInv /\ Resolved /\ status = "gen" /\ frames # << >>

\* A file made from that of the state, whose functions have the blocks of S.
Onto(c, S) == Sound(c, S) /\ Keeps(cir, c)

LEMMA OntoLemma ==
    ASSUME NEW c, NEW S, Onto(c, S)
    PROVE  /\ \A d : Same(c, S, d) => Onto(d, S)
           /\ \A i : Fits(c, i) => Onto(Emit(c, i).c, S) /\ Known(Emit(c, i).c, Emit(c, i).r)
           /\ \A i : Fits(c, i) => Onto(AddInstruction(c, i), S)
           /\ \A r, from, to : Known(c, r) =>
                 /\ Onto(Convert(c, r, from, to).c, S)
                 /\ Known(Convert(c, r, from, to).c, Convert(c, r, from, to).r)
           /\ \A b \in 1..Len(c.blk) : Onto(CreateGoto(c, b), S)
           /\ \A r : Known(cir, r) => Known(c, r)
           /\ \A i : Fits(cir, i) => Fits(c, i)
           /\ Right(c)
<1>1. Sound(c, S) /\ Keeps(cir, c)
  BY DEF Onto
<1>2. ASSUME NEW d, Same(c, S, d)
      PROVE  Onto(d, S)
  BY <1>1, <1>2, KeepsLemma DEF Same, Onto
<1>3. ASSUME NEW i, Fits(c, i)
      PROVE  /\ Onto(Emit(c, i).c, S) /\ Known(Emit(c, i).c, Emit(c, i).r)
             /\ Onto(AddInstruction(c, i), S)
  BY <1>1, <1>2, <1>3, SoundOps DEF Gives
<1>4. ASSUME NEW r, NEW from, NEW to, Known(c, r)
      PROVE  /\ Onto(Convert(c, r, from, to).c, S)
             /\ Known(Convert(c, r, from, to).c, Convert(c, r, from, to).r)
  BY <1>1, <1>2, <1>4, SoundOps DEF Gives
<1>5. \A b \in 1..Len(c.blk) : Onto(CreateGoto(c, b), S)
  BY <1>1, <1>2, SoundOps
<1>6. Right(c)
  BY <1>1, RightLemma
<1>7. /\ \A r : Known(cir, r) => Known(c, r)
      /\ \A i : Fits(cir, i) => Fits(c, i)
  BY <1>1, KeepsLemma
<1>. QED
  BY <1>2, <1>3, <1>4, <1>5, <1>6, <1>7

\* What a method finds.
LEMMA ResolvingLemma ==
    ASSUME Resolving
    PROVE  /\ Onto(cir, BlocksOf(cir)) /\ KnownBy(cir, Top) /\ Known(cir, NoRef)
           /\ \A x \in VarNames : Known(cir, varRefs[x])
           /\ ReadsRet(Top) => Known(cir, ret)
           /\ Top.node.kind = "function" /\ Top.at # "start" => Len(frames) = 1
           /\ Top \in FrameType(Len(cir.blk)) /\ Len(cir.blk) \in Nat
<1>1. IInv /\ Resolved /\ status = "gen" /\ frames # << >>
  BY DEF Resolving
<1>2. /\ Right(cir) /\ KnownBy(cir, Top)
      /\ \A x \in VarNames : Known(cir, varRefs[x])
      /\ ReadsRet(Top) => Known(cir, ret)
      /\ Top.node.kind = "function" /\ Top.at # "start" => Len(frames) = 1
      /\ Top \in FrameType(Len(cir.blk)) /\ Len(cir.blk) \in Nat
  BY <1>1, InsideFound
<1>3. Keeps(cir, cir) /\ Known(cir, NoRef)
  BY DEF Keeps, Known, IsEmpty, NoRef
<1>. QED
  BY <1>2, <1>3 DEF Onto, Right

\* A method returns.
LEMMA LeaveOnto ==
    ASSUME Resolving, frames' = Front(frames), status' = "gen", NEW S, Onto(cir', S),
           Known(cir', ret'), varRefs' = varRefs
    PROVE  Resolved'
<1>1. /\ IInv /\ Resolved /\ status = "gen" /\ frames # << >>
      /\ \A x \in VarNames : Known(cir, varRefs[x])
  BY ResolvingLemma DEF Resolving
<1>2. Right(cir') /\ Keeps(cir, cir') /\ \A x \in VarNames : Known(cir', varRefs'[x])
  BY <1>1, OntoLemma DEF Onto
<1>. QED
  BY <1>1, <1>2, LeaveResolved

\* A method returns the instruction it makes last.
LEMMA EmitOnto ==
    ASSUME Resolving, status' = "gen", NEW c, NEW S, Onto(c, S), NEW i, Fits(c, i),
           EmitAndLeave(c, i), varRefs' = varRefs
    PROVE  Resolved'
<1>1. Onto(Emit(c, i).c, S) /\ Known(Emit(c, i).c, Emit(c, i).r)
  BY OntoLemma
<1>2. cir' = Emit(c, i).c /\ ret' = Emit(c, i).r /\ frames' = Front(frames)
  BY DEF EmitAndLeave, Leave
<1>. QED
  BY <1>1, <1>2, LeaveOnto

\* A method goes on, or calls another one.
LEMMA GoOnOnto ==
    ASSUME Resolving, status' = "gen", NEW S, Onto(cir', S), varRefs' = varRefs,
           NEW f, KnownBy(cir', f), f.node = Top.node,
           Top.node.kind = "function" => Top.at # "start",
           \/ Stay(f) /\ (ReadsRet(f) => Known(cir', ret'))
           \/ \E e : Enter(f, e)
    PROVE  Resolved'
<1>1. /\ IInv /\ Resolved /\ status = "gen" /\ frames # << >>
      /\ \A x \in VarNames : Known(cir, varRefs[x])
  BY ResolvingLemma DEF Resolving
<1>2. Right(cir') /\ Keeps(cir, cir') /\ \A x \in VarNames : Known(cir', varRefs'[x])
  BY <1>1, OntoLemma DEF Onto
<1>. QED
  BY <1>1, <1>2, GoOnResolved

\* The compiler stops.
LEMMA AbortResolved ==
    ASSUME Resolved, Abort
    PROVE  Resolved'
  BY DEF Resolved, Abort

\* An activation that holds what Top holds, and reads no more.
LEMMA HoldsLemma ==
    ASSUME NEW c, KnownBy(c, Top), NEW f, f.node = Top.node, f.refs = Top.refs,
           f.keep = Top.keep \/ Known(c, f.keep), f.val = Top.val \/ Known(c, f.val),
           Top.node.kind # "while"
    PROVE  KnownBy(c, f)
  BY DEF KnownBy

-----------------------------------------------------------------------------
(* The actions of a method.                                                *)

\* The operand evaluated last.
LEMMA OperandKnown ==
    ASSUME Resolving, NEW kind, Evaluated(kind)
    PROVE  /\ Top.node.kind = kind /\ Top.node \in Nodes /\ status = "gen"
           /\ Top.i # 0 => Known(cir, ret)
           /\ kind \in {"assign", "return", "binary", "cast", "sizeof", "index", "assign_index",
                        "assign_member"} => Known(cir, ret)
<1>1. /\ Top.node.kind = kind /\ Top.i = Operands(Top.node) /\ Top.at \in {"start", "operand"}
      /\ status = "gen" /\ Top.node \in Nodes /\ Top.i \in Nat
  <2>1. IInv /\ frames # << >> /\ status = "gen"
    BY DEF Resolving
  <2>. QED
    BY <2>1, EvaluatedLemma, TopLemma
<1>2. Top.i > 0 => ReadsRet(Top)
  BY <1>1 DEF ReadsRet
<1>3. ASSUME kind \in {"assign", "return", "binary", "cast", "sizeof", "index", "assign_index",
                       "assign_member"}
      PROVE  Top.i > 0
  <2>1. Len(Top.node.kids) \in Nat
    BY <1>1, NodeLemma
  <2>2. kind \in {"assign", "return", "sizeof", "cast"} => Len(Top.node.kids) = 1 /\ kind \notin Placed
    BY <1>1, ProgramsAssumption DEF Placed
  <2>3. kind \in {"binary", "index", "assign_member"} => Len(Top.node.kids) = 2
    BY <1>1, ProgramsAssumption
  <2>4. kind = "assign_index" => Len(Top.node.kids) = 3
    BY <1>1, ProgramsAssumption
  <2>5. Operands(Top.node) = Len(Top.node.kids) \/ Operands(Top.node) = Len(Top.node.kids) - 1
    BY DEF Operands
  <2>6. kind \in {"assign", "return", "sizeof", "cast"} => Operands(Top.node) = Len(Top.node.kids)
    BY <1>1, <2>2 DEF Operands
  <2>7. PICK l, o : l = Len(Top.node.kids) /\ o = Operands(Top.node)
    OBVIOUS
  <2>8. Top.i = o
    BY <1>1, <2>7
  <2>9. CASE kind \in {"assign", "return", "sizeof", "cast"}
    <3>1. o = 1
      BY <2>2, <2>6, <2>7, <2>9
    <3>. QED
      BY <2>8, <3>1
  <2>10. CASE kind \in {"binary", "index", "assign_member", "assign_index"}
    <3>1. l = 2 \/ l = 3
      BY <2>3, <2>4, <2>7, <2>10
    <3>2. o = l \/ o = l - 1
      BY <2>5, <2>7
    <3>3. o > 0
      BY ONLY <3>1, <3>2
    <3>. QED
      BY <2>8, <3>3
  <2>. QED
    BY <1>3, <2>9, <2>10
<1>. QED
  BY <1>1, <1>2, <1>3, ResolvingLemma

\* A variable in its place.
LEMMA PlaceKnown ==
    ASSUME Resolving, Top.node.kind \in Placed, InPlace.kind = "variable"
    PROVE  Known(cir, varRefs[InPlace.x])
<1>1. IInv /\ frames # << >> /\ status = "gen"
  BY DEF Resolving
<1>2. Top.node \in Nodes
  BY <1>1, TopLemma
<1>3. Ready
  <2>1. At({Top.node.kind}, Top.at)
    BY <1>1 DEF At
  <2>. QED
    BY <1>1, <2>1, ReadyLemma
<1>4. InPlace \in Nodes
  BY <1>1, <1>3, InPlaceLemma
<1>5. InPlace.x \in VarNames
  BY <1>4, ProgramsAssumption
<1>. QED
  BY <1>5, ResolvingLemma

\* The addresses of elements and members.
LEMMA GEPKnown ==
    ASSUME Resolving, Top.node.kind \in Placed
    PROVE  /\ \A index : Known(cir, ret) /\ (IsEmpty(ret) \/ InPlace.kind = "variable") =>
                 /\ Onto(GEP_index(index).c, BlocksOf(cir))
                 /\ Known(GEP_index(index).c, GEP_index(index).r)
           /\ InPlace.kind = "variable" =>
                 Onto(GEP_member.c, BlocksOf(cir)) /\ Known(GEP_member.c, GEP_member.r)
<1>1. Onto(cir, BlocksOf(cir)) /\ Known(cir, NoRef)
  BY ResolvingLemma
<1>2. ASSUME NEW index, Known(cir, ret), IsEmpty(ret) \/ InPlace.kind = "variable"
      PROVE  /\ Onto(GEP_index(index).c, BlocksOf(cir))
             /\ Known(GEP_index(index).c, GEP_index(index).r)
  <2>1. PICK e : e = Convert(cir, ret, index.ty, "i64")
    OBVIOUS
  <2>2. PICK j : j = Instr("GepArray", "ptr", <<varRefs[InPlace.x], e.r>>)
    OBVIOUS
  <2>3. \/ GEP_index(index) = [c |-> cir, r |-> NoRef]
        \/ GEP_index(index) = Emit(e.c, j) /\ ~IsEmpty(ret)
    BY <2>1, <2>2 DEF GEP_index
  <2>4. Onto(e.c, BlocksOf(cir)) /\ Known(e.c, e.r)
    BY <1>1, <1>2, <2>1, OntoLemma
  <2>5. CASE GEP_index(index) = Emit(e.c, j) /\ ~IsEmpty(ret)
    <3>1. Known(cir, varRefs[InPlace.x])
      BY <1>2, <2>5, PlaceKnown
    <3>2. Known(e.c, varRefs[InPlace.x])
      BY <2>4, <3>1, OntoLemma
    <3>3. Fits(e.c, j)
      BY <2>2, <2>4, <3>2, FitsLemma
    <3>. QED
      BY <2>4, <2>5, <3>3, OntoLemma
  <2>. QED
    BY <1>1, <2>3, <2>5
<1>3. ASSUME InPlace.kind = "variable"
      PROVE  Onto(GEP_member.c, BlocksOf(cir)) /\ Known(GEP_member.c, GEP_member.r)
  <2>1. PICK j : j = Instr("GepStruct", "ptr", <<varRefs[InPlace.x]>>)
    OBVIOUS
  <2>2. Fits(cir, j)
    BY <1>3, <2>1, PlaceKnown, FitsLemma
  <2>. QED
    BY <1>1, <2>1, <2>2, OntoLemma DEF GEP_member
<1>. QED
  BY <1>2, <1>3

\* An element or a member is read, or written.
LEMMA LeaveWithResolved ==
    ASSUME Resolving, NEW gep, Onto(gep.c, BlocksOf(cir)), Known(gep.c, gep.r),
           NEW op, NEW ty, NEW r, Known(cir, r),
           LeaveWith(gep, op, ty, << >>) \/ LeaveWith(gep, op, ty, <<r>>)
    PROVE  Resolved'
<1>1. PICK q : LeaveWith(gep, op, ty, q) /\ (q = << >> \/ q = <<r>>)
  OBVIOUS
<1>2. PICK t : t = IF op = "Deref" /\ IsEmpty(gep.r) THEN "none" ELSE ty
  OBVIOUS
<1>3. EmitAndLeave(gep.c, Instr(op, t, <<gep.r>> \o q)) /\ Steady /\ varRefs' = varRefs
  BY <1>1, <1>2 DEF LeaveWith
<1>4. \A x : x \in ToSet(<<gep.r>> \o q) => x = gep.r \/ x = r
  <2>. DEFINE X == {gep.r, r}
  <2>0. gep.r \in X /\ r \in X
    OBVIOUS
  <2>. HIDE DEF X
  <2>1. <<gep.r>> \in Seq(X) /\ q \in Seq(X)
    <3>1. PICK p : p = gep.r
      OBVIOUS
    <3>2. <<p>> \in Seq(X)
      BY <2>0, <3>1
    <3>3. <<r>> \in Seq(X) /\ << >> \in Seq(X)
      BY <2>0
    <3>. QED
      BY <1>1, <3>1, <3>2, <3>3
  <2>2. \A x : x \in ToSet(<<gep.r>> \o q) <=> x \in ToSet(<<gep.r>>) \/ x \in ToSet(q)
    BY <2>1, ConcatSet
  <2>3. \A x : x \in ToSet(<<gep.r>>) => x = gep.r
    BY DEF ToSet
  <2>4. \A x : x \in ToSet(q) => x = r
    BY <1>1 DEF ToSet
  <2>. QED
    BY <2>2, <2>3, <2>4
<1>5. Known(gep.c, r)
  BY OntoLemma
<1>6. Fits(gep.c, Instr(op, t, <<gep.r>> \o q))
  <2>1. \A x \in ToSet(<<gep.r>> \o q) : Known(gep.c, x)
    BY <1>4, <1>5
  <2>. QED
    BY <2>1, FitsLemma
<1>7. status' = "gen"
  BY <1>3 DEF Steady, Resolving
<1>. QED
  BY <1>3, <1>6, <1>7, EmitOnto

\* The expressions on elements and members.
LEMMA ElementResolved ==
    ASSUME Resolving, ReadElement \/ ReadMember \/ WriteElement \/ WriteMember
    PROVE  Resolved'
<1>1. Known(cir, NoRef) /\ Known(cir, Top.keep)
  BY ResolvingLemma DEF KnownBy
<1>2. CASE ReadElement
  <2>1. PICK g : g = GEP_index(Top.node.kids[1])
    OBVIOUS
  <2>2. /\ Evaluated("index") /\ (IsEmpty(ret) \/ InPlace.kind = "variable")
        /\ LeaveWith(g, "Deref", Top.node.ty, << >>)
    BY <1>2, <2>1 DEF ReadElement
  <2>3. Top.node.kind \in Placed /\ Known(cir, ret)
    BY <2>2, OperandKnown DEF Placed
  <2>4. Onto(g.c, BlocksOf(cir)) /\ Known(g.c, g.r)
    BY <2>1, <2>2, <2>3, GEPKnown
  <2>. QED
    BY <1>1, <2>2, <2>4, LeaveWithResolved
<1>3. CASE WriteElement
  <2>1. PICK g : g = GEP_index(Top.node.kids[2])
    OBVIOUS
  <2>2. /\ Evaluated("assign_index") /\ (IsEmpty(ret) \/ InPlace.kind = "variable")
        /\ LeaveWith(g, "StoreInPtr", "void", <<Top.keep>>)
    BY <1>3, <2>1 DEF WriteElement
  <2>3. Top.node.kind \in Placed /\ Known(cir, ret)
    BY <2>2, OperandKnown DEF Placed
  <2>4. Onto(g.c, BlocksOf(cir)) /\ Known(g.c, g.r)
    BY <2>1, <2>2, <2>3, GEPKnown
  <2>. QED
    BY <1>1, <2>2, <2>4, LeaveWithResolved
<1>4. CASE ReadMember
  <2>1. PICK g : g = GEP_member
    OBVIOUS
  <2>2. /\ Top.node.kind = "member" /\ InPlace.kind = "variable"
        /\ LeaveWith(g, "Deref", Top.node.ty, << >>)
    BY <1>4, <2>1 DEF ReadMember, At
  <2>3. Top.node.kind \in Placed
    BY <2>2 DEF Placed
  <2>4. Onto(g.c, BlocksOf(cir)) /\ Known(g.c, g.r)
    BY <2>1, <2>2, <2>3, GEPKnown
  <2>. QED
    BY <1>1, <2>2, <2>4, LeaveWithResolved
<1>5. CASE WriteMember
  <2>1. PICK g : g = GEP_member
    OBVIOUS
  <2>2. /\ Evaluated("assign_member") /\ InPlace.kind = "variable"
        /\ LeaveWith(g, "StoreInPtr", "void", <<ret>>)
    BY <1>5, <2>1 DEF WriteMember
  <2>3. Top.node.kind \in Placed /\ Known(cir, ret)
    BY <2>2, OperandKnown DEF Placed
  <2>4. Onto(g.c, BlocksOf(cir)) /\ Known(g.c, g.r)
    BY <2>1, <2>2, <2>3, GEPKnown
  <2>. QED
    BY <2>2, <2>3, <2>4, LeaveWithResolved
<1>. QED
  BY <1>2, <1>3, <1>4, <1>5

\* An error is reported.
LEMMA ReportResolved ==
    ASSUME Resolving, Report
    PROVE  Resolved'
<1>1. frames' = Front(frames) /\ ret' = NoRef /\ cir' = cir /\ varRefs' = varRefs /\ status' = "gen"
  BY DEF Report, Leave, Steady, Resolving
<1>2. Onto(cir', BlocksOf(cir)) /\ Known(cir', ret')
  BY <1>1, ResolvingLemma
<1>. QED
  BY <1>1, <1>2, LeaveOnto

\* One more reference is held, of a call or a vector.
LEMMA RefHeld ==
    ASSUME Resolving, Top.node.kind \in {"call", "vector"}, Known(cir, ret),
           NEW S, Onto(cir', S), NEW r, Known(cir', r), UNCHANGED <<varRefs, ret>>, Steady,
           Stay([Top EXCEPT !.at = "start", !.refs = Append(@, r)])
    PROVE  Resolved'
<1>. DEFINE f == [Top EXCEPT !.at = "start", !.refs = Append(@, r)]
<1>1. Top \in FrameType(Len(cir.blk)) /\ KnownBy(cir, Top) /\ status' = "gen" /\ varRefs' = varRefs
  BY ResolvingLemma DEF Steady, Resolving
<1>2. /\ f.node = Top.node /\ f.keep = Top.keep /\ f.val = Top.val
      /\ f.refs = Append(Top.refs, r)
  BY <1>1 DEF FrameType
<1>3. Stay(f)
  OBVIOUS
<1>. HIDE DEF f
<1>4. KnownBy(cir', Top)
  BY <1>1, KnownByKept DEF Onto
<1>5. \A q \in ToSet(f.refs) : Known(cir', q)
  <2>1. PICK s : s = Top.refs
    OBVIOUS
  <2>2. s \in Seq(InstrRef)
    BY <1>1, <2>1 DEF FrameType
  <2>3. PICK X : X = InstrRef \union {r}
    OBVIOUS
  <2>4. s \in Seq(X) /\ r \in X
    BY <2>2, <2>3
  <2>5. ASSUME NEW q \in ToSet(Append(s, r))
        PROVE  q \in ToSet(s) \/ q = r
    <3>1. PICK k \in DOMAIN Append(s, r) : q = Append(s, r)[k]
      BY DEF ToSet
    <3>2. Len(s) \in Nat /\ DOMAIN s = 1..Len(s) /\ DOMAIN Append(s, r) = 1..(Len(s) + 1)
      BY <2>4
    <3>3. CASE k \in 1..Len(s)
      BY <2>4, <3>1, <3>2, <3>3 DEF ToSet
    <3>4. CASE k = Len(s) + 1
      BY <2>4, <3>1, <3>2, <3>4
    <3>. QED
      BY <3>1, <3>2, <3>3, <3>4
  <2>. QED
    BY <1>2, <1>4, <2>1, <2>5 DEF KnownBy
<1>6. KnownBy(cir', f)
  BY <1>2, <1>4, <1>5 DEF KnownBy
<1>7. Known(cir', ret')
  BY OntoLemma
<1>. QED
  BY <1>1, <1>2, <1>3, <1>6, <1>7, GoOnOnto

\* The expressions on memory and the arguments of a call.
LEMMA MemoryResolved ==
    ASSUME Resolving, Memory \/ Argument \/ Argument_missing
    PROVE  Resolved'
<1>1. /\ Onto(cir, BlocksOf(cir)) /\ Known(cir, NoRef) /\ status = "gen" /\ KnownBy(cir, Top)
      /\ \A x \in VarNames : Known(cir, varRefs[x])
  BY ResolvingLemma DEF Resolving
<1>2. CASE NotImplemented \/ Operand_missing \/ Argument_missing
  BY <1>2, AbortResolved DEF NotImplemented, Operand_missing, Argument_missing, Resolving
<1>3. CASE ReadElement \/ ReadMember \/ WriteElement \/ WriteMember
  BY <1>3, ElementResolved
<1>4. CASE StructMemberCallExpr_gen
  BY <1>4, ReportResolved DEF StructMemberCallExpr_gen
<1>5. CASE AddrExpr_gen
  <2>1. PICK r : r = IF InPlace.kind = "variable" THEN varRefs[InPlace.x] ELSE NoRef
    OBVIOUS
  <2>2. /\ Top.node.kind = "addr" /\ frames' = Front(frames) /\ ret' = r /\ status' = "gen"
        /\ cir' = cir /\ varRefs' = varRefs
    BY <1>1, <1>5, <2>1 DEF AddrExpr_gen, Leave, At, Steady
  <2>3. Known(cir, r)
    <3>1. Top.node.kind \in Placed
      BY <2>2 DEF Placed
    <3>. QED
      BY <1>1, <2>1, <3>1, PlaceKnown
  <2>. QED
    BY <1>1, <2>2, <2>3, LeaveOnto
<1>6. CASE DerefExpr_gen
  <2>1. CASE Report
    BY <2>1, ReportResolved
  <2>2. CASE ~Report
    <3>1. /\ Top.node.kind = "deref" /\ InPlace.kind = "variable" /\ status' = "gen" /\ varRefs' = varRefs
          /\ EmitAndLeave(cir, Instr("Deref", Top.node.ty, <<varRefs[InPlace.x]>>))
      BY <1>1, <1>6, <2>2 DEF DerefExpr_gen, At, Steady
    <3>2. Top.node.kind \in Placed
      BY <3>1 DEF Placed
    <3>3. Fits(cir, Instr("Deref", Top.node.ty, <<varRefs[InPlace.x]>>))
      BY <3>1, <3>2, PlaceKnown, FitsLemma
    <3>. QED
      BY <1>1, <3>1, <3>3, EmitOnto
  <2>. QED
    BY <2>1, <2>2
<1>7. CASE SizeofExpr_gen
  <2>1. /\ Evaluated("sizeof") /\ status' = "gen" /\ varRefs' = varRefs
        /\ EmitAndLeave(cir, Instr("Sizeof", "val", <<ret>>))
    BY <1>1, <1>7 DEF SizeofExpr_gen, Steady
  <2>2. Fits(cir, Instr("Sizeof", "val", <<ret>>))
    BY <2>1, OperandKnown, FitsLemma
  <2>. QED
    BY <1>1, <2>1, <2>2, EmitOnto
<1>8. CASE CastExpr_gen
  <2>1. PICK e : e = Convert(cir, ret, TypeAt(cir, ret), Top.node.ty)
    OBVIOUS
  <2>2. /\ Evaluated("cast") /\ status' = "gen" /\ varRefs' = varRefs /\ cir' = e.c
        /\ frames' = Front(frames) /\ ret' = e.r
    BY <1>1, <1>8, <2>1 DEF CastExpr_gen, Steady, Leave
  <2>3. Onto(e.c, BlocksOf(cir)) /\ Known(e.c, e.r)
    BY <1>1, <2>1, <2>2, OperandKnown, OntoLemma
  <2>. QED
    BY <2>2, <2>3, LeaveOnto
<1>9. CASE VectorMember
  <2>1. CASE Report
    BY <2>1, ReportResolved
  <2>2. CASE ~Report
    <3>1. /\ Top.node.kind = "vector" /\ Top.at = "operand" /\ cir' = cir
          /\ Stay([Top EXCEPT !.at = "start", !.refs = Append(@, ret)])
          /\ Steady /\ UNCHANGED <<varRefs, ret>>
      BY <1>9, <2>2 DEF VectorMember, At
    <3>2. Known(cir, ret)
      BY <3>1, ResolvingLemma DEF ReadsRet
    <3>. QED
      BY <1>1, <3>1, <3>2, RefHeld
  <2>. QED
    BY <2>1, <2>2
<1>10. CASE Argument
  <2>1. PICK p, e : /\ p = Proto(Top.node.x)
                    /\ e = IF p.variadic THEN [c |-> cir, r |-> ret]
                           ELSE Convert(cir, ret, Top.node.kids[Top.i].ty, p.args[Top.i])
    OBVIOUS
  <2>2. /\ Top.node.kind = "call" /\ Top.at = "operand" /\ cir' = e.c
        /\ Stay([Top EXCEPT !.at = "start", !.refs = Append(@, e.r)])
        /\ Steady /\ UNCHANGED <<varRefs, ret>>
    BY <1>10, <2>1 DEF Argument, At
  <2>3. Known(cir, ret)
    BY <2>2, ResolvingLemma DEF ReadsRet
  <2>4. Onto(e.c, BlocksOf(cir)) /\ Known(e.c, e.r)
    <3>1. CASE p.variadic
      BY <1>1, <2>1, <2>3, <3>1
    <3>2. CASE ~p.variadic
      BY <1>1, <2>1, <2>3, <3>2, OntoLemma
    <3>. QED
      BY <3>1, <3>2
  <2>. QED
    BY <2>2, <2>3, <2>4, RefHeld
<1>11. CASE ConstantVectorExpr_gen
  <2>1. /\ status' = "gen" /\ varRefs' = varRefs
        /\ EmitAndLeave(cir, Instr("ConstVector", "array", Top.refs))
    BY <1>1, <1>11 DEF ConstantVectorExpr_gen, Steady
  <2>2. Fits(cir, Instr("ConstVector", "array", Top.refs))
    BY <1>1, FitsLemma DEF KnownBy
  <2>. QED
    BY <1>1, <2>1, <2>2, EmitOnto
<1>12. CASE AsmExpr_gen
  <2>1. CASE Report
    BY <2>1, ReportResolved
  <2>2. CASE ~Report
    <3>1. PICK args, refs : args = Top.node.kids /\ refs = [k \in DOMAIN args |-> varRefs[args[k].x]]
      OBVIOUS
    <3>2. /\ \A k \in DOMAIN args : args[k].kind = "variable"
          /\ status' = "gen" /\ varRefs' = varRefs
          /\ EmitAndLeave(cir, Instr("InlineAsm", "none", refs))
      BY <1>1, <1>12, <2>2, <3>1 DEF AsmExpr_gen, Steady
    <3>3. \A k \in DOMAIN args : Known(cir, varRefs[args[k].x])
      <4>1. Top.node \in Nodes
        BY TopLemma DEF Resolving
      <4>2. args \in Seq(Nodes)
        BY <3>1, <4>1, NodeLemma
      <4>3. \A k \in DOMAIN args : args[k] \in Nodes
        BY <4>2
      <4>4. \A k \in DOMAIN args : args[k].x \in VarNames
        BY <3>2, <4>3, ProgramsAssumption
      <4>. QED
        BY <1>1, <4>4
    <3>4. \A r \in ToSet(refs) : Known(cir, r)
      BY <3>1, <3>3 DEF ToSet
    <3>5. Fits(cir, Instr("InlineAsm", "none", refs))
      BY <3>4, FitsLemma
    <3>. QED
      BY <1>1, <3>2, <3>5, EmitOnto
  <2>. QED
    BY <2>1, <2>2
<1>. QED
  BY <1>2, <1>3, <1>4, <1>5, <1>6, <1>7, <1>8, <1>9, <1>10, <1>11, <1>12 DEF Memory

\* What a method that emits and returns leaves.
LEMMA EmitFound ==
    ASSUME Resolving, NEW c, NEW S, Onto(c, S), NEW i, Fits(c, i), EmitAndLeave(c, i)
    PROVE  Onto(cir', S) /\ Known(cir', ret') /\ frames' = Front(frames)
<1>1. Onto(Emit(c, i).c, S) /\ Known(Emit(c, i).c, Emit(c, i).r)
  BY OntoLemma
<1>. QED
  BY <1>1 DEF EmitAndLeave, Leave

\* A conversion for a binary expression.
LEMMA AsI64Known ==
    ASSUME NEW c, NEW S, Onto(c, S), NEW op, NEW ref, Known(c, ref), NEW ty, NEW e,
           e = AsI64(op, c, ref, ty)
    PROVE  Onto(e.c, S) /\ Known(e.c, e.r) /\ \A r : Known(c, r) => Known(e.c, r)
<1>1. PICK to : e.c = Convert(c, ref, ty, to).c /\ e.r = Convert(c, ref, ty, to).r
  BY DEF AsI64
<1>2. Onto(e.c, S) /\ Known(e.c, e.r)
  BY <1>1, OntoLemma
<1>3. Same(c, S, e.c)
  BY <1>1, SoundOps DEF Gives, Onto
<1>. QED
  BY <1>2, <1>3 DEF Same, Keeps

\* A variable is declared.
LEMMA VarResolved ==
    ASSUME Resolving, VarExpr_gen
    PROVE  Resolved'
<1>1. /\ Onto(cir, BlocksOf(cir)) /\ Known(cir, NoRef) /\ status = "gen"
      /\ IInv /\ Resolved /\ frames # << >>
      /\ \A x \in VarNames : Known(cir, varRefs[x])
  BY ResolvingLemma DEF Resolving
<1>2. PICK e : e = IF Top.i = 0 THEN [c |-> cir, r |-> NoRef]
                   ELSE IF IsEmpty(ret) THEN [c |-> cir, r |-> ret]
                   ELSE Convert(cir, ret, Top.node.kids[1].ty, Top.node.ty)
  OBVIOUS
<1>3. /\ Evaluated("var") /\ EmitAndLeave(e.c, Instr("VarInit", Top.node.ty, <<e.r>>))
      /\ varRefs' = [varRefs EXCEPT ![Top.node.x] = ret'] /\ status' = "gen"
  BY <1>1, <1>2 DEF VarExpr_gen, Steady
<1>4. Onto(e.c, BlocksOf(cir)) /\ Known(e.c, e.r)
  <2>1. CASE Top.i = 0 \/ IsEmpty(ret)
    BY <1>1, <1>2, <1>3, <2>1, OperandKnown
  <2>2. CASE ~(Top.i = 0 \/ IsEmpty(ret))
    BY <1>1, <1>2, <1>3, <2>2, OperandKnown, OntoLemma
  <2>. QED
    BY <2>1, <2>2
<1>5. /\ Onto(cir', BlocksOf(cir)) /\ Known(cir', ret') /\ frames' = Front(frames)
  BY <1>3, <1>4, FitsLemma, EmitFound
<1>6. \A x \in VarNames : Known(cir', varRefs'[x])
  <2>1. varRefs \in [VarNames -> InstrRef]
    BY <1>1, InsideLemma
  <2>2. ASSUME NEW x \in VarNames
        PROVE  varRefs'[x] = ret' \/ varRefs'[x] = varRefs[x]
    BY <1>3, <2>1
  <2>. QED
    BY <1>1, <1>5, <2>2, OntoLemma
<1>7. Right(cir') /\ Keeps(cir, cir')
  BY <1>5, OntoLemma DEF Onto
<1>. QED
  BY <1>1, <1>3, <1>5, <1>6, <1>7, LeaveResolved

\* The other expressions without control flow.
LEMMA SimpleResolved ==
    ASSUME Resolving, Simple, ~LabelExpr_gen, ~(Argument \/ Argument_missing)
    PROVE  Resolved'
<1>. DEFINE S == BlocksOf(cir)
<1>1. /\ Onto(cir, S) /\ Known(cir, NoRef) /\ status = "gen" /\ KnownBy(cir, Top)
      /\ \A x \in VarNames : Known(cir, varRefs[x])
      /\ Top \in FrameType(Len(cir.blk)) /\ IInv /\ frames # << >> /\ Top.node \in Nodes
  BY ResolvingLemma, TopLemma DEF Resolving
<1>. HIDE DEF S
<1>2. CASE GotoExpr_gen \/ BreakExpr_dangling
  BY <1>2, AbortResolved DEF GotoExpr_gen, BreakExpr_dangling, Resolving
<1>3. CASE BreakExpr_error
  BY <1>3, ReportResolved DEF BreakExpr_error
<1>4. CASE Constant
  <2>1. /\ EmitAndLeave(cir, Literal(Top.node.kind)) /\ status' = "gen" /\ varRefs' = varRefs
    BY <1>1, <1>4 DEF Constant, Steady
  <2>2. \E op, ty : Literal(Top.node.kind) = Instr(op, ty, << >>)
    BY DEF Literal
  <2>3. Fits(cir, Literal(Top.node.kind))
    BY <2>2, FitsLemma
  <2>. QED
    BY <1>1, <2>1, <2>3, EmitOnto
<1>5. CASE VariableExpr_gen
  <2>1. PICK j : j = IF Top.node.x \in Globals
                     THEN Instr("LoadGlobal", Top.node.ty, << >>)
                     ELSE Instr("LoadVar", Top.node.ty, <<varRefs[Top.node.x]>>)
    OBVIOUS
  <2>2. /\ Top.node.kind = "variable" /\ EmitAndLeave(cir, j) /\ status' = "gen" /\ varRefs' = varRefs
    BY <1>1, <1>5, <2>1 DEF VariableExpr_gen, Steady, At
  <2>3. Top.node.x \in VarNames
    BY <1>1, <2>2, ProgramsAssumption
  <2>4. Fits(cir, j)
    BY <1>1, <2>1, <2>3, FitsLemma
  <2>. QED
    BY <1>1, <2>2, <2>4, EmitOnto
<1>6. CASE Operand
  <2>. DEFINE f == [Top EXCEPT !.at = "operand", !.i = @ + 1,
                               !.keep = IF Top.i = 0 THEN NoRef ELSE ret]
  <2>1. /\ Enter(f, Top.node.kids[Top.i + 1]) /\ cir' = cir /\ varRefs' = varRefs /\ status' = "gen"
        /\ Top.node.kind \notin {"while", "function"} /\ Top.at \in {"start", "operand"}
    BY <1>1, <1>6 DEF Operand, At, Steady
  <2>2. /\ f.node = Top.node /\ f.refs = Top.refs /\ f.val = Top.val
        /\ f.keep = IF Top.i = 0 THEN NoRef ELSE ret
    BY <1>1 DEF FrameType
  <2>. HIDE DEF f
  <2>3. Top.i # 0 => Known(cir, ret)
    <3>1. Top.i \in Nat
      BY <1>1 DEF FrameType
    <3>2. Top.i # 0 => ReadsRet(Top)
      BY <2>1, <3>1 DEF ReadsRet
    <3>. QED
      BY <3>2, ResolvingLemma
  <2>4. KnownBy(cir, f)
    BY <1>1, <2>1, <2>2, <2>3, HoldsLemma
  <2>. QED
    BY <1>1, <2>1, <2>2, <2>4, GoOnOnto
<1>7. CASE VarExpr_gen
  BY <1>7, VarResolved
<1>8. CASE Assign_gen
  <2>1. PICK e : e = Convert(cir, ret, Top.node.kids[1].ty, Top.node.ty)
    OBVIOUS
  <2>2. PICK j : j = IF Top.node.x \in Globals
                     THEN Instr("StoreGlobal", "void", <<e.r>>)
                     ELSE Instr("StoreVar", "void", <<varRefs[Top.node.x], e.r>>)
    OBVIOUS
  <2>3. Evaluated("assign") /\ EmitAndLeave(e.c, j) /\ status' = "gen" /\ varRefs' = varRefs
    BY <1>1, <1>8, <2>1, <2>2 DEF Assign_gen, Steady
  <2>4. Top.node.x \in VarNames /\ Known(cir, ret)
    BY <1>1, <2>3, OperandKnown, ProgramsAssumption
  <2>5. Onto(e.c, S) /\ Known(e.c, e.r)
    BY <1>1, <2>1, <2>4, OntoLemma
  <2>6. Known(e.c, varRefs[Top.node.x])
    BY <1>1, <2>4, <2>5, OntoLemma
  <2>7. Fits(e.c, j)
    BY <2>2, <2>5, <2>6, FitsLemma
  <2>. QED
    BY <2>3, <2>5, <2>7, EmitOnto
<1>9. CASE BinaryExpr_gen
  <2>1. PICK left : left = AsI64(Top.node.x, cir, Top.keep, Top.node.kids[1].ty)
    OBVIOUS
  <2>2. PICK right : right = AsI64(Top.node.x, left.c, ret, Top.node.kids[2].ty)
    OBVIOUS
  <2>3. PICK e : e = Convert(right.c, right.r, right.ty, left.ty)
    OBVIOUS
  <2>4. /\ Evaluated("binary") /\ status' = "gen" /\ varRefs' = varRefs
        /\ \/ cir' = e.c /\ Leave(NoRef)
           \/ EmitAndLeave(e.c, Instr("Binary", Top.node.ty, <<left.r, e.r>>))
    BY <1>1, <1>9, <2>1, <2>2, <2>3 DEF BinaryExpr_gen, Steady
  <2>5. Known(cir, ret) /\ Known(cir, Top.keep)
    BY <1>1, <2>4, OperandKnown DEF KnownBy
  <2>6. Onto(left.c, S) /\ Known(left.c, left.r) /\ Known(left.c, ret)
    BY <1>1, <2>1, <2>5, AsI64Known
  <2>7. Onto(right.c, S) /\ Known(right.c, right.r) /\ Known(right.c, left.r)
    BY <2>2, <2>6, AsI64Known
  <2>8. Onto(e.c, S) /\ Known(e.c, e.r) /\ Known(e.c, left.r)
    <3>1. Onto(e.c, S) /\ Known(e.c, e.r)
      BY <2>3, <2>7, OntoLemma
    <3>2. Same(right.c, S, e.c)
      BY <2>3, <2>7, SoundOps DEF Gives, Onto
    <3>. QED
      BY <2>7, <3>1, <3>2 DEF Same, Keeps
  <2>9. CASE cir' = e.c /\ Leave(NoRef)
    <3>1. frames' = Front(frames) /\ ret' = NoRef /\ Known(cir', NoRef)
      BY <1>1, <2>8, <2>9, OntoLemma DEF Leave
    <3>. QED
      BY <2>4, <2>8, <2>9, <3>1, LeaveOnto
  <2>10. CASE EmitAndLeave(e.c, Instr("Binary", Top.node.ty, <<left.r, e.r>>))
    BY <2>4, <2>8, <2>10, FitsLemma, EmitOnto
  <2>. QED
    BY <2>4, <2>9, <2>10
<1>10. CASE CallExpr_gen
  <2>1. PICK j : j = IF "Unreachable" \in Top.node.contains
                     THEN Instr("ConstNever", "never", << >>)
                     ELSE Instr("Call", Top.node.ty, Top.refs)
    OBVIOUS
  <2>2. EmitAndLeave(cir, j) /\ status' = "gen" /\ varRefs' = varRefs
    BY <1>1, <1>10, <2>1 DEF CallExpr_gen, Steady
  <2>3. \A r \in ToSet(Top.refs) : Known(cir, r)
    BY <1>1 DEF KnownBy
  <2>4. Fits(cir, j)
    BY <2>1, <2>3, FitsLemma
  <2>. QED
    BY <1>1, <2>2, <2>4, EmitOnto
<1>11. CASE Return_gen
  <2>1. PICK e : e = Convert(cir, ret, Top.node.kids[1].ty, prog[fn].node.ty)
    OBVIOUS
  <2>2. /\ Evaluated("return") /\ EmitAndLeave(e.c, Instr("Return", "never", <<e.r>>))
        /\ status' = "gen" /\ varRefs' = varRefs
    BY <1>1, <1>11, <2>1 DEF Return_gen, Steady
  <2>3. Onto(e.c, S) /\ Known(e.c, e.r)
    BY <1>1, <2>1, <2>2, OperandKnown, OntoLemma
  <2>. QED
    BY <2>2, <2>3, FitsLemma, EmitOnto
<1>12. CASE DeferExpr_gen
  <2>1. /\ EmitAndLeave(cir, Instr("ConstVoid", "void", << >>))
        /\ status' = "gen" /\ varRefs' = varRefs
    BY <1>1, <1>12 DEF DeferExpr_gen, Steady
  <2>. QED
    BY <1>1, <2>1, FitsLemma, EmitOnto
<1>13. CASE MatchExpr_gen
  <2>1. frames' = Front(frames) /\ ret' = NoRef /\ cir' = cir /\ varRefs' = varRefs /\ status' = "gen"
    BY <1>1, <1>13 DEF MatchExpr_gen, Leave, Steady
  <2>. QED
    BY <1>1, <2>1, LeaveOnto
<1>14. CASE BreakExpr_gen
  <2>1. PICK b : b = Last(breaks)
    OBVIOUS
  <2>2. /\ EmitAndLeave(CreateGoto(cir, b), Instr("ConstVoid", "void", << >>)) /\ breaks # << >>
        /\ status' = "gen" /\ varRefs' = varRefs
    BY <1>1, <1>14, <2>1 DEF BreakExpr_gen, Steady
  <2>3. b \in 1..Len(cir.blk)
    <3>1. breaks \in Seq(1..Len(cir.blk))
      BY <1>1, InsideLemma
    <3>. QED
      BY <2>1, <2>2, <3>1, StackLemma
  <2>4. Onto(CreateGoto(cir, b), S)
    BY <1>1, <2>3, OntoLemma
  <2>. QED
    BY <2>2, <2>4, FitsLemma, EmitOnto
<1>. QED
  BY <1>2, <1>3, <1>4, <1>5, <1>6, <1>7, <1>8, <1>9, <1>10, <1>11, <1>12, <1>13, <1>14 DEF Simple

\* The file d is c with one more block, laid out last.
Grown(c, S, d) ==
    /\ Onto(d, S \union {Len(c.blk) + 1})
    /\ Len(d.blk) = Len(c.blk) + 1 /\ LastBlock(d) = Len(c.blk) + 1 /\ Ends(d, Len(c.blk) + 1)
    /\ Len(c.blk) \in Nat /\ Len(c.blk) + 1 \in 1..Len(d.blk) /\ InLast(d, Len(c.blk) + 1)
    /\ \A r : Known(c, r) => Known(d, r)
    /\ \A b : InLast(c, b) => InLast(d, b)

\* A new block, laid out last.
LEMMA AddedGrown ==
    ASSUME NEW c, NEW S, Onto(c, S), NEW base
    PROVE  Grown(c, S, Added(c, base))
<1>1. PICK n, d : n = Len(c.blk) /\ d = Added(c, base)
  OBVIOUS
<1>2. /\ Sound(d, S \union {n + 1}) /\ Keeps(c, d) /\ n \in Nat /\ Len(d.blk) = n + 1
      /\ LastBlock(d) = n + 1 /\ Ends(d, n + 1)
  BY <1>1, SoundAdded DEF Onto
<1>3. Onto(d, S \union {n + 1})
  BY <1>2, KeepsLemma DEF Onto
<1>4. InLast(d, n + 1)
  <2>1. d.fun[Len(d.fun)] \in Seq(Nat)
    BY <1>2, SoundShape DEF Laid
  <2>. QED
    BY <1>2, <2>1 DEF Ends, InLast, ToSet
<1>5. n + 1 \in 1..Len(d.blk)
  BY ONLY <1>2
<1>. QED
  BY <1>1, <1>2, <1>3, <1>4, <1>5 DEF Keeps, Grown

\* A branch to the last block of the layout, where the insert point goes.
LEMMA JumpOnto ==
    ASSUME NEW c, NEW S, Onto(c, S), NEW b \in 1..Len(c.blk), Ends(c, b)
    PROVE  /\ Onto(SetInsertPoint(c, b), S)
           /\ Onto(SetInsertPoint(CreateGoto(c, b), b), S)
           /\ \A r : \A a \in 1..Len(c.blk) : Known(c, r) =>
                 Onto(SetInsertPoint(CreateGotoIf(c, r, b, a), b), S)
<1>1. ASSUME NEW d, Same(c, S, d)
      PROVE  Onto(SetInsertPoint(d, b), S)
  <2>1. Onto(d, S) /\ Ends(d, b)
    BY <1>1, OntoLemma DEF Same, Ends
  <2>2. PICK e : e = SetInsertPoint(d, b)
    OBVIOUS
  <2>3. Sound(e, S) /\ Keeps(d, e)
    BY <2>1, <2>2, SoundInsertPoint DEF Onto
  <2>. QED
    BY <2>1, <2>2, <2>3, KeepsLemma DEF Onto
<1>2. Same(c, S, c) /\ Same(c, S, CreateGoto(c, b))
  BY SoundOps, SameLemma DEF Onto
<1>3. \A r : \A a \in 1..Len(c.blk) : Known(c, r) => Same(c, S, CreateGotoIf(c, r, b, a))
  BY SoundOps DEF Onto
<1>. QED
  BY <1>1, <1>2, <1>3

\* The block of a label.
LEMMA LabelResolved ==
    ASSUME Resolving, LabelExpr_gen
    PROVE  Resolved'
<1>1. /\ Onto(cir, BlocksOf(cir)) /\ status = "gen"
  BY ResolvingLemma DEF Resolving
<1>2. PICK d, n : d = Added(cir, Top.node.x) /\ n = Len(cir.blk)
  OBVIOUS
<1>3. PICK b, S : b = n + 1 /\ S = BlocksOf(cir) \union {n + 1}
  OBVIOUS
<1>4. Onto(d, S) /\ Ends(d, b) /\ b \in 1..Len(d.blk) /\ LastBlock(d) = b
  <2>1. Grown(cir, BlocksOf(cir), d)
    BY <1>1, <1>2, AddedGrown
  <2>. QED
    BY <1>2, <1>3, <2>1 DEF Grown
<1>5. /\ cir' = SetInsertPoint(CreateGoto(d, b), b)
      /\ frames' = Front(frames) /\ ret' = NoRef /\ varRefs' = varRefs /\ status' = "gen"
  <2>1. LastBlock(NewBlock(cir, Top.node.x)) = LastBlock(d)
    <3>1. PICK c, a : c = NewBlock(cir, Top.node.x) /\ a = LastBlock(c)
      OBVIOUS
    <3>2. d = AddBasicBlock(c, a)
      BY <1>2, <3>1 DEF Added
    <3>3. /\ Sound(cir, BlocksOf(cir)) /\ Len(c.blk) = n + 1
      BY <1>1, <1>2, <3>1, SoundNewBlock DEF Onto
    <3>. QED
      BY <1>3, <1>4, <3>1, <3>3 DEF LastBlock
  <2>. QED
    BY <1>1, <1>2, <1>4, <2>1 DEF LabelExpr_gen, Leave, Steady, Added
<1>6. Onto(cir', S) /\ Known(cir', NoRef)
  BY <1>4, <1>5, JumpOnto, ResolvingLemma, OntoLemma
<1>. QED
  BY <1>5, <1>6, LeaveOnto

\* Blocks of statements.
LEMMA ScopeResolved ==
    ASSUME Resolving, ScopeExpr_gen \/ NextStatement \/ EndScope \/ RunDefer \/ ScopeExpr_end
    PROVE  Resolved'
<1>1. /\ Onto(cir, BlocksOf(cir)) /\ Known(cir, NoRef) /\ status = "gen" /\ KnownBy(cir, Top)
      /\ Top \in FrameType(Len(cir.blk)) /\ IInv /\ frames # << >> /\ Top.node \in Nodes
      /\ ReadsRet(Top) => Known(cir, ret)
  BY ResolvingLemma, TopLemma DEF Resolving
<1>2. cir' = cir /\ varRefs' = varRefs /\ status' = "gen"
  BY <1>1 DEF ScopeExpr_gen, NextStatement, EndScope, RunDefer, ScopeExpr_end, Steady, SameStacks
<1>3. CASE ScopeExpr_gen
  <2>. DEFINE f == [Top EXCEPT !.at = "body"]
  <2>1. Stay(f) /\ Top.node.kind = "scope" /\ Top.at = "start" /\ ret' = ret
    BY <1>3 DEF ScopeExpr_gen, At
  <2>2. /\ f.node = Top.node /\ f.keep = Top.keep /\ f.val = Top.val /\ f.refs = Top.refs
        /\ f.i = Top.i /\ f.at = "body"
    BY <1>1 DEF FrameType
  <2>. HIDE DEF f
  <2>3. KnownBy(cir, f)
    BY <1>1, <2>1, <2>2, HoldsLemma
  <2>4. ReadsRet(f) => ReadsRet(Top)
    BY <2>1, <2>2 DEF ReadsRet
  <2>. QED
    BY <1>1, <1>2, <2>1, <2>2, <2>3, <2>4, GoOnOnto
<1>4. CASE NextStatement
  <2>. DEFINE f == [Top EXCEPT !.i = @ + 1]
  <2>1. /\ Enter(f, Top.node.kids[Top.i + 1])
        /\ Top.node.kind \in {"scope", "loop", "function"} /\ Top.at = "body"
    BY <1>4 DEF NextStatement, At
  <2>2. f.node = Top.node /\ f.keep = Top.keep /\ f.val = Top.val /\ f.refs = Top.refs
    BY <1>1 DEF FrameType
  <2>. HIDE DEF f
  <2>3. KnownBy(cir, f)
    BY <1>1, <2>1, <2>2, HoldsLemma
  <2>. QED
    BY <1>1, <1>2, <2>1, <2>2, <2>3, GoOnOnto
<1>5. CASE EndScope
  <2>. DEFINE f == [Top EXCEPT !.at = "endScope", !.defers = Last(scopes),
                               !.val = IF Top.node.kids = << >> THEN NoRef ELSE ret]
  <2>1. /\ Stay(f) /\ Top.at = "body" /\ ret' = ret
        /\ \/ Top.i = Len(Top.node.kids) /\ Top.node.kind \in {"scope", "function", "loop"}
           \/ Top.node.kind \in {"for", "while"}
    BY <1>5 DEF EndScope, At
  <2>2. /\ f.node = Top.node /\ f.keep = Top.keep /\ f.refs = Top.refs /\ f.i = Top.i
        /\ f.at = "endScope" /\ f.body = Top.body /\ f.after = Top.after
        /\ f.val = IF Top.node.kids = << >> THEN NoRef ELSE ret
    BY <1>1 DEF FrameType
  <2>. HIDE DEF f
  <2>3. Top.node.kids # << >> => Known(cir, ret)
    <3>1. Top.i \in Nat /\ Top.node.kids \in Seq(Nodes)
      BY <1>1, NodeLemma DEF FrameType
    <3>2. ASSUME Top.node.kids # << >>
          PROVE  ReadsRet(Top)
      <4>1. Len(Top.node.kids) > 0
        BY <3>1, <3>2
      <4>. QED
        BY <2>1, <3>1, <4>1 DEF ReadsRet
    <3>. QED
      BY <1>1, <3>2
  <2>4. KnownBy(cir, f)
    BY <1>1, <2>1, <2>2, <2>3 DEF KnownBy
  <2>5. ReadsRet(f) => ReadsRet(Top)
    BY <2>1, <2>2 DEF ReadsRet
  <2>. QED
    BY <1>1, <1>2, <2>1, <2>2, <2>4, <2>5, GoOnOnto
<1>6. CASE RunDefer
  <2>. DEFINE f == [Top EXCEPT !.defers = Tail(@)]
  <2>1. Enter(f, Head(Top.defers)) /\ Top.at = "endScope"
    BY <1>6 DEF RunDefer, At
  <2>2. /\ f.node = Top.node /\ f.keep = Top.keep /\ f.refs = Top.refs /\ f.val = Top.val
        /\ f.at = Top.at /\ f.body = Top.body /\ f.after = Top.after
    BY <1>1 DEF FrameType
  <2>. HIDE DEF f
  <2>3. KnownBy(cir, f)
    BY <1>1, <2>2 DEF KnownBy
  <2>. QED
    BY <1>1, <1>2, <2>1, <2>2, <2>3, GoOnOnto
<1>7. CASE ScopeExpr_end
  <2>1. frames' = Front(frames) /\ ret' = Top.val
    BY <1>7 DEF ScopeExpr_end, Leave
  <2>. QED
    BY <1>1, <1>2, <2>1, LeaveOnto DEF KnownBy
<1>. QED
  BY <1>3, <1>4, <1>5, <1>6, <1>7

\* A new block, not in the layout yet.
LEMMA NewBlockOnto ==
    ASSUME NEW c, NEW S, Onto(c, S), NEW n, n = Len(c.blk), NEW base, NEW d, d = NewBlock(c, base)
    PROVE  /\ Onto(d, S) /\ d.fun = c.fun /\ Len(d.blk) = n + 1 /\ LastBlock(d) = n + 1 /\ n \in Nat
           /\ \A r : Known(c, r) => Known(d, r)
           /\ \A b : Ends(c, b) => Ends(d, b)
<1>1. /\ Sound(d, S) /\ Keeps(c, d) /\ d.fun = c.fun /\ Len(d.blk) = n + 1
      /\ LastBlock(d) = n + 1 /\ n \in Nat
  BY SoundNewBlock DEF Onto
<1>. QED
  BY <1>1, KeepsLemma DEF Onto, Ends, Keeps

\* A block that was made before takes its place, and the insert point.
LEMMA PlaceOnto ==
    ASSUME NEW c, NEW S, Onto(c, S), NEW b \in 1..Len(c.blk), b \notin S,
           NEW d, d = SetInsertPoint(AddBasicBlock(c, b), b)
    PROVE  /\ Onto(d, S \union {b}) /\ Len(d.blk) = Len(c.blk)
           /\ \A r : Known(c, r) => Known(d, r)
<1>1. PICK e : e = AddBasicBlock(c, b)
  OBVIOUS
<1>2. Sound(e, S \union {b}) /\ Keeps(c, e) /\ Len(e.blk) = Len(c.blk) /\ Ends(e, b)
  BY <1>1, SoundAdd DEF Onto
<1>3. Sound(d, S \union {b}) /\ Keeps(e, d) /\ Len(d.blk) = Len(e.blk)
  BY <1>1, <1>2, SoundInsertPoint
<1>. QED
  BY <1>2, <1>3, KeepsLemma DEF Onto, Keeps

\* The block an if leaves for, with a branch unless the code diverts.
LEMMA BranchOnto ==
    ASSUME NEW c, NEW S, Onto(c, S), NEW b \in 1..Len(c.blk), NEW a \in 1..Len(c.blk), a \notin S,
           NEW d, d = c \/ d = CreateGoto(c, b), NEW e, e = SetInsertPoint(AddBasicBlock(d, a), a)
    PROVE  /\ Onto(e, S \union {a}) /\ Len(e.blk) = Len(c.blk)
           /\ \A r : Known(c, r) => Known(e, r)
<1>1. Same(c, S, d)
  BY SoundOps, SameLemma DEF Onto
<1>2. Onto(d, S) /\ Len(d.blk) = Len(c.blk) /\ \A r : Known(c, r) => Known(d, r)
  BY <1>1, OntoLemma DEF Same, Keeps
<1>3. a \in 1..Len(d.blk)
  BY <1>2
<1>. QED
  BY <1>2, <1>3, PlaceOnto

\* The condition of an if.
LEMMA IfThenResolved ==
    ASSUME Resolving, IfExpr_then
    PROVE  Resolved'
<1>1. /\ Onto(cir, BlocksOf(cir)) /\ status = "gen" /\ KnownBy(cir, Top)
      /\ Top \in FrameType(Len(cir.blk))
      /\ ReadsRet(Top) => Known(cir, ret)
  BY ResolvingLemma DEF Resolving
<1>2. /\ Top.node.kind = "if" /\ Top.at = "cond" /\ status' = "gen" /\ varRefs' = varRefs
  BY <1>1 DEF IfExpr_then, At, Steady
<1>3. Known(cir, ret)
  BY <1>1, <1>2 DEF ReadsRet
<1>4. PICK e : e = Convert(cir, ret, Top.node.kids[1].ty, "bool")
  OBVIOUS
<1>5. PICK n, S, T : n = Len(e.c.blk) /\ S = BlocksOf(cir) /\ T = S \union {n + 1}
  OBVIOUS
<1>6. PICK c1 : c1 = NewBlock(e.c, "then")
  OBVIOUS
<1>7. PICK a : a = AddBasicBlock(c1, LastBlock(c1))
  OBVIOUS
<1>8. PICK c2 : c2 = NewBlock(a, "else")
  OBVIOUS
<1>9. PICK c3 : c3 = NewBlock(c2, "ifcont")
  OBVIOUS
<1>10. PICK then, else : then = LastBlock(c1) /\ else = LastBlock(c2)
  OBVIOUS
<1>11. PICK f : f = [Top EXCEPT !.at = "then", !.body = then, !.alt = else, !.after = LastBlock(c3)]
  OBVIOUS
<1>12. /\ cir' = SetInsertPoint(CreateGotoIf(c3, e.r, then, else), then)
       /\ Enter(f, Top.node.kids[2])
  BY <1>4, <1>6, <1>7, <1>8, <1>9, <1>10, <1>11 DEF IfExpr_then
<1>13. Onto(e.c, S) /\ Known(e.c, e.r)
  BY <1>1, <1>3, <1>4, <1>5, OntoLemma
<1>14. then = n + 1 /\ n \in Nat
  BY <1>5, <1>6, <1>10, <1>13, NewBlockOnto
<1>15. a = Added(e.c, "then")
  BY <1>6, <1>7 DEF Added
<1>16. Onto(a, T) /\ Len(a.blk) = n + 1 /\ Ends(a, n + 1) /\ Known(a, e.r)
  <2>1. PICK c : c = e.c
    OBVIOUS
  <2>2. /\ Onto(a, S \union {n + 1}) /\ Len(a.blk) = n + 1 /\ Ends(a, n + 1)
        /\ \A r : Known(c, r) => Known(a, r)
    <3>1. Grown(c, S, a)
      BY <1>13, <1>15, <2>1, AddedGrown
    <3>. QED
      BY <1>5, <2>1, <3>1 DEF Grown
  <2>. QED
    BY <1>5, <1>13, <2>1, <2>2
<1>17. PICK m, k : m = n + 1 /\ k = n + 2
  OBVIOUS
<1>18. /\ Onto(c2, T) /\ Len(c2.blk) = k /\ Ends(c2, m) /\ Known(c2, e.r) /\ else = k
  <2>1. Onto(a, T) /\ m = Len(a.blk) /\ Ends(a, m)
    BY <1>16, <1>17
  <2>2. Onto(c2, T) /\ Len(c2.blk) = m + 1 /\ LastBlock(c2) = m + 1 /\ Ends(c2, m) /\ Known(c2, e.r)
    BY <1>8, <1>16, <2>1, NewBlockOnto
  <2>3. m + 1 = k
    BY <1>14, <1>17
  <2>. QED
    BY <1>10, <2>2, <2>3
<1>19. /\ Onto(c3, T) /\ Len(c3.blk) = k + 1 /\ Ends(c3, m) /\ Known(c3, e.r)
  BY <1>9, <1>18, NewBlockOnto
<1>20. m \in 1..Len(c3.blk) /\ k \in 1..Len(c3.blk) /\ then = m /\ else = k
  BY <1>14, <1>17, <1>18, <1>19
<1>21. Onto(cir', T)
  BY <1>12, <1>19, <1>20, JumpOnto
<1>22. f.node = Top.node /\ f.keep = Top.keep /\ f.val = Top.val /\ f.refs = Top.refs
  BY <1>1, <1>11 DEF FrameType
<1>23. KnownBy(cir', Top)
  BY <1>1, <1>21, KnownByKept DEF Onto
<1>24. KnownBy(cir', f)
  BY <1>2, <1>22, <1>23, HoldsLemma
<1>. QED
  BY <1>2, <1>12, <1>21, <1>22, <1>24, GoOnOnto

\* The other steps of an if.
LEMMA IfResolved ==
    ASSUME Resolving, Apart,
           \/ IfExpr_gen \/ IfExpr_untyped \/ IfExpr_noElse \/ IfExpr_else
           \/ IfExpr_merge \/ IfExpr_abandon
    PROVE  Resolved'
<1>. DEFINE S == BlocksOf(cir)
<1>1. /\ Onto(cir, S) /\ Known(cir, NoRef) /\ status = "gen" /\ KnownBy(cir, Top)
      /\ Top \in FrameType(Len(cir.blk)) /\ IInv /\ frames # << >> /\ Top.node \in Nodes
      /\ ReadsRet(Top) => Known(cir, ret)
  BY ResolvingLemma, TopLemma DEF Resolving
<1>2. Top.node.kind = "if"
  BY DEF IfExpr_gen, IfExpr_untyped, IfExpr_noElse, IfExpr_else, IfExpr_merge, IfExpr_abandon, At
<1>3. Ready
  <2>1. At({"if"}, Top.at)
    BY <1>1, <1>2 DEF At
  <2>. QED
    BY <1>1, <2>1, ReadyLemma
<1>4. Top.at \in {"then", "else"} =>
         Top.alt \in 1..Len(cir.blk) /\ Top.after \in 1..Len(cir.blk)
  BY <1>1, <1>2, <1>3, HeldLemma
<1>5. /\ Top.at = "then" => Top.alt \notin S /\ Top.after \notin S \union {Top.alt}
      /\ Top.at \in {"then", "else"} => Top.after \notin S
  <2>1. /\ Pending(Top) \intersect BlocksOf(cir) = {}
        /\ Top.at = "then" => Top.alt # Top.after
    BY <1>1, <1>2, OwnLemma
  <2>2. /\ Top.at = "then" => Top.alt \in Pending(Top)
        /\ Top.at \in {"then", "else"} => Top.after \in Pending(Top)
    BY <1>2 DEF Pending
  <2>. QED
    BY <2>1, <2>2
<1>. HIDE DEF S
<1>6. ASSUME Top.at = "then"
      PROVE  /\ Onto(ElseBlock(cir), S \union {Top.alt}) /\ Len(ElseBlock(cir).blk) = Len(cir.blk)
             /\ \A r : Known(cir, r) => Known(ElseBlock(cir), r)
  <2>1. PICK d : d = IF Diverts(Top.node.kids[2]) THEN cir ELSE CreateGoto(cir, Top.after)
    OBVIOUS
  <2>2. PICK e : e = SetInsertPoint(AddBasicBlock(d, Top.alt), Top.alt)
    OBVIOUS
  <2>3. ElseBlock(cir) = e
    BY <2>1, <2>2 DEF ElseBlock
  <2>4. d = cir \/ d = CreateGoto(cir, Top.after)
    BY <2>1
  <2>5. Top.alt \in 1..Len(cir.blk) /\ Top.after \in 1..Len(cir.blk) /\ Top.alt \notin S
    BY <1>4, <1>5, <1>6
  <2>. QED
    BY <1>1, <2>2, <2>3, <2>4, <2>5, BranchOnto
<1>7. ASSUME NEW c, NEW T, Onto(c, T), Top.after \in 1..Len(c.blk), Top.after \notin T, NEW diverts
      PROVE  /\ Onto(MergeBlock(c, diverts), T \union {Top.after})
             /\ \A r : Known(c, r) => Known(MergeBlock(c, diverts), r)
  <2>1. PICK d : d = IF diverts THEN c ELSE CreateGoto(c, Top.after)
    OBVIOUS
  <2>2. PICK e : e = SetInsertPoint(AddBasicBlock(d, Top.after), Top.after)
    OBVIOUS
  <2>3. MergeBlock(c, diverts) = e
    BY <2>1, <2>2 DEF MergeBlock
  <2>4. d = c \/ d = CreateGoto(c, Top.after)
    BY <2>1
  <2>. QED
    BY <1>7, <2>2, <2>3, <2>4, BranchOnto
<1>8. CASE IfExpr_gen
  <2>. DEFINE f == [Top EXCEPT !.at = "cond"]
  <2>1. Enter(f, Top.node.kids[1]) /\ cir' = cir /\ varRefs' = varRefs /\ status' = "gen"
    BY <1>1, <1>8 DEF IfExpr_gen, Steady
  <2>2. f.node = Top.node /\ f.keep = Top.keep /\ f.val = Top.val /\ f.refs = Top.refs
    BY <1>1 DEF FrameType
  <2>. HIDE DEF f
  <2>3. KnownBy(cir, f)
    BY <1>1, <1>2, <2>2, HoldsLemma
  <2>. QED
    BY <1>1, <1>2, <2>1, <2>2, <2>3, GoOnOnto
<1>9. CASE IfExpr_untyped
  BY <1>9, AbortResolved DEF IfExpr_untyped, Resolving
<1>10. CASE IfExpr_noElse
  <2>1. PICK c : c = ElseBlock(cir)
    OBVIOUS
  <2>2. /\ Top.at = "then" /\ varRefs' = varRefs /\ status' = "gen"
        /\ EmitAndLeave(MergeBlock(c, FALSE), Instr("ConstVoid", "void", << >>))
    BY <1>1, <1>10, <2>1 DEF IfExpr_noElse, Steady, At
  <2>3. Onto(c, S \union {Top.alt}) /\ Top.after \in 1..Len(c.blk)
    BY <1>4, <1>6, <2>1, <2>2
  <2>4. PICK T : T = S \union {Top.alt}
    OBVIOUS
  <2>5. Onto(MergeBlock(c, FALSE), T \union {Top.after})
    BY <1>5, <1>7, <2>2, <2>3, <2>4
  <2>. QED
    BY <2>2, <2>5, FitsLemma, EmitOnto
<1>11. CASE IfExpr_else
  <2>. DEFINE f == [Top EXCEPT !.at = "else", !.keep = ret, !.body = cir.cur]
  <2>1. /\ Enter(f, Top.node.kids[3]) /\ cir' = ElseBlock(cir) /\ varRefs' = varRefs
        /\ status' = "gen" /\ Top.at = "then"
    BY <1>1, <1>11 DEF IfExpr_else, Steady, At
  <2>2. f.node = Top.node /\ f.keep = ret /\ f.val = Top.val /\ f.refs = Top.refs
    BY <1>1 DEF FrameType
  <2>. HIDE DEF f
  <2>3. Known(cir, ret)
    BY <1>1, <2>1 DEF ReadsRet
  <2>4. Onto(cir', S \union {Top.alt}) /\ Known(cir', ret)
    BY <1>6, <2>1, <2>3
  <2>5. KnownBy(cir', Top)
    BY <1>1, <2>4, KnownByKept DEF Onto
  <2>6. KnownBy(cir', f)
    BY <1>2, <2>2, <2>4, <2>5, HoldsLemma
  <2>. QED
    BY <1>2, <2>1, <2>2, <2>4, <2>6, GoOnOnto
<1>12. CASE IfExpr_merge
  <2>1. PICK then, else : then = Top.node.kids[2] /\ else = Top.node.kids[3]
    OBVIOUS
  <2>2. PICK e : e = IF else.ty = "void" THEN [c |-> cir, r |-> ret]
                     ELSE Convert(cir, ret, else.ty, then.ty)
    OBVIOUS
  <2>3. PICK c : c = MergeBlock(e.c, Diverts(else))
    OBVIOUS
  <2>4. PICK j : j = IF Diverts(then) \/ Diverts(else) \/ then.ty = "void"
                     THEN Instr("ConstVoid", "void", << >>)
                     ELSE PhiInstr(then.ty, Top.body, Top.keep, Top.alt, e.r)
    OBVIOUS
  <2>5. Top.at = "else" /\ EmitAndLeave(c, j) /\ varRefs' = varRefs /\ status' = "gen"
    BY <1>1, <1>12, <2>1, <2>2, <2>3, <2>4 DEF IfExpr_merge, Steady, At
  <2>6. Known(cir, ret) /\ Known(cir, Top.keep)
    BY <1>1, <2>5 DEF ReadsRet, KnownBy
  <2>7. Onto(e.c, S) /\ Known(e.c, e.r) /\ Len(e.c.blk) = Len(cir.blk) /\ Known(e.c, Top.keep)
    <3>1. CASE else.ty = "void"
      BY <1>1, <2>2, <2>6, <3>1
    <3>2. CASE else.ty # "void"
      <4>1. e = Convert(cir, ret, else.ty, then.ty)
        BY <2>2, <3>2
      <4>2. Same(cir, S, e.c) /\ Known(e.c, e.r)
        BY <1>1, <2>6, <4>1, SoundOps DEF Gives, Onto
      <4>. QED
        BY <1>1, <2>6, <4>2, OntoLemma DEF Same, Keeps
    <3>. QED
      BY <3>1, <3>2
  <2>8. Onto(c, S \union {Top.after}) /\ Known(c, e.r) /\ Known(c, Top.keep)
    BY <1>4, <1>5, <1>7, <2>3, <2>5, <2>7
  <2>9. Fits(c, j)
    <3>1. Fits(c, Instr("ConstVoid", "void", << >>))
      BY FitsLemma
    <3>2. Fits(c, PhiInstr(then.ty, Top.body, Top.keep, Top.alt, e.r))
      BY <2>8, FitsLemma
    <3>. QED
      BY <2>4, <3>1, <3>2
  <2>. QED
    BY <2>5, <2>8, <2>9, EmitOnto
<1>13. CASE IfExpr_abandon
  <2>1. frames' = Front(frames) /\ ret' = NoRef /\ cir' = cir /\ varRefs' = varRefs /\ status' = "gen"
    BY <1>1, <1>13 DEF IfExpr_abandon, Leave, Steady
  <2>. QED
    BY <1>1, <2>1, LeaveOnto
<1>. QED
  BY <1>8, <1>9, <1>10, <1>11, <1>12, <1>13

\* What a step of a loop finds.
LEMMA LoopKnown ==
    ASSUME Resolving, NEW kinds, NEW point, At(kinds, point)
    PROVE  /\ Onto(cir, BlocksOf(cir)) /\ Known(cir, NoRef) /\ status = "gen" /\ KnownBy(cir, Top)
           /\ Top \in FrameType(Len(cir.blk)) /\ IInv /\ frames # << >> /\ Top.node \in Nodes
           /\ Top.node.kind \in kinds /\ Top.at = point /\ Ready
           /\ point \in {"operand", "cond", "then", "else", "init", "step"} => Known(cir, ret)
<1>1. IInv /\ frames # << >> /\ status = "gen" /\ Top.node.kind \in kinds /\ Top.at = point
  BY DEF Resolving, At
<1>2. Ready /\ Top.node \in Nodes
  BY <1>1, ReadyLemma, TopLemma
<1>. QED
  BY <1>1, <1>2, ResolvingLemma DEF ReadsRet

\* A method returns without a reference, or calls another one, and has added
\* no instruction.
LEMMA QuietResolved ==
    ASSUME Resolving, status' = "gen", cir' = cir, varRefs' = varRefs,
           Leave(NoRef) \/ \E f, e : /\ Enter(f, e) /\ f.node = Top.node /\ f.refs = Top.refs
                                     /\ f.keep = Top.keep /\ f.val = Top.val
                                     /\ Top.node.kind \notin {"while", "function"}
    PROVE  Resolved'
<1>1. Onto(cir, BlocksOf(cir)) /\ Known(cir, NoRef) /\ KnownBy(cir, Top)
  BY ResolvingLemma
<1>2. CASE Leave(NoRef)
  <2>1. frames' = Front(frames) /\ ret' = NoRef
    BY <1>2 DEF Leave
  <2>. QED
    BY <1>1, <2>1, LeaveOnto
<1>3. ASSUME NEW f, NEW e, Enter(f, e), f.node = Top.node, f.refs = Top.refs,
             f.keep = Top.keep, f.val = Top.val, Top.node.kind \notin {"while", "function"}
      PROVE  Resolved'
  <2>1. KnownBy(cir, f)
    BY <1>1, <1>3, HoldsLemma
  <2>. QED
    BY <1>1, <1>3, <2>1, GoOnOnto
<1>. QED
  BY <1>2, <1>3

\* An infinite loop.
LEMMA LoopResolved ==
    ASSUME Resolving, LoopExpr_gen \/ LoopExpr_end \/ LoopExpr_abandon
    PROVE  Resolved'
<1>1. CASE LoopExpr_gen
  <2>1. PICK d, n : d = Added(cir, "loop_infinite") /\ n = Len(cir.blk)
    OBVIOUS
  <2>2. PICK b, S : b = n + 1 /\ S = BlocksOf(cir) \union {n + 1}
    OBVIOUS
  <2>3. PICK f : f = [Top EXCEPT !.at = "body", !.head = b]
    OBVIOUS
  <2>4. At({"loop"}, "start")
    BY <1>1 DEF LoopExpr_gen
  <2>5. /\ Onto(cir, BlocksOf(cir)) /\ status = "gen" /\ KnownBy(cir, Top)
        /\ Top \in FrameType(Len(cir.blk)) /\ Top.node.kind = "loop" /\ Top.at = "start"
    BY <2>4, LoopKnown
  <2>6. /\ Onto(d, S) /\ Ends(d, b) /\ b \in 1..Len(d.blk) /\ LastBlock(NewBlock(cir, "loop_infinite")) = b
    <3>1. /\ Onto(d, BlocksOf(cir) \union {n + 1}) /\ Ends(d, n + 1) /\ n + 1 \in 1..Len(d.blk)
      <4>1. Grown(cir, BlocksOf(cir), d)
        BY <2>1, <2>5, AddedGrown
      <4>. QED
        BY <2>1, <4>1 DEF Grown
    <3>2. LastBlock(NewBlock(cir, "loop_infinite")) = n + 1
      BY <2>1, <2>5, NewBlockOnto
    <3>. QED
      BY <2>2, <3>1, <3>2
  <2>7. /\ cir' = SetInsertPoint(CreateGoto(d, b), b) /\ Stay(f)
        /\ varRefs' = varRefs /\ ret' = ret /\ status' = "gen"
    BY <1>1, <2>1, <2>3, <2>5, <2>6 DEF LoopExpr_gen, Steady, Added
  <2>8. Onto(cir', S)
    BY <2>6, <2>7, JumpOnto
  <2>9. /\ f.node = Top.node /\ f.keep = Top.keep /\ f.val = Top.val /\ f.refs = Top.refs
        /\ f.i = Top.i /\ f.at = "body"
    BY <2>3, <2>5 DEF FrameType
  <2>10. KnownBy(cir', Top)
    BY <2>5, <2>8, KnownByKept DEF Onto
  <2>11. KnownBy(cir', f)
    BY <2>5, <2>9, <2>10, HoldsLemma
  <2>12. ReadsRet(f) => Known(cir', ret')
    <3>1. ReadsRet(f) => ReadsRet(Top)
      BY <2>5, <2>9 DEF ReadsRet
    <3>. QED
      BY <2>7, <2>8, <3>1, ResolvingLemma, OntoLemma
  <2>. QED
    BY <2>5, <2>7, <2>8, <2>9, <2>11, <2>12, GoOnOnto
<1>2. CASE LoopExpr_end
  <2>1. At({"loop"}, "endScope")
    BY <1>2 DEF LoopExpr_end, CloseScope
  <2>2. /\ Onto(cir, BlocksOf(cir)) /\ status = "gen" /\ Ready /\ IInv
        /\ Top.node.kind = "loop" /\ Top.at = "endScope"
    BY <2>1, LoopKnown
  <2>3. Top.head \in 1..Len(cir.blk)
    BY <2>2, HeldLemma
  <2>4. /\ EmitAndLeave(CreateGoto(cir, Top.head), Instr("ConstNever", "never", << >>))
        /\ varRefs' = varRefs /\ status' = "gen"
    BY <1>2, <2>2 DEF LoopExpr_end, Steady
  <2>5. Onto(CreateGoto(cir, Top.head), BlocksOf(cir))
    BY <2>2, <2>3, OntoLemma
  <2>. QED
    BY <2>4, <2>5, FitsLemma, EmitOnto
<1>3. CASE LoopExpr_abandon
  BY <1>3, QuietResolved DEF LoopExpr_abandon, Steady, Resolving
<1>. QED
  BY <1>1, <1>2, <1>3

\* Nothing is laid out after the insert point of the function that is being
\* generated but empty blocks: true of every function without a while, whose
\* code goes on in a block that was laid out before those of its body.
InsertsAtEnd ==
    status = "gen" /\ cir.fun # << >> =>
        \A j, k \in DOMAIN Last(cir.fun) :
            Last(cir.fun)[j] = cir.cur /\ k > j => cir.blk[Last(cir.fun)[k]].ins = << >>

\* So the insert point, in the function, is at its end.
LEMMA InsertsLemma ==
    ASSUME NEW c, NEW S, Sound(c, S), NEW b, InLast(c, b), NEW d, d = SetInsertPoint(c, b),
           \A j, k \in DOMAIN Last(c.fun) :
               Last(c.fun)[j] = b /\ k > j => c.blk[Last(c.fun)[k]].ins = << >>
    PROVE  Sound(d, S) /\ Keeps(c, d) /\ Len(d.blk) = Len(c.blk) /\ d.cur = b /\ d.fun = c.fun
<1>1. /\ d.fun = c.fun /\ d.blk = c.blk /\ d.cur = b
  <2>1. {"blk", "fun", "cur"} \subseteq DOMAIN c
    BY DEF Sound, Shaped
  <2>. QED
    BY <2>1 DEF SetInsertPoint
<1>2. Last(c.fun) = c.fun[Len(c.fun)]
  BY DEF Last
<1>3. PICK j \in DOMAIN c.fun[Len(c.fun)] : c.fun[Len(c.fun)][j] = b
  BY DEF InLast, ToSet
<1>4. AtEnd(d)
  BY <1>1, <1>2, <1>3 DEF AtEnd
<1>. QED
  BY <1>1, <1>4, SoundInsertPoint

\* And it was before an instruction was added there.
LEMMA InsertedLemma ==
    ASSUME NEW c, NEW S, Sound(c, S), NEW b, InLast(c, b), NEW i,
           NEW d, d = SetInsertPoint(c, b), NEW e, e = AddInstruction(d, i),
           \A j, k \in DOMAIN Last(e.fun) :
               Last(e.fun)[j] = b /\ k > j => e.blk[Last(e.fun)[k]].ins = << >>
    PROVE  Sound(d, S)
<1>1. PICK m : m = Len(c.fun)
  OBVIOUS
<1>2. /\ Shaped(c) /\ OnceIn(c) /\ DOMAIN c.fun = 1..m /\ m \in 1..m /\ S \subseteq 1..Len(c.blk)
      /\ ToSet(c.fun[m]) \subseteq S
  BY <1>1, SoundShape
<1>3. b \in 1..Len(c.blk)
  BY <1>1, <1>2 DEF InLast
<1>4. /\ d.fun = c.fun /\ d.blk = c.blk /\ d.cur = b /\ d.instr = c.instr
      /\ {"instr", "blk", "fun", "cur"} \subseteq DOMAIN d
  <2>1. {"instr", "blk", "fun", "cur"} \subseteq DOMAIN c
    BY <1>2 DEF Shaped
  <2>. QED
    BY <2>1 DEF SetInsertPoint
<1>5. Shaped(d)
  BY <1>2, <1>4 DEF Shaped
<1>6. e.fun = c.fun /\ \A x \in 1..Len(c.blk) : x # b => e.blk[x].ins = c.blk[x].ins
  <2>1. Shaped(d) /\ d.cur \in 1..Len(d.blk)
    BY <1>3, <1>4, <1>5
  <2>2. /\ e.fun = d.fun /\ \A x \in 1..Len(d.blk) : x # d.cur => e.blk[x].ins = d.blk[x].ins
    <3>1. Appended(d, i, e)
      BY <2>1, InstructionAdded
    <3>. QED
      BY ONLY <3>1 DEF Appended
  <2>. QED
    BY <1>4, <2>2
<1>7. PICK t : t = c.fun[m]
  OBVIOUS
<1>8. Last(e.fun) = t /\ Last(c.fun) = t
  BY <1>1, <1>6, <1>7 DEF Last
<1>9. ASSUME NEW j \in DOMAIN t, NEW k \in DOMAIN t, t[j] = b, k > j
      PROVE  c.blk[t[k]].ins = << >>
  <2>1. t[k] # t[j]
    <3>1. j # k
      <4>1. t \in Seq(1..Len(c.blk))
        BY <1>1, <1>2, <1>7, CodeLemma
      <4>2. j \in Nat /\ k \in Nat
        BY <4>1
      <4>. QED
        BY <1>9, <4>2
    <3>. QED
      BY <1>2, <1>7, <3>1 DEF OnceIn
  <2>2. t[k] \in 1..Len(c.blk)
    BY <1>2, <1>7 DEF ToSet
  <2>3. e.blk[t[k]].ins = << >>
    BY <1>8, <1>9
  <2>. QED
    BY <1>6, <1>9, <2>1, <2>2, <2>3
<1>. QED
  BY <1>8, <1>9, InsertsLemma

\* A while.
LEMMA WhileGenResolved ==
    ASSUME Resolving, WhileExpr_gen
    PROVE  Resolved'
<1>1. At({"while"}, "start")
  BY DEF WhileExpr_gen
<1>2. /\ Onto(cir, BlocksOf(cir)) /\ status = "gen" /\ KnownBy(cir, Top)
      /\ Top \in FrameType(Len(cir.blk)) /\ Top.node.kind = "while"
  BY <1>1, LoopKnown
<1>3. PICK c, n : c = Added(cir, "while") /\ n = Len(cir.blk)
  OBVIOUS
<1>4. PICK a, S : a = n + 1 /\ S = BlocksOf(cir) \union {n + 1}
  OBVIOUS
<1>5. Onto(c, S) /\ Ends(c, a) /\ a \in 1..Len(c.blk) /\ LastBlock(c) = a
  <2>1. Grown(cir, BlocksOf(cir), c)
    BY <1>2, <1>3, AddedGrown
  <2>. QED
    BY <1>3, <1>4, <2>1 DEF Grown
<1>6. PICK e : e = SetInsertPoint(CreateGoto(c, a), a)
  OBVIOUS
<1>7. PICK d, b : d = Added(e, "loop_while") /\ b = Len(e.blk) + 1
  OBVIOUS
<1>8. Onto(e, S)
  BY <1>5, <1>6, JumpOnto
<1>9. PICK T : T = S \union {b}
  OBVIOUS
<1>10. Onto(d, T) /\ LastBlock(d) = b /\ InLast(d, b)
  <2>1. Grown(e, S, d)
    BY <1>7, <1>8, AddedGrown
  <2>. QED
    BY <1>7, <1>9, <2>1 DEF Grown
<1>11. PICK f : f = [Top EXCEPT !.at = "cond", !.head = a, !.body = b]
  OBVIOUS
<1>12. cir' = d /\ Enter(f, Top.node.kids[1]) /\ varRefs' = varRefs /\ status' = "gen"
  BY <1>2, <1>3, <1>5, <1>6, <1>7, <1>10, <1>11 DEF WhileExpr_gen, Steady
<1>13. /\ f.node = Top.node /\ f.keep = Top.keep /\ f.val = Top.val /\ f.refs = Top.refs
       /\ f.at = "cond" /\ f.body = b
  BY <1>2, <1>11 DEF FrameType
<1>14. KnownBy(d, Top)
  BY <1>2, <1>10, KnownByKept DEF Onto
<1>15. KnownBy(d, f)
  BY <1>10, <1>13, <1>14 DEF KnownBy
<1>. QED
  BY <1>2, <1>10, <1>12, <1>13, <1>15, GoOnOnto

\* The body of a while goes on where nothing is laid out after it.
LEMMA WhileBodyResolved ==
    ASSUME Resolving, WhileExpr_body, InsertsAtEnd'
    PROVE  Resolved'
<1>1. At({"while"}, "cond")
  BY DEF WhileExpr_body
<1>2. /\ Onto(cir, BlocksOf(cir)) /\ status = "gen" /\ KnownBy(cir, Top) /\ IInv /\ Ready
      /\ Top \in FrameType(Len(cir.blk)) /\ Top.node.kind = "while" /\ Top.at = "cond"
      /\ Known(cir, ret)
  BY <1>1, LoopKnown
<1>3. PICK c, n : c = Added(cir, "afterloop_while") /\ n = Len(cir.blk)
  OBVIOUS
<1>4. PICK a, S : a = n + 1 /\ S = BlocksOf(cir) \union {n + 1}
  OBVIOUS
<1>5. /\ Onto(c, S) /\ a \in 1..Len(c.blk) /\ LastBlock(c) = a /\ InLast(c, a) /\ Known(c, ret)
      /\ \A x : InLast(cir, x) => InLast(c, x)
      /\ Len(c.blk) = n + 1 /\ n \in Nat
  <2>1. Grown(cir, BlocksOf(cir), c)
    BY <1>2, <1>3, AddedGrown
  <2>. QED
    BY <1>2, <1>3, <1>4, <2>1 DEF Grown
<1>6. PICK b : b = Top.body
  OBVIOUS
<1>7. b \in 1..Len(c.blk) /\ InLast(c, b)
  <2>1. b \in 1..Len(cir.blk) /\ InLast(cir, b)
    BY <1>2, <1>6, HeldLemma DEF KnownBy
  <2>. QED
    BY <1>3, <1>5, <2>1
<1>8. PICK d, f : /\ d = CreateGotoIf(c, ret, b, a)
                  /\ f = [Top EXCEPT !.at = "body", !.after = a]
  OBVIOUS
<1>9. /\ cir' = SetInsertPoint(d, b) /\ Enter(f, Top.node.kids[2])
      /\ varRefs' = varRefs /\ status' = "gen"
  BY <1>2, <1>3, <1>5, <1>6, <1>8 DEF WhileExpr_body, Steady
<1>10. Same(c, S, d)
  BY <1>5, <1>7, <1>8, SoundOps DEF Onto
<1>11. Onto(d, S) /\ InLast(d, b) /\ InLast(d, a) /\ Sound(d, S)
  BY <1>5, <1>7, <1>10, OntoLemma DEF Same, Keeps
<1>12. \A j, k \in DOMAIN Last(d.fun) :
          Last(d.fun)[j] = b /\ k > j => d.blk[Last(d.fun)[k]].ins = << >>
  <2>1. {"blk", "fun", "cur"} \subseteq DOMAIN d /\ d.fun # << >>
    <3>1. PICK m : m = Len(d.fun)
      OBVIOUS
    <3>2. Shaped(d) /\ d.fun # << >>
      BY <1>11, <3>1, SoundShape
    <3>. QED
      BY <3>2 DEF Shaped
  <2>2. cir'.fun = d.fun /\ cir'.blk = d.blk /\ cir'.cur = b
    BY <1>9, <2>1 DEF SetInsertPoint
  <2>. QED
    BY <1>9, <2>1, <2>2 DEF InsertsAtEnd
<1>13. Sound(cir', S) /\ Keeps(d, cir')
  BY <1>9, <1>11, <1>12, InsertsLemma
<1>14. Onto(cir', S) /\ InLast(cir', a) /\ InLast(cir', b)
  BY <1>11, <1>13, KeepsLemma DEF Onto, Keeps
<1>15. /\ f.node = Top.node /\ f.keep = Top.keep /\ f.val = Top.val /\ f.refs = Top.refs
       /\ f.at = "body" /\ f.body = b /\ f.after = a
  BY <1>2, <1>6, <1>8 DEF FrameType
<1>16. KnownBy(cir', Top)
  BY <1>2, <1>14, KnownByKept DEF Onto
<1>17. KnownBy(cir', f)
  BY <1>14, <1>15, <1>16 DEF KnownBy
<1>. QED
  BY <1>2, <1>9, <1>14, <1>15, <1>17, GoOnOnto

\* And so does the code after it.
LEMMA WhileEndResolved ==
    ASSUME Resolving, WhileExpr_end, InsertsAtEnd'
    PROVE  Resolved'
<1>1. At({"while"}, "endScope")
  BY DEF WhileExpr_end, CloseScope
<1>2. /\ Onto(cir, BlocksOf(cir)) /\ status = "gen" /\ KnownBy(cir, Top) /\ IInv /\ Ready
      /\ Top.node.kind = "while" /\ Top.at = "endScope"
  BY <1>1, LoopKnown
<1>3. PICK b, S, i0 : b = Top.after /\ S = BlocksOf(cir) /\ i0 = Instr("ConstNever", "never", << >>)
  OBVIOUS
<1>4. PICK c, d : c = CreateGoto(cir, Top.head) /\ d = SetInsertPoint(c, b)
  OBVIOUS
<1>5. EmitAndLeave(d, i0) /\ varRefs' = varRefs /\ status' = "gen"
  BY <1>2, <1>3, <1>4 DEF WhileExpr_end, Steady
<1>6. Top.head \in 1..Len(cir.blk) /\ InLast(cir, b)
  BY <1>2, <1>3, HeldLemma DEF KnownBy
<1>7. Same(cir, S, c)
  BY <1>2, <1>3, <1>4, <1>6, SoundOps DEF Onto
<1>8. Onto(c, S) /\ InLast(c, b) /\ Sound(c, S)
  BY <1>2, <1>3, <1>6, <1>7, OntoLemma DEF Same, Keeps
<1>9. cir' = AddInstruction(d, i0)
  BY <1>5 DEF EmitAndLeave, Emit
<1>10. /\ cir'.fun = c.fun /\ cir'.fun # << >> /\ cir'.cur = b
  <2>1. {"instr", "blk", "fun", "cur"} \subseteq DOMAIN c /\ c.fun # << >>
    BY <1>8, SoundShape DEF Shaped
  <2>2. /\ d.fun = c.fun /\ d.cur = b /\ {"instr", "blk", "fun", "cur"} \subseteq DOMAIN d
    BY <1>4, <2>1 DEF SetInsertPoint
  <2>. QED
    BY <1>9, <2>1, <2>2 DEF AddInstruction
<1>11. \A j, k \in DOMAIN Last(cir'.fun) :
          Last(cir'.fun)[j] = b /\ k > j => cir'.blk[Last(cir'.fun)[k]].ins = << >>
  BY <1>5, <1>10 DEF InsertsAtEnd
<1>12. Sound(d, S)
  BY <1>4, <1>8, <1>9, <1>11, InsertedLemma
<1>13. Onto(d, S)
  <2>1. Keeps(c, d)
    BY <1>4, <1>8, SoundInsertPoint
  <2>. QED
    BY <1>8, <1>12, <2>1, KeepsLemma DEF Onto
<1>14. Fits(d, i0)
  BY <1>3, FitsLemma
<1>. QED
  BY <1>5, <1>13, <1>14, EmitOnto

\* The loop variable of a for.
LEMMA ForCondResolved ==
    ASSUME Resolving, ForExpr_cond
    PROVE  Resolved'
<1>1. At({"for"}, "init")
  BY DEF ForExpr_cond
<1>2. /\ Onto(cir, BlocksOf(cir)) /\ status = "gen" /\ KnownBy(cir, Top) /\ IInv /\ frames # << >>
      /\ Top \in FrameType(Len(cir.blk)) /\ Top.node.kind = "for" /\ Known(cir, ret)
  BY <1>1, LoopKnown
<1>3. PICK start : start = Convert(cir, ret, Top.node.kids[1].ty, "val")
  OBVIOUS
<1>4. PICK var : var = Emit(start.c, Instr("VarInit", "val", <<start.r>>))
  OBVIOUS
<1>5. PICK c, n : c = Added(var.c, "loop_for_cond") /\ n = Len(var.c.blk)
  OBVIOUS
<1>6. PICK a, S : a = n + 1 /\ S = BlocksOf(cir) \union {n + 1}
  OBVIOUS
<1>7. Onto(start.c, BlocksOf(cir)) /\ Known(start.c, start.r)
  BY <1>2, <1>3, OntoLemma
<1>8. Onto(var.c, BlocksOf(cir)) /\ Known(var.c, var.r)
  BY <1>4, <1>7, FitsLemma, OntoLemma
<1>9. /\ Onto(c, S) /\ Ends(c, a) /\ a \in 1..Len(c.blk) /\ LastBlock(c) = a /\ Known(c, var.r)
  <2>1. PICK d : d = var.c
    OBVIOUS
  <2>2. /\ Onto(c, BlocksOf(cir) \union {n + 1}) /\ Ends(c, n + 1) /\ n + 1 \in 1..Len(c.blk)
        /\ LastBlock(c) = n + 1 /\ \A r : Known(d, r) => Known(c, r)
    <3>1. Grown(d, BlocksOf(cir), c)
      BY <1>5, <1>8, <2>1, AddedGrown
    <3>. QED
      BY <1>5, <2>1, <3>1 DEF Grown
  <2>. QED
    BY <1>6, <1>8, <2>1, <2>2
<1>10. PICK f : f = [Top EXCEPT !.at = "cond", !.keep = var.r, !.head = a]
  OBVIOUS
<1>11. /\ cir' = SetInsertPoint(CreateGoto(c, a), a)
       /\ varRefs' = [varRefs EXCEPT ![Top.node.x] = var.r]
       /\ Enter(f, Top.node.kids[2]) /\ status' = "gen"
  BY <1>2, <1>3, <1>4, <1>5, <1>9, <1>10 DEF ForExpr_cond, Steady
<1>12. Onto(cir', S)
  BY <1>9, <1>11, JumpOnto
<1>13. Known(cir', var.r)
  <2>1. Same(c, S, CreateGoto(c, a))
    BY <1>9, SoundOps DEF Onto
  <2>2. PICK e : e = CreateGoto(c, a)
    OBVIOUS
  <2>3. Known(e, var.r) /\ Sound(e, S)
    BY <1>9, <2>1, <2>2 DEF Same, Keeps
  <2>4. Keeps(e, cir')
    BY <1>11, <2>2, <2>3, SoundInsertPoint
  <2>. QED
    BY <2>3, <2>4 DEF Keeps
<1>14. f.node = Top.node /\ f.keep = var.r /\ f.val = Top.val /\ f.refs = Top.refs
  BY <1>2, <1>10 DEF FrameType
<1>15. KnownBy(cir', Top)
  BY <1>2, <1>12, KnownByKept DEF Onto
<1>16. KnownBy(cir', f)
  BY <1>2, <1>13, <1>14, <1>15, HoldsLemma
<1>17. \A x \in VarNames : Known(cir', varRefs'[x])
  <2>1. varRefs \in [VarNames -> InstrRef]
    BY <1>2, InsideLemma
  <2>2. \A x \in VarNames : varRefs'[x] = var.r \/ varRefs'[x] = varRefs[x]
    BY <1>11, <2>1
  <2>3. \A x \in VarNames : Known(cir', varRefs[x])
    BY <1>12, ResolvingLemma, OntoLemma
  <2>. QED
    BY <1>13, <2>2, <2>3
<1>18. Right(cir') /\ Keeps(cir, cir') /\ Resolved
  BY <1>12, OntoLemma DEF Onto, Resolving
<1>. QED
  BY <1>2, <1>11, <1>14, <1>16, <1>17, <1>18, GoOnResolved

\* The body of a for.
LEMMA ForBodyResolved ==
    ASSUME Resolving, ForExpr_body
    PROVE  Resolved'
<1>1. At({"for"}, "cond")
  BY DEF ForExpr_body
<1>2. /\ Onto(cir, BlocksOf(cir)) /\ status = "gen" /\ KnownBy(cir, Top)
      /\ Top \in FrameType(Len(cir.blk)) /\ Top.node.kind = "for" /\ Known(cir, ret)
  BY <1>1, LoopKnown
<1>3. PICK c, n : c = Added(cir, "loop_for") /\ n = Len(cir.blk)
  OBVIOUS
<1>4. PICK b, S : b = n + 1 /\ S = BlocksOf(cir) \union {n + 1}
  OBVIOUS
<1>5. /\ Onto(c, S) /\ Ends(c, b) /\ b \in 1..Len(c.blk) /\ Len(c.blk) = b /\ LastBlock(c) = b
      /\ Known(c, ret) /\ n \in Nat
  <2>1. Grown(cir, BlocksOf(cir), c)
    BY <1>2, <1>3, AddedGrown
  <2>. QED
    BY <1>2, <1>3, <1>4, <2>1 DEF Grown
<1>6. PICK d, a : d = NewBlock(c, "afterloop") /\ a = b + 1
  OBVIOUS
<1>7. Onto(d, S) /\ Ends(d, b) /\ Len(d.blk) = a /\ LastBlock(d) = a /\ Known(d, ret)
  BY <1>5, <1>6, NewBlockOnto
<1>8. a \in 1..Len(d.blk) /\ b \in 1..Len(d.blk)
  BY <1>4, <1>5, <1>6, <1>7
<1>9. PICK f : f = [Top EXCEPT !.at = "body", !.after = a]
  OBVIOUS
<1>10. /\ cir' = SetInsertPoint(CreateGotoIf(d, ret, b, a), b)
       /\ Enter(f, Top.node.kids[3]) /\ varRefs' = varRefs /\ status' = "gen"
  BY <1>2, <1>3, <1>5, <1>6, <1>7, <1>9 DEF ForExpr_body, Steady
<1>11. Onto(cir', S)
  BY <1>7, <1>8, <1>10, JumpOnto
<1>12. f.node = Top.node /\ f.keep = Top.keep /\ f.val = Top.val /\ f.refs = Top.refs
  BY <1>2, <1>9 DEF FrameType
<1>13. KnownBy(cir', Top)
  BY <1>2, <1>11, KnownByKept DEF Onto
<1>14. KnownBy(cir', f)
  BY <1>2, <1>12, <1>13, HoldsLemma
<1>. QED
  BY <1>2, <1>10, <1>11, <1>12, <1>14, GoOnOnto

\* Its end: four instructions, a branch, and the block after the loop.
LEMMA ForEndResolved ==
    ASSUME Resolving, Apart, ForExpr_end
    PROVE  Resolved'
<1>1. At({"for"}, "step")
  BY DEF ForExpr_end
<1>2. /\ Onto(cir, BlocksOf(cir)) /\ status = "gen" /\ KnownBy(cir, Top) /\ IInv /\ Ready
      /\ Top.node.kind = "for" /\ Top.at = "step" /\ Known(cir, ret) /\ frames # << >>
  BY <1>1, LoopKnown
<1>3. PICK S : S = BlocksOf(cir)
  OBVIOUS
<1>4. PICK step : step = Convert(cir, ret, Top.node.kids[4].ty, "val")
  OBVIOUS
<1>5. PICK curVar : curVar = Emit(step.c, Instr("LoadVar", "val", <<Top.keep>>))
  OBVIOUS
<1>6. PICK nextVar : nextVar = Emit(curVar.c, Instr("Binary", "val", <<curVar.r, step.r>>))
  OBVIOUS
<1>7. PICK store : store = Emit(nextVar.c, Instr("StoreVar", "void", <<Top.keep, nextVar.r>>))
  OBVIOUS
<1>8. PICK d, e : /\ d = CreateGoto(store.c, Top.head)
                  /\ e = SetInsertPoint(AddBasicBlock(d, Top.after), Top.after)
  OBVIOUS
<1>9. /\ EmitAndLeave(e, Instr("ConstVoid", "void", << >>)) /\ varRefs' = varRefs /\ status' = "gen"
  BY <1>2, <1>4, <1>5, <1>6, <1>7, <1>8 DEF ForExpr_end, Steady
<1>10. ASSUME NEW c, Sound(c, S), NEW i0, Fits(c, i0), NEW g, g = Emit(c, i0)
       PROVE  /\ Sound(g.c, S) /\ Len(g.c.blk) = Len(c.blk) /\ Known(g.c, g.r)
              /\ Keeps(c, g.c)
  BY <1>10, SoundOps DEF Gives, Same
<1>11. Known(cir, Top.keep) /\ Sound(cir, S)
  BY <1>2, <1>3 DEF KnownBy, Onto
<1>12. /\ Sound(step.c, S) /\ Len(step.c.blk) = Len(cir.blk) /\ Known(step.c, step.r)
       /\ Keeps(cir, step.c)
  BY <1>2, <1>4, <1>11, SoundOps DEF Gives, Same
<1>13. Known(step.c, Top.keep)
  BY <1>11, <1>12 DEF Keeps
<1>14. /\ Sound(curVar.c, S) /\ Len(curVar.c.blk) = Len(step.c.blk) /\ Known(curVar.c, curVar.r)
       /\ Keeps(step.c, curVar.c)
  BY <1>5, <1>10, <1>12, <1>13, FitsLemma
<1>15. Known(curVar.c, Top.keep) /\ Known(curVar.c, step.r)
  BY <1>12, <1>13, <1>14 DEF Keeps
<1>16. /\ Sound(nextVar.c, S) /\ Len(nextVar.c.blk) = Len(curVar.c.blk) /\ Known(nextVar.c, nextVar.r)
       /\ Keeps(curVar.c, nextVar.c)
  BY <1>6, <1>10, <1>14, <1>15, FitsLemma
<1>17. Known(nextVar.c, Top.keep)
  BY <1>15, <1>16 DEF Keeps
<1>18. /\ Sound(store.c, S) /\ Len(store.c.blk) = Len(nextVar.c.blk)
       /\ Keeps(nextVar.c, store.c)
  BY <1>7, <1>10, <1>16, <1>17, FitsLemma
<1>19. Onto(store.c, S) /\ Len(store.c.blk) = Len(cir.blk)
  BY <1>12, <1>14, <1>16, <1>18, KeepsLemma DEF Onto
<1>20. /\ Top.head \in 1..Len(store.c.blk) /\ Top.after \in 1..Len(store.c.blk)
       /\ Top.after \notin S
  <2>1. Top.head \in 1..Len(cir.blk) /\ Top.after \in 1..Len(cir.blk)
    BY <1>2, HeldLemma
  <2>2. Pending(Top) \intersect BlocksOf(cir) = {}
    BY <1>2, OwnLemma
  <2>3. Top.after \in Pending(Top)
    BY <1>2 DEF Pending
  <2>. QED
    BY <1>3, <1>19, <2>1, <2>2, <2>3
<1>21. Onto(e, S \union {Top.after})
  <2>1. PICK x, b, a : x = store.c /\ b = Top.head /\ a = Top.after
    OBVIOUS
  <2>2. d = CreateGoto(x, b) /\ e = SetInsertPoint(AddBasicBlock(d, a), a)
    BY <1>8, <2>1
  <2>3. Onto(x, S) /\ b \in 1..Len(x.blk) /\ a \in 1..Len(x.blk) /\ a \notin S
    BY <1>19, <1>20, <2>1
  <2>4. Onto(e, S \union {a})
    BY <2>2, <2>3, BranchOnto
  <2>. QED
    BY <2>1, <2>4
<1>. QED
  BY <1>9, <1>21, FitsLemma, EmitOnto

\* The other steps of a for.
LEMMA ForResolved ==
    ASSUME Resolving, ForExpr_gen \/ ForExpr_step \/ ForExpr_abandon
    PROVE  Resolved'
<1>1. Top \in FrameType(Len(cir.blk)) /\ status = "gen"
  BY ResolvingLemma DEF Resolving
<1>2. CASE ForExpr_gen
  <2>. DEFINE f == [Top EXCEPT !.at = "init"]
  <2>1. /\ Enter(f, Top.node.kids[1]) /\ cir' = cir /\ varRefs' = varRefs /\ status' = "gen"
        /\ Top.node.kind = "for"
    BY <1>1, <1>2 DEF ForExpr_gen, Steady, At
  <2>2. f.node = Top.node /\ f.keep = Top.keep /\ f.val = Top.val /\ f.refs = Top.refs
    BY <1>1 DEF FrameType
  <2>. HIDE DEF f
  <2>. QED
    BY <2>1, <2>2, QuietResolved
<1>3. CASE ForExpr_step
  <2>. DEFINE f == [Top EXCEPT !.at = "step"]
  <2>1. /\ Enter(f, Top.node.kids[4]) /\ cir' = cir /\ varRefs' = varRefs /\ status' = "gen"
        /\ Top.node.kind = "for"
    BY <1>1, <1>3 DEF ForExpr_step, CloseScope, Steady, At
  <2>2. f.node = Top.node /\ f.keep = Top.keep /\ f.val = Top.val /\ f.refs = Top.refs
    BY <1>1 DEF FrameType
  <2>. HIDE DEF f
  <2>. QED
    BY <2>1, <2>2, QuietResolved
<1>4. CASE ForExpr_abandon
  BY <1>1, <1>4, QuietResolved DEF ForExpr_abandon, Steady
<1>. QED
  BY <1>2, <1>3, <1>4

-----------------------------------------------------------------------------
(* Functions and the file.                                                 *)

\* A function without a block, after the functions of c.
LEMMA FunctionAppended ==
    ASSUME NEW c, Shaped(c), Blank(c), NEW m, m = Len(c.fun),
           \A F \in 1..m : InOrder(c, F), NEW d, d = AddFunction(c)
    PROVE  /\ Shaped(d) /\ Blank(d) /\ m \in Nat /\ Len(d.fun) = m + 1 /\ d.fun # << >>
           /\ DOMAIN d.fun = 1..(m + 1) /\ d.fun[m + 1] = << >> /\ Len(d.blk) = Len(c.blk)
           /\ \A F \in 1..(m + 1) : InOrder(d, F)
<1>. DEFINE n == Len(c.blk)
            Q == Seq(1..n)
<1>1. {"instr", "blk", "fun", "cur"} \subseteq DOMAIN c /\ c.fun \in Seq(Q) /\ m \in Nat
  BY DEF Shaped
<1>2. /\ DOMAIN d = DOMAIN c /\ d.instr = c.instr /\ d.blk = c.blk
      /\ d.fun = Append(c.fun, << >>)
  BY <1>1 DEF AddFunction
<1>3. << >> \in Q
  OBVIOUS
<1>. HIDE DEF Q
<1>4. /\ d.fun \in Seq(Q) /\ Len(d.fun) = m + 1 /\ d.fun[m + 1] = << >> /\ d.fun # << >>
      /\ DOMAIN d.fun = 1..(m + 1) /\ DOMAIN c.fun = 1..m /\ \A F \in 1..m : d.fun[F] = c.fun[F]
  BY <1>1, <1>2, <1>3
<1>5. Shaped(d)
  BY <1>2, <1>4 DEF Shaped, Q
<1>6. \A b \in BlocksOf(c) : b \in BlocksOf(d)
  <2>1. ASSUME NEW F \in 1..m, NEW b \in ToSet(c.fun[F])
        PROVE  b \in BlocksOf(d)
    <3>1. F \in DOMAIN d.fun /\ d.fun[F] = c.fun[F]
      BY <1>1, <1>4
    <3>. QED
      BY <2>1, <3>1 DEF BlocksOf
  <2>. QED
    BY <1>4, <2>1 DEF BlocksOf
<1>7. Blank(d)
  BY <1>2, <1>6 DEF Blank
<1>8. ASSUME NEW F \in 1..(m + 1)
      PROVE  InOrder(d, F)
  <2>1. CASE F = m + 1
    <3>1. Code(d, F) = FlattenSeq([k \in DOMAIN d.fun[F] |-> d.blk[d.fun[F][k]].ins])
      BY DEF Code
    <3>2. [k \in DOMAIN d.fun[F] |-> d.blk[d.fun[F][k]].ins] = << >>
      BY <1>4, <2>1
    <3>3. FlattenSeq(<< >>) = << >>
      BY DEF FlattenSeq
    <3>4. Code(d, F) = << >>
      BY <3>1, <3>2, <3>3
    <3>5. Len(Code(d, F)) = 0
      BY <3>4
    <3>. QED
      BY <3>5 DEF InOrder
  <2>2. CASE F # m + 1
    <3>1. F \in 1..m /\ d.fun[F] = c.fun[F]
      BY <1>1, <1>4, <2>2
    <3>2. Code(d, F) = Code(c, F)
      BY <1>2, <3>1 DEF Code
    <3>. QED
      BY <1>2, <3>1, <3>2 DEF InOrder
  <2>. QED
    BY <2>1, <2>2
<1>. QED
  BY <1>1, <1>2, <1>4, <1>5, <1>7, <1>8

\* The entry block of a function: in the file it begins, positions are right.
LEMMA SoundEntry ==
    ASSUME NEW c, Good(c), OnceIn(c), Blank(c), \A F \in 1..Len(c.fun) : InOrder(c, F),
           NEW n, n = Len(c.blk), NEW g, g = Added(AddFunction(c), "entry"),
           NEW e, e = SetInsertPoint(g, LastBlock(g))
    PROVE  Sound(e, BlocksOf(c) \union {n + 1})
<1>1. PICK S : S = BlocksOf(c)
  OBVIOUS
<1>2. PICK m : m = Len(c.fun)
  OBVIOUS
<1>3. PICK a : a = AddFunction(c)
  OBVIOUS
<1>4. PICK b : b = NewBlock(a, "entry")
  OBVIOUS
<1>5. Shaped(c) /\ n \in Nat
  BY GoodShaped
<1>6. /\ Shaped(a) /\ Blank(a) /\ m \in Nat /\ Len(a.fun) = m + 1 /\ a.fun # << >>
      /\ DOMAIN a.fun = 1..(m + 1) /\ a.fun[m + 1] = << >> /\ Len(a.blk) = n
      /\ \A F \in 1..(m + 1) : InOrder(a, F)
  BY <1>2, <1>3, <1>5, FunctionAppended
<1>7. Laid(a, S)
  BY <1>1, <1>3, NewFunctionLaid
<1>8. /\ Alike(a, b) /\ b.cur = a.cur /\ Len(b.blk) = n + 1 /\ LastBlock(b) = n + 1
      /\ b.blk[n + 1].ins = << >>
  <2>1. n = Len(a.blk) /\ Shaped(a)
    BY <1>6
  <2>. QED
    BY <1>4, <2>1, NewBlockAlike
<1>9. Laid(b, S)
  BY <1>4, <1>7, LayoutLemma
<1>10. S \subseteq 1..n
  <2>1. \A F \in 1..(m + 1) : ToSet(a.fun[F]) \subseteq 1..Len(a.blk)
    <3>1. ASSUME NEW F \in 1..(m + 1)
          PROVE  ToSet(a.fun[F]) \subseteq 1..Len(a.blk)
      <4>1. a.fun[F] \in Seq(1..Len(a.blk))
        BY <1>6, CodeLemma
      <4>. QED
        BY <4>1 DEF ToSet
    <3>. QED
      BY <3>1
  <2>2. BlocksOf(a) \subseteq 1..n
    BY <1>6, <2>1 DEF BlocksOf
  <2>. QED
    BY <1>7, <2>2 DEF Laid
<1>11. /\ Shaped(b) /\ b.fun = a.fun /\ b.fun # << >> /\ Len(b.fun) = m + 1 /\ n + 1 \in 1..Len(b.blk)
       /\ n + 1 \in Nat /\ n + 1 \notin S
  BY <1>5, <1>6, <1>8, <1>10 DEF Alike
<1>12. \A F \in 1..(m + 1) : Code(b, F) = Code(a, F) /\ InOrder(b, F)
  <2>1. ASSUME NEW F \in 1..(m + 1)
        PROVE  Code(b, F) = Code(a, F) /\ InOrder(b, F)
    <3>1. Code(b, F) = Code(a, F)
      BY <1>6, <1>8, AlikeCode
    <3>2. b.instr = a.instr /\ InOrder(a, F)
      BY <1>6, <1>8 DEF Alike
    <3>. QED
      BY <3>1, <3>2 DEF InOrder
  <2>. QED
    BY <2>1
<1>13. Blank(b)
  <2>1. \A k \in 1..n : k \notin S => a.blk[k].ins = << >>
    BY <1>6, <1>7 DEF Blank, Laid
  <2>2. BlocksOf(b) = S
    BY <1>9 DEF Laid
  <2>3. \A k \in 1..n : b.blk[k].ins = a.blk[k].ins
    BY <1>6, <1>8 DEF Alike
  <2>4. \A k \in 1..(n + 1) : k \in 1..n \/ k = n + 1
    BY ONLY <1>5
  <2>. QED
    BY <1>8, <2>1, <2>2, <2>3, <2>4 DEF Blank
<1>14. PICK d : d = AddBasicBlock(b, n + 1)
  OBVIOUS
<1>15. LaidOut(b, n + 1, d)
  BY <1>11, <1>14, BlockPlaced
<1>16. /\ Shaped(d) /\ Len(d.blk) = n + 1 /\ Len(d.fun) = m + 1 /\ DOMAIN d.fun = 1..(m + 1)
       /\ \A k \in 1..(n + 1) : d.blk[k].ins = b.blk[k].ins
       /\ d.fun[m + 1] = Append(<< >>, n + 1)
  BY <1>6, <1>8, <1>11, <1>15 DEF LaidOut
<1>17. /\ \A F \in 1..(m + 1) : Code(d, F) = Code(b, F) /\ InOrder(d, F)
       /\ InstructionNb(d, m + 1) = InstructionNb(b, m + 1)
  BY <1>8, <1>11, <1>12, <1>14, <1>16, PlacedCode
<1>18. Laid(d, S \union {n + 1})
  BY <1>9, <1>11, <1>14, AddLemma
<1>19. Blank(d)
  <2>1. BlocksOf(b) = S /\ BlocksOf(d) = S \union {n + 1}
    BY <1>9, <1>18 DEF Laid
  <2>. QED
    BY <1>8, <1>13, <1>16, <2>1 DEF Blank
<1>20. e = SetInsertPoint(d, n + 1)
  <2>1. g = d
    BY <1>3, <1>4, <1>8, <1>14 DEF Added
  <2>. QED
    BY <1>16, <2>1 DEF LastBlock
<1>21. /\ DOMAIN e = DOMAIN d /\ e.instr = d.instr /\ e.blk = d.blk /\ e.fun = d.fun /\ e.cur = n + 1
  BY <1>16, <1>20 DEF SetInsertPoint, Shaped
<1>22. Shaped(e) /\ Blank(e)
  <2>1. Shaped(e)
    BY <1>16, <1>21 DEF Shaped
  <2>2. BlocksOf(e) = BlocksOf(d)
    BY <1>21 DEF BlocksOf
  <2>. QED
    BY <1>19, <1>21, <2>1, <2>2 DEF Blank
<1>23. Laid(e, S \union {n + 1})
  BY <1>18, <1>20, LayoutLemma
<1>24. AtEnd(e)
  <2>1. PICK t : t = e.fun[Len(e.fun)]
    OBVIOUS
  <2>2. t = Append(<< >>, n + 1)
    BY <1>16, <1>21, <2>1
  <2>3. DOMAIN t = {1} /\ t[1] = n + 1
    BY <2>2
  <2>. QED
    BY <1>21, <2>1, <2>3 DEF AtEnd
<1>25. \A F \in 1..(m + 1) : Code(e, F) = Code(d, F) /\ InOrder(e, F)
  <2>1. \A F : Code(e, F) = Code(d, F)
    BY <1>21 DEF Code
  <2>. QED
    BY <1>17, <1>21, <2>1 DEF InOrder
<1>26. Counted(e)
  <2>1. Len(Here(e)) = 0
    <3>1. m + 1 \in 1..(m + 1)
      BY <1>6
    <3>2. Here(e) = Code(a, m + 1)
      BY <1>12, <1>16, <1>17, <1>21, <1>25, <3>1 DEF Here
    <3>3. [k \in DOMAIN a.fun[m + 1] |-> a.blk[a.fun[m + 1][k]].ins] = << >>
      BY <1>6
    <3>4. FlattenSeq(<< >>) = << >>
      BY DEF FlattenSeq
    <3>5. Code(a, m + 1) = << >>
      BY <3>3, <3>4 DEF Code
    <3>. QED
      BY <3>2, <3>5
  <2>2. InstructionNb(b, m + 1) = 0
    <3>1. b.fun[m + 1] = << >>
      BY <1>6, <1>11
    <3>2. ToSet(b.fun[m + 1]) = {}
      BY <3>1 DEF ToSet
    <3>3. UNION {ToSet(b.blk[k].ins) : k \in ToSet(b.fun[m + 1])} = {}
      BY <3>2
    <3>. QED
      BY <3>3, FS_EmptySet DEF InstructionNb
  <2>3. InstructionNb(e, m + 1) = InstructionNb(d, m + 1)
    <3>1. PICK T : T = ToSet(d.fun[m + 1])
      OBVIOUS
    <3>2. {ToSet(e.blk[b0].ins) : b0 \in T} = {ToSet(d.blk[b0].ins) : b0 \in T}
      BY <1>21
    <3>. QED
      BY <1>21, <3>1, <3>2 DEF InstructionNb
  <2>. QED
    BY <1>16, <1>17, <1>21, <2>1, <2>2, <2>3 DEF Counted
<1>27. Sound(e, S \union {n + 1})
  BY <1>16, <1>21, <1>22, <1>23, <1>24, <1>25, <1>26 DEF Sound
<1>. QED
  BY <1>1, <1>27

\* The beginning of a function.
LEMMA FunctionGenResolved ==
    ASSUME IInv, Apart, Resolved, FunctionAST_gen
    PROVE  Resolved'
<1>. DEFINE g == Activation(prog[fn'].node, breaks, Len(scopes))
<1>1. PICK f : f = [g EXCEPT !.at = "args"]
  OBVIOUS
<1>2. PICK n, a : n = Len(cir.blk) /\ a = Added(AddFunction(cir), "entry")
  OBVIOUS
<1>3. /\ cir' = SetInsertPoint(a, LastBlock(a)) /\ frames' = <<f>> /\ status = "gen"
      /\ status' = "gen" /\ frames = << >> /\ varRefs' = [x \in VarNames |-> NoRef]
  BY <1>1, <1>2 DEF FunctionAST_gen
<1>4. Good(cir) /\ OnceIn(cir)
  BY IInvParts, OnceLemma DEF RestOK, Apart
<1>5. Blank(cir) /\ \A F \in 1..Len(cir.fun) : InOrder(cir, F)
  BY <1>3 DEF Resolved, OrderedAlready
<1>6. PICK S : S = BlocksOf(cir) \union {n + 1}
  OBVIOUS
<1>7. Sound(cir', S)
  BY <1>2, <1>3, <1>4, <1>5, <1>6, SoundEntry
<1>8. Right(cir') /\ \A c : Known(c, NoRef)
  BY <1>7, RightLemma DEF Known, IsEmpty, NoRef
<1>9. f.at = "args" /\ f.keep = NoRef /\ f.val = NoRef /\ f.refs = << >> /\ f.i = 0
  BY <1>1 DEF Activation
<1>10. KnownBy(cir', f) /\ ~ReadsRet(f)
  <2>1. ToSet(f.refs) = {}
    BY <1>9 DEF ToSet
  <2>. QED
    BY <1>8, <1>9, <2>1 DEF KnownBy, ReadsRet
<1>11. /\ DOMAIN frames' = {1} /\ frames'[1] = f /\ Last(frames') = f /\ frames' # << >>
  BY <1>3 DEF Last
<1>12. \A x \in VarNames : Known(cir', varRefs'[x])
  BY <1>3, <1>8
<1>13. Inside'
  BY <1>8, <1>10, <1>11, <1>12
     DEF Inside, Right, Sound, Shaped, Laid, OnceIn, BlocksOf, Blank, AtEnd, Counted,
         InstructionNb, Here, Code, InOrder, Known, KnownBy, InLast, ReadsRet, Top
<1>. QED
  BY <1>3, <1>11, <1>13 DEF Resolved

\* An argument, and the body.
LEMMA FunctionResolved ==
    ASSUME Resolving, FunctionAST_arg \/ FunctionAST_body
    PROVE  Resolved'
<1>1. /\ Onto(cir, BlocksOf(cir)) /\ KnownBy(cir, Top) /\ IInv /\ Resolved /\ status = "gen"
      /\ frames # << >> /\ \A x \in VarNames : Known(cir, varRefs[x])
      /\ Top \in FrameType(Len(cir.blk))
  BY ResolvingLemma DEF Resolving
<1>2. Top.node.kind = "function" /\ Top.at = "args" /\ Top.i \in Nat
  BY <1>1, TopLemma DEF FunctionAST_arg, FunctionAST_body, At
<1>3. CASE FunctionAST_arg
  <2>1. PICK e : e = Emit(cir, Instr("InitArg", "ptr", << >>))
    OBVIOUS
  <2>2. PICK x : x = prog[fn].args[Top.i + 1]
    OBVIOUS
  <2>3. PICK f : f = [Top EXCEPT !.i = @ + 1]
    OBVIOUS
  <2>4. /\ cir' = e.c /\ varRefs' = [varRefs EXCEPT ![x] = e.r] /\ Stay(f) /\ status' = "gen"
    BY <1>1, <1>3, <2>1, <2>2, <2>3 DEF FunctionAST_arg, Steady
  <2>5. Onto(e.c, BlocksOf(cir)) /\ Known(e.c, e.r)
    BY <1>1, <2>1, FitsLemma, OntoLemma
  <2>6. Right(cir') /\ Keeps(cir, cir')
    BY <2>4, <2>5, OntoLemma DEF Onto
  <2>7. \A y \in VarNames : Known(cir', varRefs'[y])
    <3>1. varRefs \in [VarNames -> InstrRef]
      BY <1>1, IInvParts DEF RestOK
    <3>2. ASSUME NEW y \in VarNames
          PROVE  varRefs'[y] = varRefs[y] \/ varRefs'[y] = e.r
      BY <2>4, <3>1
    <3>3. \A r : Known(cir, r) => Known(cir', r)
      BY <2>6 DEF Keeps
    <3>. QED
      BY <1>1, <2>4, <2>5, <3>2, <3>3
  <2>8. f.node = Top.node /\ f.keep = Top.keep /\ f.val = Top.val /\ f.refs = Top.refs /\ f.at = "args"
    BY <1>1, <1>2, <2>3 DEF FrameType
  <2>9. KnownBy(cir', f) /\ ~ReadsRet(f)
    <3>1. KnownBy(cir', Top)
      BY <1>1, <2>6, KnownByKept
    <3>2. KnownBy(cir', f)
      BY <1>2, <2>8, <3>1, HoldsLemma
    <3>. QED
      BY <1>2, <2>8, <3>2 DEF ReadsRet
  <2>. QED
    BY <1>1, <1>2, <2>4, <2>6, <2>7, <2>8, <2>9, GoOnResolved
<1>4. CASE FunctionAST_body
  <2>1. PICK f : f = [Top EXCEPT !.at = "body", !.i = 0]
    OBVIOUS
  <2>2. cir' = cir /\ varRefs' = varRefs /\ Stay(f) /\ status' = "gen"
    BY <1>1, <1>4, <2>1 DEF FunctionAST_body, Steady
  <2>3. /\ f.node = Top.node /\ f.keep = Top.keep /\ f.val = Top.val /\ f.refs = Top.refs
        /\ f.at = "body" /\ f.i = 0
    BY <1>1, <2>1 DEF FrameType
  <2>4. KnownBy(cir, f) /\ ~ReadsRet(f)
    BY <1>1, <1>2, <2>3, HoldsLemma DEF ReadsRet
  <2>. QED
    BY <1>1, <1>2, <2>2, <2>3, <2>4, GoOnOnto
<1>. QED
  BY <1>3, <1>4

\* The end of a function.
LEMMA FunctionEndResolved ==
    ASSUME Resolving, FunctionAST_end
    PROVE  Resolved'
<1>1. PICK S : S = BlocksOf(cir)
  OBVIOUS
<1>2. /\ Onto(cir, S) /\ KnownBy(cir, Top) /\ IInv /\ Resolved /\ status = "gen"
      /\ frames # << >> /\ \A x \in VarNames : Known(cir, varRefs[x])
      /\ Top.node.kind = "function" /\ Top.at # "start" => Len(frames) = 1
  BY <1>1, ResolvingLemma DEF Resolving
<1>3. PICK e : e = Returned
  OBVIOUS
<1>4. /\ Top.node.kind = "function" /\ Top.at = "endScope" /\ cir' = Epilogue(e)
      /\ frames' = Front(frames) /\ status' = "gen" /\ varRefs' = varRefs
  BY <1>2, <1>3 DEF FunctionAST_end, CloseScope, At, Steady
<1>5. Onto(e.c, S) /\ Known(e.c, e.r)
  <2>1. \/ e = Emit(cir, Instr("ConstVoid", "void", << >>))
        \/ e = Emit(cir, Instr("ConstNumber", "val", << >>))
        \/ e.c = cir /\ e.r = Top.val
    BY <1>3 DEF Returned
  <2>. QED
    BY <1>2, <2>1, FitsLemma, OntoLemma DEF KnownBy
<1>6. PICK v : v = IF TypeAt(e.c, e.r) = Top.node.ty THEN e
                   ELSE Emit(e.c, Instr("Cast", Top.node.ty, <<e.r>>))
  OBVIOUS
<1>7. Onto(v.c, S) /\ Known(v.c, v.r)
  <2>1. v = e \/ v = Emit(e.c, Instr("Cast", Top.node.ty, <<e.r>>))
    BY <1>6
  <2>. QED
    BY <1>5, <2>1, FitsLemma, OntoLemma
<1>8. Epilogue(e) \in {AddInstruction(e.c, Instr("ConstNever", "never", << >>)), e.c,
                       AddInstruction(v.c, Instr("Return", "never", <<v.r>>))}
  BY <1>6 DEF Epilogue
<1>9. /\ Onto(AddInstruction(e.c, Instr("ConstNever", "never", << >>)), S)
      /\ Onto(AddInstruction(v.c, Instr("Return", "never", <<v.r>>)), S)
  BY <1>5, <1>7, FitsLemma, OntoLemma
<1>10. Onto(cir', S)
  BY <1>4, <1>5, <1>8, <1>9
<1>11. Right(cir') /\ Keeps(cir, cir') /\ \A x \in VarNames : Known(cir', varRefs'[x])
  BY <1>2, <1>4, <1>10, OntoLemma DEF Onto
<1>. QED
  BY <1>2, <1>4, <1>11, LeaveResolved

\* The end of a function whose body gives no value, and what follows the
\* generation; fixFileCIR is in FixResolved.
LEMMA FileResolved ==
    ASSUME Resolved, FunctionAST_noValue \/ FileAST_generated \/ checkFileCIR \/ UNCHANGED vars
    PROVE  Resolved'
<1>1. /\ cir' = cir /\ frames' = frames
  BY DEF FunctionAST_noValue, FileAST_generated, checkFileCIR, vars
<1>2. OrderedAlready /\ (status' = "gen" => status = "gen") => OrderedAlready'
  <2>1. \A F : InOrder(cir, F) <=> InOrder(cir', F)
    BY <1>1
  <2>2. Blank(cir) <=> Blank(cir')
    BY <1>1
  <2>3. Len(cir'.fun) = Len(cir.fun)
    BY <1>1
  <2>. QED
    BY <2>1, <2>2, <2>3 DEF OrderedAlready
<1>3. CASE FunctionAST_noValue
  BY <1>3 DEF Resolved, FunctionAST_noValue
<1>4. CASE FileAST_generated
  BY <1>1, <1>2, <1>4 DEF Resolved, FileAST_generated
<1>5. CASE checkFileCIR
  BY <1>1, <1>2, <1>5 DEF Resolved, checkFileCIR
<1>6. CASE UNCHANGED vars
  <2>1. status' = status /\ varRefs' = varRefs /\ ret' = ret
    BY <1>6 DEF vars
  <2>2. Inside => Inside'
    <3>1. Right(cir) => Right(cir')
      BY <1>1
    <3>2. \A r : Known(cir, r) => Known(cir', r)
      BY <1>1
    <3>3. \A f : KnownBy(cir, f) => KnownBy(cir', f)
      BY <1>1
    <3>. QED
      BY <1>1, <2>1, <3>1, <3>2, <3>3 DEF Inside, ReadsRet, Top
  <2>. QED
    BY <1>1, <1>2, <2>1, <2>2 DEF Resolved
<1>. QED
  BY <1>3, <1>4, <1>5, <1>6

\* What fixFileCIR erases comes last in its function: true of a file in which
\* a block that goes on after a never is followed by empty blocks only.
ErasesAtEnd ==
    status = "generated" =>
        \A F \in DOMAIN cir.fun : IsPrefix(Code(FixFile(cir), F), Code(cir, F))

\* Then the operands that are left are where they were.
LEMMA FixResolved ==
    ASSUME IInv, IInv', Resolved, ErasesAtEnd, fixFileCIR
    PROVE  Resolved'
<1>1. /\ status = "generated" /\ cir' = FixFile(cir) /\ status' = "fixed" /\ frames' = frames
  BY DEF fixFileCIR
<1>2. frames = << >> /\ \A F \in 1..Len(cir.fun) : InOrder(cir, F)
  BY <1>1 DEF Resolved, OrderedAlready
<1>3. Good(cir) /\ Good(cir')
  BY IInvParts DEF IInv, TypeOK, BranchesRecorded, Good
<1>4. /\ Shaped(cir) /\ Shaped(cir') /\ DOMAIN cir.fun = 1..Len(cir.fun)
  BY <1>3, GoodShaped
<1>5. cir'.fun = cir.fun /\ cir'.instr = cir.instr
  BY <1>1, <1>4 DEF FixFile, Shaped
<1>6. ASSUME NEW F \in 1..Len(cir.fun)
      PROVE  InOrder(cir', F)
  <2>1. PICK s, t, m : s = Code(cir', F) /\ t = Code(cir, F) /\ m = Len(s)
    OBVIOUS
  <2>2. s \in Seq(1..Len(cir.instr)) /\ t \in Seq(1..Len(cir.instr))
    BY <1>4, <1>5, <2>1, CodeLemma
  <2>3. m \in Nat /\ Len(t) \in Nat /\ m <= Len(t) /\ \A k \in 1..m : s[k] = t[k]
    <3>1. IsPrefix(s, t)
      BY <1>1, <1>4, <2>1 DEF ErasesAtEnd
    <3>2. /\ m \in Nat /\ Len(t) \in Nat /\ m <= Len(t)
          /\ SubSeq(s, 1, m) = SubSeq(t, 1, m)
      BY <2>1, <2>2, <3>1 DEF IsPrefix
    <3>3. \A k \in 1..m : SubSeq(s, 1, m)[k] = s[k] /\ SubSeq(t, 1, m)[k] = t[k]
      BY <2>1, <2>2, <3>2
    <3>. QED
      BY <3>2, <3>3
  <2>4. InOrder(cir, F)
    BY <1>2
  <2>5. ASSUME NEW k \in 1..m, NEW u \in ToSet(cir.instr[s[k]].uses)
        PROVE  IsEmpty(u) \/ (u.pos + 1 \in 1..(k - 1) /\ s[u.pos + 1] = u.def)
    <3>1. k \in 1..Len(t) /\ u \in ToSet(cir.instr[t[k]].uses)
      BY <2>3, <2>5
    <3>2. IsEmpty(u) \/ (u.pos + 1 \in 1..(k - 1) /\ t[u.pos + 1] = u.def)
      BY <2>1, <2>4, <3>1 DEF InOrder
    <3>3. \A p \in 1..(k - 1) : p \in 1..m
      BY <2>3, <2>5
    <3>. QED
      BY <2>3, <3>2, <3>3
  <2>. QED
    BY <1>5, <2>1, <2>5 DEF InOrder
<1>. QED
  BY <1>1, <1>2, <1>5, <1>6 DEF Resolved, OrderedAlready, InOrder, Code

\* A step of a method needs one.
LEMMA RunningLemma ==
    ASSUME Simple \/ Memory \/ Control \/ FunctionAST_arg \/ FunctionAST_body \/ FunctionAST_end
    PROVE  status = "gen" /\ frames # << >>
<1>1. CASE Simple
  BY <1>1 DEF Simple, Constant, VariableExpr_gen, Operand, VarExpr_gen, Assign_gen,
              BinaryExpr_gen, Argument, Argument_missing, CallExpr_gen, Return_gen, DeferExpr_gen,
              MatchExpr_gen, LabelExpr_gen, GotoExpr_gen, BreakExpr_gen, BreakExpr_dangling,
              BreakExpr_error, Evaluated, At
<1>2. CASE Memory
  BY <1>2 DEF Memory, AddrExpr_gen, DerefExpr_gen, ReadElement, ReadMember, WriteElement,
              WriteMember, StructMemberCallExpr_gen, NotImplemented, SizeofExpr_gen,
              CastExpr_gen, VectorMember, ConstantVectorExpr_gen, Operand_missing,
              AsmExpr_gen, Evaluated, At
<1>3. CASE Control
  BY <1>3 DEF Control, ScopeExpr_gen, NextStatement, EndScope, RunDefer, ScopeExpr_end,
              IfExpr_gen, IfExpr_then, IfExpr_untyped, IfExpr_noElse, IfExpr_else, IfExpr_merge,
              IfExpr_abandon, LoopExpr_gen, LoopExpr_end, LoopExpr_abandon, WhileExpr_gen,
              WhileExpr_body, WhileExpr_abandon, WhileExpr_end, ForExpr_gen, ForExpr_cond,
              ForExpr_body, ForExpr_step, ForExpr_end, ForExpr_abandon, CloseScope, At
<1>4. CASE FunctionAST_arg \/ FunctionAST_body \/ FunctionAST_end
  BY <1>4 DEF FunctionAST_arg, FunctionAST_body, FunctionAST_end, CloseScope, At
<1>. QED
  BY <1>1, <1>2, <1>3, <1>4

\* Every step, with what is assumed of the file where a while goes on in a
\* block laid out earlier and where instructions are erased.
LEMMA NextResolved ==
    ASSUME IInv, Apart, Resolved, [Next]_vars, ErasesAtEnd,
           InsertsAtEnd' \/ ~(WhileExpr_body \/ WhileExpr_end)
    PROVE  Resolved'
<1>1. CASE Simple \/ Memory
  <2>1. Resolving
    BY <1>1, RunningLemma DEF Resolving
  <2>. QED
    BY <1>1, <2>1, SimpleResolved, MemoryResolved, LabelResolved
<1>2. CASE Control
  <2>1. Resolving
    BY <1>2, RunningLemma DEF Resolving
  <2>2. CASE WhileExpr_abandon
    <3>1. cir' = cir /\ varRefs' = varRefs /\ status' = "gen" /\ Leave(NoRef)
      BY <2>1, <2>2 DEF WhileExpr_abandon, Steady, Resolving
    <3>. QED
      BY <2>1, <3>1, QuietResolved
  <2>3. CASE WhileExpr_gen \/ WhileExpr_body \/ WhileExpr_end
    BY <2>1, <2>3, WhileGenResolved, WhileBodyResolved, WhileEndResolved
  <2>4. CASE ScopeExpr_gen \/ NextStatement \/ EndScope \/ RunDefer \/ ScopeExpr_end
    BY <2>1, <2>4, ScopeResolved
  <2>5. CASE \/ IfExpr_gen \/ IfExpr_then \/ IfExpr_untyped \/ IfExpr_noElse
             \/ IfExpr_else \/ IfExpr_merge \/ IfExpr_abandon
    BY <2>1, <2>5, IfThenResolved, IfResolved
  <2>6. CASE LoopExpr_gen \/ LoopExpr_end \/ LoopExpr_abandon
    BY <2>1, <2>6, LoopResolved
  <2>7. CASE ForExpr_gen \/ ForExpr_cond \/ ForExpr_body \/ ForExpr_step
             \/ ForExpr_end \/ ForExpr_abandon
    BY <2>1, <2>7, ForResolved, ForCondResolved, ForBodyResolved, ForEndResolved
  <2>. QED
    BY <1>2, <2>2, <2>3, <2>4, <2>5, <2>6, <2>7 DEF Control
<1>3. CASE File
  <2>1. CASE FunctionAST_gen
    BY <2>1, FunctionGenResolved
  <2>2. CASE FunctionAST_arg \/ FunctionAST_body \/ FunctionAST_end
    <3>1. Resolving
      BY <2>2, RunningLemma DEF Resolving
    <3>. QED
      BY <2>2, <3>1, FunctionResolved, FunctionEndResolved
  <2>3. CASE fixFileCIR
    BY <2>3, FixResolved, NextLemma
  <2>4. CASE FunctionAST_noValue \/ FileAST_generated \/ checkFileCIR
    BY <2>4, FileResolved
  <2>. QED
    BY <1>3, <2>1, <2>2, <2>3, <2>4 DEF File
<1>4. CASE UNCHANGED vars
  BY <1>4, FileResolved
<1>. QED
  BY <1>1, <1>2, <1>3, <1>4 DEF Next, Done

LEMMA InitResolved == Init => Resolved
<1>. SUFFICES ASSUME Init
              PROVE  Resolved
  OBVIOUS
<1>1. cir = EmptyFile /\ frames = << >> /\ status = "gen"
  BY DEF Init
<1>2. Len(cir.fun) = 0 /\ Len(cir.blk) = 0
  BY <1>1 DEF EmptyFile
<1>. QED
  BY <1>1, <1>2 DEF Resolved, OrderedAlready, Blank

-----------------------------------------------------------------------------
(* The theorems.                                                           *)

\* No operand is missing, but the value of a variable that is only declared.
OperandsGiven ==
    status \in {"fixed", "checked"} =>
        \A F \in DOMAIN cir.fun : \A k \in DOMAIN Code(cir, F) :
            \A u \in ToSet(cir.instr[Code(cir, F)[k]].uses) :
                IsEmpty(u) => cir.instr[Code(cir, F)[k]].op = "VarInit"

\* The program has no while.
NoWhile == \A e \in Nodes : e.kind # "while"

\* What the invariant says of the reference that is looked up.
LEMMA LookupResolved ==
    ASSUME IInv, Resolved, At({"cast", "vector"}, "operand"), ~IsEmpty(ret)
    PROVE  InstructionAt(cir, CurrentFunction(cir), ret.pos) = ret.def
<1>1. Resolving /\ ReadsRet(Top)
  BY DEF Resolving, At, ReadsRet
<1>2. ret.pos + 1 \in 1..Len(Here(cir)) /\ Here(cir)[ret.pos + 1] = ret.def
  BY <1>1, ResolvingLemma DEF Known
<1>3. PICK m : m = Len(cir.fun)
  OBVIOUS
<1>4. Shaped(cir) /\ m \in 1..m
  BY <1>1, <1>3, SoundShape, ResolvingLemma DEF Onto
<1>5. Code(cir, m) \in Seq(1..Len(cir.instr))
  BY <1>3, <1>4, CodeLemma
<1>6. DOMAIN Code(cir, m) = 1..Len(Code(cir, m))
  BY <1>5
<1>. QED
  BY <1>2, <1>3, <1>6 DEF InstructionAt, CurrentFunction, Here

\* And of all operands.
LEMMA ResolvedOperands ==
    ASSUME IInv, Resolved, OperandsGiven
    PROVE  OperandsResolve
<1>1. ASSUME status \in {"fixed", "checked"}, NEW F \in DOMAIN cir.fun,
             NEW k \in DOMAIN Code(cir, F), NEW u \in ToSet(cir.instr[Code(cir, F)[k]].uses)
      PROVE  \/ u.pos + 1 \in 1..(k - 1) /\ Code(cir, F)[u.pos + 1] = u.def
             \/ cir.instr[Code(cir, F)[k]].op = "VarInit" /\ IsEmpty(u)
  <2>1. Shaped(cir) /\ DOMAIN cir.fun = 1..Len(cir.fun)
    BY IInvParts, GoodShaped DEF RestOK
  <2>2. InOrder(cir, F)
    BY <1>1, <2>1 DEF Resolved, OrderedAlready
  <2>3. DOMAIN Code(cir, F) = 1..Len(Code(cir, F))
    BY <1>1, <2>1, CodeLemma
  <2>4. IsEmpty(u) \/ (u.pos + 1 \in 1..(k - 1) /\ Code(cir, F)[u.pos + 1] = u.def)
    BY <1>1, <2>2, <2>3 DEF InOrder
  <2>. QED
    BY <1>1, <2>4 DEF OperandsGiven
<1>. QED
  BY <1>1, LookupResolved DEF OperandsResolve

\* Whatever the file: if nothing is ever laid out after the insert point but
\* empty blocks, and fixFileCIR only erases what comes last in a function, then
\* each position held in an operand is that of the instruction it was made for
\* -- at the backend, and when a cast or a vector looks it up.
THEOREM OperandsAlwaysResolve ==
    Spec /\ []InsertsAtEnd /\ []ErasesAtEnd => [](OperandsGiven => OperandsResolve)
<1>1. Init => Resolved
  BY InitResolved
<1>2. IInv /\ Apart /\ Resolved /\ ErasesAtEnd /\ InsertsAtEnd' /\ [Next]_vars => Resolved'
  BY NextResolved
<1>3. IInv /\ Resolved => (OperandsGiven => OperandsResolve)
  BY ResolvedOperands
<1>. QED
  BY <1>1, <1>2, <1>3, Invariance, AlwaysApart, PTL DEF Spec

\* Then the steps of a while are never taken.
LEMMA NoWhileSteps ==
    ASSUME IInv, NoWhile
    PROVE  ~(WhileExpr_body \/ WhileExpr_end)
<1>1. ASSUME WhileExpr_body \/ WhileExpr_end
      PROVE  FALSE
  <2>1. frames # << >> /\ Top.node.kind = "while"
    BY <1>1 DEF WhileExpr_body, WhileExpr_end, CloseScope, At
  <2>2. Top.node \in Nodes
    BY <2>1, TopLemma
  <2>. QED
    BY <2>1, <2>2 DEF NoWhile
<1>. QED
  BY <1>1

\* A program without a while has only the erased instructions to fear: they are
\* the one way in which a position can come to be that of another instruction.
THEOREM OperandsResolveWithoutWhile ==
    ASSUME NoWhile
    PROVE  Spec /\ []ErasesAtEnd => [](OperandsGiven => OperandsResolve)
<1>1. Init => Resolved
  BY InitResolved
<1>2. IInv /\ Apart /\ Resolved /\ ErasesAtEnd /\ [Next]_vars => Resolved'
  BY NoWhileSteps, NextResolved
<1>3. IInv /\ Resolved => (OperandsGiven => OperandsResolve)
  BY ResolvedOperands
<1>. QED
  BY <1>1, <1>2, <1>3, Invariance, AlwaysApart, PTL DEF Spec

\* Until fixFileCIR erases: the operands between functions and of the whole
\* file, and the reference that a cast or a vector looks up.
RightSoFar ==
    /\ status \in {"gen", "generated"} /\ frames = << >> =>
          \A F \in 1..Len(cir.fun) : InOrder(cir, F)
    /\ At({"cast", "vector"}, "operand") /\ ~IsEmpty(ret) =>
          InstructionAt(cir, CurrentFunction(cir), ret.pos) = ret.def

\* Whatever the file without a while, and whatever fixFileCIR does to it then:
\* to the end of the generation, each position is that of the instruction it
\* was made for.
THEOREM GeneratedOperandsResolve ==
    ASSUME NoWhile
    PROVE  Spec => []RightSoFar
<1>. DEFINE SoFar == status \in {"gen", "generated"} => Resolved
<1>1. Init => SoFar
  BY InitResolved
<1>2. IInv /\ Apart /\ SoFar /\ [Next]_vars => SoFar'
  <2>. SUFFICES ASSUME IInv, Apart, SoFar, [Next]_vars, status' \in {"gen", "generated"}
                PROVE  Resolved'
    OBVIOUS
  <2>1. ~fixFileCIR /\ ~(status \notin {"gen", "generated"})
    <3>1. ~fixFileCIR /\ ~checkFileCIR
      BY DEF fixFileCIR, checkFileCIR
    <3>2. CASE Simple \/ Memory \/ Control \/ FunctionAST_arg \/ FunctionAST_body \/ FunctionAST_end
      BY <3>1, <3>2, RunningLemma
    <3>3. CASE FunctionAST_gen \/ FileAST_generated
      BY <3>1, <3>3 DEF FunctionAST_gen, FileAST_generated
    <3>4. CASE FunctionAST_noValue
      BY <3>4 DEF FunctionAST_noValue
    <3>5. CASE UNCHANGED vars
      BY <3>1, <3>5 DEF vars
    <3>. QED
      BY <3>1, <3>2, <3>3, <3>4, <3>5 DEF Next, Done, File
  <2>2. ~(WhileExpr_body \/ WhileExpr_end)
    BY NoWhileSteps
  <2>3. CASE status = "gen"
    <3>1. ErasesAtEnd
      BY <2>3 DEF ErasesAtEnd
    <3>. QED
      BY <2>1, <2>2, <3>1, NextResolved
  <2>4. CASE status = "generated"
    <3>1. Resolved /\ UNCHANGED vars
      <4>1. ~(Simple \/ Memory \/ Control \/ FunctionAST_arg \/ FunctionAST_body \/ FunctionAST_end)
        BY <2>4, RunningLemma
      <4>2. ~(FunctionAST_gen \/ FunctionAST_noValue \/ FileAST_generated \/ checkFileCIR)
        BY <2>4 DEF FunctionAST_gen, FunctionAST_noValue, CloseScope, At, FileAST_generated, checkFileCIR
      <4>. QED
        BY <2>1, <2>4, <4>1, <4>2 DEF Next, Done, File
    <3>. QED
      BY <3>1, FileResolved
  <2>. QED
    BY <2>1, <2>3, <2>4
<1>3. IInv /\ SoFar => RightSoFar
  <2>1. Resolved /\ status \in {"gen", "generated"} /\ frames = << >> =>
           \A F \in 1..Len(cir.fun) : InOrder(cir, F)
    BY DEF Resolved, OrderedAlready
  <2>2. IInv /\ Resolved /\ At({"cast", "vector"}, "operand") /\ ~IsEmpty(ret) =>
           InstructionAt(cir, CurrentFunction(cir), ret.pos) = ret.def
    BY LookupResolved
  <2>3. At({"cast", "vector"}, "operand") => status = "gen"
    BY DEF At
  <2>. QED
    BY <2>1, <2>2, <2>3 DEF RightSoFar
<1>. HIDE DEF SoFar
<1>. QED
  BY <1>1, <1>2, <1>3, Invariance, AlwaysApart, PTL DEF Spec
=============================================================================
