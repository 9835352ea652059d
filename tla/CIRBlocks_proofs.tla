--------------------------- MODULE CIRBlocks_proofs ---------------------------
(***************************************************************************)
(* Proofs about the blocks of the functions: whatever the file, each block *)
(* is added once, to one function.  What makes this inductive is that a    *)
(* block made before its place in the layout is reached (else, ifcont,     *)
(* afterloop) is held by one activation, and is in no function, until that *)
(* activation adds it.  And, unless an early return frees such a block,    *)
(* branches stay in their function: until it is finished, one goes to a    *)
(* block of the function or to one that an activation holds.               *)
(***************************************************************************)
EXTENDS CIRBuilder_proofs

\* The blocks an activation has made and will add.
Pending(f) ==
    {b \in {f.alt} : f.node.kind = "if" /\ f.at = "then"}
    \union {b \in {f.after} :
               \/ f.node.kind = "if" /\ f.at \in {"then", "else"}
               \/ f.node.kind = "for" /\ f.at \in {"body", "endScope", "step"}}

\* They are in no function, belong to no other activation, and are two in an if.
PendingApart ==
    /\ \A k \in DOMAIN frames : Pending(frames[k]) \intersect BlocksOf(cir) = {}
    /\ \A j, k \in DOMAIN frames :
          j # k => Pending(frames[j]) \intersect Pending(frames[k]) = {}
    /\ \A k \in DOMAIN frames :
          frames[k].node.kind = "if" /\ frames[k].at = "then" => frames[k].alt # frames[k].after

Apart == BlocksAddedOnce /\ PendingApart

-----------------------------------------------------------------------------
(* The layout of a file: which blocks its functions hold.                  *)

\* BlocksAddedOnce, of any file.
OnceIn(c) ==
    /\ \A F \in DOMAIN c.fun : \A j, k \in DOMAIN c.fun[F] :
          c.fun[F][j] = c.fun[F][k] => j = k
    /\ \A F, G \in DOMAIN c.fun :
          F # G => ToSet(c.fun[F]) \intersect ToSet(c.fun[G]) = {}

LEMMA OnceLemma == BlocksAddedOnce <=> OnceIn(cir)
  BY DEF BlocksAddedOnce, OnceIn, Function

\* A file with a function, whose functions hold the blocks of S, each once.
Laid(c, S) ==
    /\ "fun" \in DOMAIN c /\ c.fun \in Seq(Seq(Nat)) /\ c.fun # << >>
    /\ OnceIn(c) /\ BlocksOf(c) = S

\* What leaves the functions alone leaves the layout alone.
LEMMA SameLayoutLemma ==
    ASSUME NEW c, NEW S, Laid(c, S), NEW d, "fun" \in DOMAIN d, d.fun = c.fun
    PROVE  Laid(d, S)
<1>1. BlocksOf(d) = BlocksOf(c) /\ (OnceIn(c) => OnceIn(d))
  BY DEF BlocksOf, OnceIn
<1>. QED
  BY <1>1 DEF Laid

\* Everything but a new function and an added block does.
LEMMA LayoutLemma ==
    ASSUME NEW c, NEW S, Laid(c, S)
    PROVE  /\ \A b : Laid(SetInsertPoint(c, b), S)
           /\ \A b : Laid(CreateGoto(c, b), S)
           /\ \A r, b1, b2 : Laid(CreateGotoIf(c, r, b1, b2), S)
           /\ \A i : Laid(Emit(c, i).c, S)
           /\ \A r, from, to : Laid(Convert(c, r, from, to).c, S)
           /\ \A base : Laid(NewBlock(c, base), S)
<1>1. ASSUME NEW d, NEW i, "fun" \in DOMAIN d
      PROVE  "fun" \in DOMAIN AddInstruction(d, i) /\ AddInstruction(d, i).fun = d.fun
  BY <1>1 DEF AddInstruction
<1>2. ASSUME NEW d, NEW b, NEW q, "fun" \in DOMAIN d
      PROVE  "fun" \in DOMAIN AddPred(d, b, q) /\ AddPred(d, b, q).fun = d.fun
  BY <1>2 DEF AddPred
<1>3. "fun" \in DOMAIN c
  BY DEF Laid
<1>4. ASSUME NEW b
      PROVE  Laid(SetInsertPoint(c, b), S)
  <2>1. "fun" \in DOMAIN SetInsertPoint(c, b) /\ SetInsertPoint(c, b).fun = c.fun
    BY <1>3 DEF SetInsertPoint
  <2>. QED
    BY <2>1, SameLayoutLemma
<1>5. ASSUME NEW b
      PROVE  Laid(CreateGoto(c, b), S)
  <2>1. "fun" \in DOMAIN CreateGoto(c, b) /\ CreateGoto(c, b).fun = c.fun
    BY <1>1, <1>2, <1>3 DEF CreateGoto
  <2>. QED
    BY <2>1, SameLayoutLemma
<1>6. ASSUME NEW r, NEW b1, NEW b2
      PROVE  Laid(CreateGotoIf(c, r, b1, b2), S)
  <2>1. "fun" \in DOMAIN CreateGotoIf(c, r, b1, b2) /\ CreateGotoIf(c, r, b1, b2).fun = c.fun
    BY <1>1, <1>2, <1>3 DEF CreateGotoIf
  <2>. QED
    BY <2>1, SameLayoutLemma
<1>7. ASSUME NEW i
      PROVE  Laid(Emit(c, i).c, S)
  <2>1. "fun" \in DOMAIN Emit(c, i).c /\ Emit(c, i).c.fun = c.fun
    BY <1>1, <1>3 DEF Emit
  <2>. QED
    BY <2>1, SameLayoutLemma
<1>8. ASSUME NEW r, NEW from, NEW to
      PROVE  Laid(Convert(c, r, from, to).c, S)
  <2>1. Convert(c, r, from, to).c = c \/ \E i : Convert(c, r, from, to).c = Emit(c, i).c
    BY DEF Convert
  <2>. QED
    BY <1>7, <2>1
<1>9. ASSUME NEW base
      PROVE  Laid(NewBlock(c, base), S)
  <2>1. "fun" \in DOMAIN NewBlock(c, base) /\ NewBlock(c, base).fun = c.fun
    BY <1>3 DEF NewBlock
  <2>. QED
    BY <2>1, SameLayoutLemma
<1>. QED
  BY <1>4, <1>5, <1>6, <1>7, <1>8, <1>9

\* The blocks of a function that gets one more.
LEMMA AppendLemma ==
    ASSUME NEW r \in Seq(Nat), NEW b \in Nat, NEW u, u = Append(r, b)
    PROVE  \A x : x \in ToSet(u) <=> x \in ToSet(r) \/ x = b
<1>1. /\ u \in Seq(Nat) /\ Len(u) = Len(r) + 1 /\ u[Len(r) + 1] = b
      /\ \A k \in 1..Len(r) : u[k] = r[k]
      /\ DOMAIN u = 1..(Len(r) + 1) /\ DOMAIN r = 1..Len(r) /\ Len(r) \in Nat
  OBVIOUS
<1>2. ASSUME NEW x \in ToSet(u)
      PROVE  x \in ToSet(r) \/ x = b
  <2>1. PICK k \in 1..(Len(r) + 1) : x = u[k]
    BY <1>1, <1>2 DEF ToSet
  <2>2. k \in 1..Len(r) \/ k = Len(r) + 1
    BY <1>1
  <2>. QED
    BY <1>1, <2>1, <2>2 DEF ToSet
<1>3. ASSUME NEW x \in ToSet(r)
      PROVE  x \in ToSet(u)
  <2>1. PICK k \in 1..Len(r) : x = r[k]
    BY <1>1, <1>3 DEF ToSet
  <2>2. k \in DOMAIN u /\ u[k] = x
    BY <1>1, <2>1
  <2>. QED
    BY <2>2 DEF ToSet
<1>4. b \in ToSet(u)
  <2>1. Len(r) + 1 \in DOMAIN u
    BY <1>1
  <2>. QED
    BY <1>1, <2>1 DEF ToSet
<1>. QED
  BY <1>1, <1>2, <1>3, <1>4

\* A block that no function holds may be added.
LEMMA AddLemma ==
    ASSUME NEW c, NEW S, Laid(c, S), NEW b \in Nat, b \notin S
    PROVE  Laid(AddBasicBlock(c, b), S \union {b})
<1>. DEFINE d == AddBasicBlock(c, b)
<1>1. PICK s : s = c.fun
  OBVIOUS
<1>2. s \in Seq(Seq(Nat)) /\ s # << >> /\ "fun" \in DOMAIN c /\ OnceIn(c) /\ BlocksOf(c) = S
  BY <1>1 DEF Laid
<1>3. PICK F : F = Len(s) /\ F \in DOMAIN s
  <2>1. Len(s) \in DOMAIN s
    BY <1>2
  <2>. QED
    BY <2>1
<1>4. PICK u : u = Append(s[F], b)
  OBVIOUS
<1>5. PICK t : t = [s EXCEPT ![F] = u]
  OBVIOUS
<1>6. d.fun = t /\ "fun" \in DOMAIN d
  BY <1>1, <1>2, <1>3, <1>4, <1>5 DEF AddBasicBlock, CurrentFunction
<1>. HIDE DEF d
<1>7. \A G \in DOMAIN s : b \notin ToSet(s[G])
  BY <1>1, <1>2 DEF BlocksOf
<1>8. /\ t \in Seq(Seq(Nat)) /\ DOMAIN t = DOMAIN s
      /\ Len(t[F]) = Len(s[F]) + 1 /\ t[F][Len(s[F]) + 1] = b
      /\ \A k \in 1..Len(s[F]) : t[F][k] = s[F][k]
      /\ \A x : x \in ToSet(t[F]) <=> x \in ToSet(s[F]) \/ x = b
      /\ \A G \in DOMAIN s : G # F => t[G] = s[G]
  <2>1. /\ u \in Seq(Nat) /\ Len(u) = Len(s[F]) + 1 /\ u[Len(s[F]) + 1] = b
        /\ \A k \in 1..Len(s[F]) : u[k] = s[F][k]
        /\ \A x : x \in ToSet(u) <=> x \in ToSet(s[F]) \/ x = b
    <3>1. PICK r : r = s[F]
      OBVIOUS
    <3>2. r \in Seq(Nat) /\ u = Append(r, b)
      BY <1>2, <1>3, <1>4, <3>1
    <3>3. /\ u \in Seq(Nat) /\ Len(u) = Len(r) + 1 /\ u[Len(r) + 1] = b
          /\ \A k \in 1..Len(r) : u[k] = r[k]
      BY <3>2
    <3>4. \A x : x \in ToSet(u) <=> x \in ToSet(r) \/ x = b
      BY <3>2, AppendLemma
    <3>. QED
      BY <3>1, <3>3, <3>4
  <2>2. /\ t[F] = u /\ DOMAIN t = DOMAIN s /\ \A G \in DOMAIN s : G # F => t[G] = s[G]
    BY <1>2, <1>3, <1>5
  <2>3. t \in Seq(Seq(Nat))
    BY <1>2, <1>3, <1>5, <2>1
  <2>. QED
    BY <2>1, <2>2, <2>3
<1>9. s[F] \in Seq(Nat) /\ t[F] \in Seq(Nat)
  BY <1>1, <1>2, <1>3, <1>8
<1>10. BlocksOf(d) = S \union {b}
  <2>1. BlocksOf(d) = UNION {ToSet(t[G]) : G \in DOMAIN t} /\ S = UNION {ToSet(s[G]) : G \in DOMAIN s}
    BY <1>1, <1>2, <1>6 DEF BlocksOf
  <2>2. \A G \in DOMAIN t : \A x :
           x \in ToSet(t[G]) <=> x \in ToSet(s[G]) \/ (G = F /\ x = b)
    BY <1>8
  <2>3. ASSUME NEW x \in BlocksOf(d)
        PROVE  x \in S \union {b}
    <3>1. PICK G \in DOMAIN t : x \in ToSet(t[G])
      BY <2>1
    <3>2. x \in ToSet(s[G]) \/ (G = F /\ x = b)
      BY <2>2, <3>1
    <3>3. G \in DOMAIN s
      BY <1>8
    <3>. QED
      BY <2>1, <3>2, <3>3
  <2>4. ASSUME NEW x \in S \union {b}
        PROVE  x \in BlocksOf(d)
    <3>1. CASE x = b
      BY <1>3, <1>8, <2>1, <3>1
    <3>2. CASE x \in S
      <4>1. PICK G \in DOMAIN s : x \in ToSet(s[G])
        BY <2>1, <3>2
      <4>2. x \in ToSet(t[G]) /\ G \in DOMAIN t
        BY <1>8, <2>2, <4>1
      <4>. QED
        BY <2>1, <4>2
    <3>. QED
      BY <3>1, <3>2
  <2>. QED
    BY <2>3, <2>4
<1>11. OnceIn(d)
  <2>1. ASSUME NEW G \in DOMAIN t, NEW j \in DOMAIN t[G], NEW k \in DOMAIN t[G], t[G][j] = t[G][k]
        PROVE  j = k
    <3>1. \A i, l \in DOMAIN s[G] : s[G][i] = s[G][l] => i = l
      BY <1>1, <1>2, <1>8 DEF OnceIn
    <3>2. CASE G # F
      BY <1>8, <2>1, <3>1, <3>2
    <3>3. CASE G = F
      <4>. DEFINE m == Len(s[F])
      <4>1. /\ m \in Nat /\ j \in 1..(m + 1) /\ k \in 1..(m + 1) /\ DOMAIN s[F] = 1..m
        BY <1>8, <1>9, <3>3
      <4>2. \A i \in 1..m : s[F][i] # b
        BY <1>3, <1>7, <4>1 DEF ToSet
      <4>3. t[F][j] = t[F][k]
        BY <2>1, <3>3
      <4>. HIDE DEF m
      <4>4. /\ t[F][m + 1] = b /\ \A i \in 1..m : t[F][i] = s[F][i]
        BY <1>8 DEF m
      <4>5. j = m + 1 <=> k = m + 1
        BY <4>1, <4>2, <4>3, <4>4
      <4>6. CASE j = m + 1
        BY <4>5, <4>6
      <4>7. CASE j # m + 1
        <5>1. j \in 1..m /\ k \in 1..m
          BY <4>1, <4>5, <4>7
        <5>2. s[F][j] = s[F][k]
          BY <4>3, <4>4, <5>1
        <5>. QED
          BY <3>1, <3>3, <4>1, <5>1, <5>2
      <4>. QED
        BY <4>6, <4>7
    <3>. QED
      BY <3>2, <3>3
  <2>2. ASSUME NEW G \in DOMAIN t, NEW H \in DOMAIN t, G # H
        PROVE  ToSet(t[G]) \intersect ToSet(t[H]) = {}
    <3>1. ToSet(s[G]) \intersect ToSet(s[H]) = {}
      BY <1>1, <1>2, <1>8, <2>2 DEF OnceIn
    <3>2. b \notin ToSet(s[G]) /\ b \notin ToSet(s[H])
      BY <1>7, <1>8
    <3>. QED
      BY <1>8, <2>2, <3>1, <3>2
  <2>. QED
    BY <1>6, <2>1, <2>2 DEF OnceIn
<1>12. d.fun # << >>
  BY <1>3, <1>6, <1>8
<1>. QED
  BY <1>6, <1>8, <1>10, <1>11, <1>12 DEF Laid, d

-----------------------------------------------------------------------------
(* The ways an action changes the activations and the layout.              *)

\* What an action of a method finds.
LEMMA FoundLemma ==
    ASSUME IInv, Apart, frames # << >>
    PROVE  /\ Laid(cir, BlocksOf(cir)) /\ Len(cir.blk) \in Nat
           /\ BlocksOf(cir) \subseteq 1..Len(cir.blk)
           /\ Len(frames) \in Nat /\ Len(frames) > 0 /\ DOMAIN frames = 1..Len(frames)
           /\ frames \in Seq(FrameType(Len(cir.blk))) /\ Top = frames[Len(frames)]
           /\ Top \in FrameType(Len(cir.blk))
           /\ \A k \in 1..Len(frames) : Pending(frames[k]) \subseteq 0..Len(cir.blk)
<1>. DEFINE n == Len(cir.blk)
<1>1. /\ n \in Nat /\ frames \in Seq(FrameType(n)) /\ Top \in FrameType(n)
      /\ cir.fun \in Seq(Seq(1..n)) /\ cir.fun # << >> /\ "fun" \in DOMAIN cir
  BY InsideLemma DEF Good, WellFormed, FileCIR
<1>. HIDE DEF n
<1>2. cir.fun \in Seq(Seq(Nat))
  <2>1. Seq(1..n) \subseteq Seq(Nat)
    BY <1>1
  <2>. QED
    BY <1>1, <2>1
<1>3. BlocksOf(cir) \subseteq 1..n
  <2>1. ASSUME NEW F \in DOMAIN cir.fun
        PROVE  ToSet(cir.fun[F]) \subseteq 1..n
    BY <1>1 DEF ToSet
  <2>. QED
    BY <2>1 DEF BlocksOf
<1>4. OnceIn(cir)
  BY OnceLemma DEF Apart
<1>5. /\ Len(frames) \in Nat /\ Len(frames) > 0 /\ DOMAIN frames = 1..Len(frames)
      /\ Top = frames[Len(frames)]
  BY <1>1, StackLemma DEF Top
<1>6. \A k \in 1..Len(frames) : Pending(frames[k]) \subseteq 0..n
  <2>1. ASSUME NEW k \in 1..Len(frames)
        PROVE  Pending(frames[k]) \subseteq 0..n
    <3>1. frames[k] \in FrameType(n)
      BY <1>1, <1>5
    <3>2. frames[k].alt \in 0..n /\ frames[k].after \in 0..n
      BY <3>1 DEF FrameType
    <3>. QED
      BY <3>2 DEF Pending
  <2>. QED
    BY <2>1
<1>. QED
  BY <1>1, <1>2, <1>3, <1>4, <1>5, <1>6 DEF Laid, n

\* The blocks an action may add, or go on to hold: those the activation held,
\* and new ones.
Mine == Pending(Top) \union {b \in Nat : b > Len(cir.blk)}

\* A method that returns has added some of its blocks, or none.
LEMMA LeaveApart ==
    ASSUME IInv, Apart, frames # << >>, frames' = Front(frames),
           NEW S, Laid(cir', S), S \subseteq BlocksOf(cir) \union Mine
    PROVE  Apart'
<1>. DEFINE m == Len(frames)
            n == Len(cir.blk)
<1>1. /\ m \in Nat /\ m > 0 /\ DOMAIN frames = 1..m /\ Top = frames[m] /\ n \in Nat
      /\ frames \in Seq(FrameType(n))
      /\ \A k \in 1..m : Pending(frames[k]) \subseteq 0..n
  BY FoundLemma
<1>2. /\ DOMAIN frames' = 1..(m - 1) /\ \A k \in 1..(m - 1) : frames'[k] = frames[k]
  <2>1. frames' \in Seq(FrameType(n)) /\ Len(frames') = m - 1
    BY <1>1, StackLemma
  <2>. QED
    BY <1>1, <2>1, StackLemma
<1>3. OnceIn(cir') /\ BlocksOf(cir') = S
  BY DEF Laid
<1>4. /\ \A k \in 1..m : Pending(frames[k]) \intersect BlocksOf(cir) = {}
      /\ \A j, k \in 1..m : j # k => Pending(frames[j]) \intersect Pending(frames[k]) = {}
      /\ \A k \in 1..m : frames[k].node.kind = "if" /\ frames[k].at = "then"
                             => frames[k].alt # frames[k].after
  BY <1>1 DEF Apart, PendingApart
<1>. HIDE DEF m, n
<1>5. \A k \in 1..(m - 1) : Pending(frames[k]) \intersect S = {}
  <2>1. ASSUME NEW k \in 1..(m - 1), NEW b \in Pending(frames[k]), b \in S
        PROVE  FALSE
    <3>1. k \in 1..m /\ m \in 1..m /\ k # m
      BY <1>1
    <3>2. b \notin BlocksOf(cir) /\ b \notin Pending(Top)
      BY <1>1, <1>4, <3>1
    <3>3. b \in 0..n
      BY <1>1, <3>1
    <3>4. b \in Nat /\ b > n
      BY <2>1, <3>2 DEF Mine, n
    <3>. QED
      BY <1>1, <3>3, <3>4
  <2>. QED
    BY <2>1
<1>6. PendingApart'
  <2>1. 1..(m - 1) \subseteq 1..m
    BY <1>1
  <2>2. \A k \in DOMAIN frames' : Pending(frames'[k]) = Pending(frames[k]) /\ frames'[k] = frames[k]
    BY <1>2
  <2>3. \A k \in DOMAIN frames' : Pending(frames'[k]) \intersect BlocksOf(cir') = {}
    BY <1>2, <1>3, <1>5, <2>2
  <2>4. \A j, k \in DOMAIN frames' : j # k => Pending(frames'[j]) \intersect Pending(frames'[k]) = {}
    BY <1>2, <1>4, <2>1, <2>2
  <2>5. \A k \in DOMAIN frames' : frames'[k].node.kind = "if" /\ frames'[k].at = "then"
                                    => frames'[k].alt # frames'[k].after
    BY <1>2, <1>4, <2>1, <2>2
  <2>. QED
    BY <2>3, <2>4, <2>5 DEF PendingApart, Pending
<1>. QED
  BY <1>3, <1>6 DEF Apart, BlocksAddedOnce, OnceIn, Function

\* The activation that goes on becomes f; the one it calls is new.
LEMMA GoOnFrames ==
    ASSUME IInv, frames # << >>, NEW f, Stay(f) \/ \E e : Enter(f, e), NEW m, m = Len(frames)
    PROVE  /\ \A k \in 1..(m - 1) : frames'[k] = frames[k]
           /\ frames'[m] = f
           /\ \/ DOMAIN frames' = 1..m
              \/ /\ DOMAIN frames' = 1..(m + 1)
                 /\ \E e, brk, dep : frames'[m + 1] = Activation(e, brk, dep)
<1>. DEFINE n == Len(cir.blk)
<1>1. frames \in Seq(FrameType(n)) /\ m \in Nat
  BY InsideLemma
<1>. HIDE DEF n
<1>2. CASE Stay(f)
  <2>. DEFINE F == FrameType(n) \union {f}
  <2>1. frames \in Seq(F) /\ f \in F
    BY <1>1
  <2>. HIDE DEF F
  <2>2. frames' = Append(Front(frames), f)
    BY <1>2 DEF Stay
  <2>3. /\ Append(Front(frames), f) \in Seq(F) /\ Len(Append(Front(frames), f)) = m
        /\ \A k \in 1..(m - 1) : Append(Front(frames), f)[k] = frames[k]
        /\ Append(Front(frames), f)[m] = f
    BY <2>1, ReplaceLemma
  <2>. QED
    BY <1>1, <2>2, <2>3
<1>3. CASE \E e : Enter(f, e)
  <2>1. PICK e : frames' = Front(frames) \o <<f, Activation(e, breaks', Len(scopes'))>>
    BY <1>3 DEF Enter
  <2>. DEFINE g == Activation(e, breaks', Len(scopes'))
              F == FrameType(n) \union {f, g}
  <2>2. frames \in Seq(F) /\ f \in F /\ g \in F
    BY <1>1
  <2>3. frames' = Front(frames) \o <<f, g>> /\ \E x, brk, dep : g = Activation(x, brk, dep)
    BY <2>1
  <2>. HIDE DEF F, g
  <2>4. /\ frames' \in Seq(F) /\ Len(frames') = m + 1
        /\ \A k \in 1..(m - 1) : frames'[k] = frames[k]
        /\ frames'[m] = f /\ frames'[m + 1] = g
    BY <1>1, <2>2, <2>3, PushLemma
  <2>5. DOMAIN frames' = 1..(m + 1)
    BY <1>1, <2>4
  <2>6. \E x, brk, dep : frames'[m + 1] = Activation(x, brk, dep)
    BY <2>3, <2>4
  <2>. HIDE DEF g, F
  <2>. QED
    BY <2>4, <2>5, <2>6
<1>. QED
  BY <1>2, <1>3

\* A method that goes on, or calls another one, holds blocks that were its own
\* or are new, and that it has not added.
LEMMA GoOnApart ==
    ASSUME IInv, Apart, frames # << >>,
           NEW S, Laid(cir', S), S \subseteq BlocksOf(cir) \union Mine,
           NEW f, Pending(f) \subseteq Mine, Pending(f) \intersect S = {},
           f.node.kind = "if" /\ f.at = "then" => f.alt # f.after,
           Stay(f) \/ \E e : Enter(f, e)
    PROVE  Apart'
<1>. DEFINE m == Len(frames)
            n == Len(cir.blk)
<1>1. /\ m \in Nat /\ m > 0 /\ DOMAIN frames = 1..m /\ Top = frames[m] /\ n \in Nat
      /\ frames \in Seq(FrameType(n))
      /\ \A k \in 1..m : Pending(frames[k]) \subseteq 0..n
  BY FoundLemma
<1>2. /\ \A k \in 1..(m - 1) : frames'[k] = frames[k]
      /\ frames'[m] = f
      /\ \/ DOMAIN frames' = 1..m
         \/ /\ DOMAIN frames' = 1..(m + 1)
            /\ \E e, brk, dep : frames'[m + 1] = Activation(e, brk, dep)
  BY <1>1, GoOnFrames
<1>3. OnceIn(cir') /\ BlocksOf(cir') = S
  BY DEF Laid
<1>4. /\ \A k \in 1..m : Pending(frames[k]) \intersect BlocksOf(cir) = {}
      /\ \A j, k \in 1..m : j # k => Pending(frames[j]) \intersect Pending(frames[k]) = {}
      /\ \A k \in 1..m : frames[k].node.kind = "if" /\ frames[k].at = "then"
                             => frames[k].alt # frames[k].after
  BY <1>1 DEF Apart, PendingApart
<1>. HIDE DEF m, n
\* The activations below are apart from everything the top one may have.
<1>5. ASSUME NEW k \in 1..(m - 1), NEW b \in Pending(frames[k])
      PROVE  b \notin Mine /\ b \notin S
  <2>1. k \in 1..m /\ m \in 1..m /\ k # m
    BY <1>1
  <2>2. b \notin BlocksOf(cir) /\ b \notin Pending(Top)
    BY <1>1, <1>4, <2>1
  <2>3. b \in 0..n
    BY <1>1, <2>1
  <2>4. ~(b > n)
    BY <1>1, <2>3
  <2>5. b \notin Mine
    BY <2>2, <2>4 DEF Mine, n
  <2>. QED
    BY <2>2, <2>5
\* A new activation holds nothing.
<1>6. ASSUME NEW k \in DOMAIN frames'
      PROVE  \/ k \in 1..(m - 1) /\ frames'[k] = frames[k]
             \/ k = m /\ frames'[k] = f
             \/ Pending(frames'[k]) = {} /\ frames'[k].at = "start"
  <2>1. CASE k \in 1..(m - 1)
    BY <1>2, <2>1
  <2>2. CASE k = m
    BY <1>2, <2>2
  <2>3. CASE k \notin 1..(m - 1) /\ k # m
    <3>1. k = m + 1 /\ \E e, brk, dep : frames'[m + 1] = Activation(e, brk, dep)
      BY <1>1, <1>2, <2>3
    <3>2. PICK e, brk, dep : frames'[k] = Activation(e, brk, dep)
      BY <3>1
    <3>3. frames'[k].at = "start"
      BY <3>2 DEF Activation
    <3>. QED
      BY <3>3 DEF Pending
  <2>. QED
    BY <2>1, <2>2, <2>3
<1>7. PendingApart'
  <2>1. 1..(m - 1) \subseteq 1..m
    BY <1>1
  <2>2. ASSUME NEW k \in DOMAIN frames', NEW b \in Pending(frames'[k]), b \in S
        PROVE  FALSE
    BY <1>5, <1>6, <2>2
  <2>3. ASSUME NEW j \in DOMAIN frames', NEW k \in DOMAIN frames', j # k,
               NEW b \in Pending(frames'[j]), b \in Pending(frames'[k])
        PROVE  FALSE
    <3>1. CASE j \in 1..(m - 1) /\ frames'[j] = frames[j]
      <4>1. CASE k \in 1..(m - 1) /\ frames'[k] = frames[k]
        BY <1>4, <2>1, <2>3, <3>1, <4>1
      <4>2. CASE k = m /\ frames'[k] = f
        BY <1>5, <2>3, <3>1, <4>2
      <4>. QED
        BY <1>6, <2>3, <4>1, <4>2
    <3>2. CASE j = m /\ frames'[j] = f
      <4>1. CASE k \in 1..(m - 1) /\ frames'[k] = frames[k]
        BY <1>5, <2>3, <3>2, <4>1
      <4>. QED
        BY <1>6, <2>3, <3>2, <4>1
    <3>. QED
      BY <1>6, <2>3, <3>1, <3>2
  <2>4. ASSUME NEW k \in DOMAIN frames', frames'[k].node.kind = "if", frames'[k].at = "then"
        PROVE  frames'[k].alt # frames'[k].after
    BY <1>4, <1>6, <2>1, <2>4
  <2>. QED
    BY <1>3, <2>2, <2>3, <2>4 DEF PendingApart, Pending
<1>. QED
  BY <1>3, <1>7 DEF Apart, BlocksAddedOnce, OnceIn, Function

\* What the activation that runs holds.
LEMMA OwnLemma ==
    ASSUME IInv, Apart, frames # << >>
    PROVE  /\ Pending(Top) \intersect BlocksOf(cir) = {} /\ Pending(Top) \subseteq Nat
           /\ Top.node.kind = "if" /\ Top.at = "then" => Top.alt # Top.after
<1>1. /\ Len(frames) \in Nat /\ Len(frames) > 0 /\ DOMAIN frames = 1..Len(frames)
      /\ Top = frames[Len(frames)] /\ Len(cir.blk) \in Nat
      /\ \A k \in 1..Len(frames) : Pending(frames[k]) \subseteq 0..Len(cir.blk)
  BY FoundLemma
<1>2. Len(frames) \in DOMAIN frames
  BY <1>1
<1>3. Pending(Top) \subseteq 0..Len(cir.blk)
  BY <1>1, <1>2
<1>. QED
  BY <1>1, <1>2, <1>3 DEF Apart, PendingApart

\* A method returns without having added a block.
LEMMA LeaveLaid ==
    ASSUME IInv, Apart, frames # << >>, frames' = Front(frames), Laid(cir', BlocksOf(cir))
    PROVE  Apart'
  BY LeaveApart

\* A method goes on without having made or added a block.
LEMMA GoOnLaid ==
    ASSUME IInv, Apart, frames # << >>, Laid(cir', BlocksOf(cir)),
           NEW f, Pending(f) \subseteq Pending(Top), ~(f.node.kind = "if" /\ f.at = "then")
    PROVE  /\ Stay(f) => Apart'
           /\ \A e : Enter(f, e) => Apart'
<1>1. Pending(f) \subseteq Mine /\ Pending(f) \intersect BlocksOf(cir) = {}
  BY OwnLemma DEF Mine
<1>2. BlocksOf(cir) \subseteq BlocksOf(cir) \union Mine
  OBVIOUS
<1>. QED
  BY <1>1, <1>2, GoOnApart

-----------------------------------------------------------------------------
(* The actions.                                                            *)

\* The addresses of elements and members add no block.
LEMMA GEPLaid ==
    ASSUME NEW S, Laid(cir, S), NEW index
    PROVE  Laid(GEP_index(index).c, S) /\ Laid(GEP_member.c, S)
<1>. DEFINE e == Convert(cir, ret, index.ty, "i64")
            i == Instr("GepArray", "ptr", <<varRefs[InPlace.x], e.r>>)
<1>1. GEP_index(index) = [c |-> cir, r |-> NoRef] \/ GEP_index(index) = Emit(e.c, i)
  BY DEF GEP_index
<1>2. \E j : GEP_member = Emit(cir, j)
  BY DEF GEP_member
<1>3. Laid(e.c, S)
  BY LayoutLemma
<1>. HIDE DEF e, i
<1>4. Laid(Emit(e.c, i).c, S) /\ \A j : Laid(Emit(cir, j).c, S)
  BY <1>3, LayoutLemma
<1>. QED
  BY <1>1, <1>2, <1>4

\* Nor do the reads and writes, the other expressions on memory and the
\* arguments of a call.
LEMMA MemoryLaid ==
    ASSUME NEW S, Laid(cir, S), Memory \/ Argument \/ Argument_missing
    PROVE  Laid(cir', S)
<1>1. CASE AddrExpr_gen \/ StructMemberCallExpr_gen \/ VectorMember
  <2>1. cir' = cir
    BY <1>1 DEF AddrExpr_gen, StructMemberCallExpr_gen, VectorMember, Report
  <2>. QED
    BY <2>1
<1>2. CASE NotImplemented \/ Operand_missing \/ Argument_missing
  <2>1. cir' = cir
    BY <1>2 DEF NotImplemented, Operand_missing, Argument_missing, Abort
  <2>. QED
    BY <2>1
<1>3. CASE DerefExpr_gen \/ SizeofExpr_gen \/ ConstantVectorExpr_gen \/ AsmExpr_gen
  <2>1. cir' = cir \/ \E i : cir' = Emit(cir, i).c
    BY <1>3 DEF DerefExpr_gen, SizeofExpr_gen, ConstantVectorExpr_gen, AsmExpr_gen, Report, EmitAndLeave
  <2>. QED
    BY <2>1, LayoutLemma
<1>4. CASE ReadElement \/ ReadMember \/ WriteElement \/ WriteMember
  <2>1. PICK g : /\ g = GEP_member \/ \E index : g = GEP_index(index)
                 /\ \E op, ty, rest : LeaveWith(g, op, ty, rest)
    <3>1. CASE ReadElement
      BY <3>1 DEF ReadElement
    <3>2. CASE WriteElement
      BY <3>2 DEF WriteElement
    <3>3. CASE ReadMember
      BY <3>3 DEF ReadMember
    <3>4. CASE WriteMember
      BY <3>4 DEF WriteMember
    <3>. QED
      BY <1>4, <3>1, <3>2, <3>3, <3>4
  <2>2. Laid(g.c, S)
    BY <2>1, GEPLaid
  <2>3. \E i : cir' = Emit(g.c, i).c
    BY <2>1 DEF LeaveWith, EmitAndLeave
  <2>. QED
    BY <2>2, <2>3, LayoutLemma
<1>5. CASE CastExpr_gen \/ Argument
  <2>1. cir' = cir \/ \E r, from, to : cir' = Convert(cir, r, from, to).c
    BY <1>5 DEF CastExpr_gen, Argument
  <2>. QED
    BY <2>1, LayoutLemma
<1>. QED
  BY <1>1, <1>2, <1>3, <1>4, <1>5 DEF Memory

\* So they leave the blocks that are held apart.
LEMMA MemoryApart ==
    ASSUME IInv, Apart, Memory \/ Argument \/ Argument_missing
    PROVE  Apart'
<1>1. /\ frames # << >> /\ Top.node.kind \notin {"if", "for"}
      /\ \/ frames' = Front(frames)
         \/ \E r : Stay([Top EXCEPT !.at = "start", !.refs = Append(@, r)])
         \/ Abort
  BY MemoryWays DEF Scoped
<1>2. Laid(cir, BlocksOf(cir)) /\ Laid(cir', BlocksOf(cir))
  BY <1>1, FoundLemma, MemoryLaid
<1>3. CASE frames' = Front(frames)
  BY <1>1, <1>2, <1>3, LeaveLaid
<1>4. ASSUME NEW r, Stay([Top EXCEPT !.at = "start", !.refs = Append(@, r)])
      PROVE  Apart'
  <2>. DEFINE f == [Top EXCEPT !.at = "start", !.refs = Append(@, r)]
  <2>1. Stay(f)
    BY <1>4
  <2>2. f.node = Top.node
    BY <1>1, FoundLemma DEF FrameType
  <2>. HIDE DEF f
  <2>3. Pending(f) = {} /\ f.node.kind # "if"
    BY <1>1, <2>2 DEF Pending
  <2>. QED
    BY <1>1, <1>2, <2>1, <2>3, GoOnLaid
<1>5. CASE Abort
  BY <1>5 DEF Abort, Apart, PendingApart, BlocksAddedOnce, Function
<1>. QED
  BY <1>1, <1>3, <1>4, <1>5

\* The expressions without control flow, except a label.
LEMMA SimpleApart ==
    ASSUME IInv, Apart, Simple, ~LabelExpr_gen, ~(Argument \/ Argument_missing)
    PROVE  Apart'
<1>. DEFINE S == BlocksOf(cir)
<1>1. CASE GotoExpr_gen \/ BreakExpr_dangling
  BY <1>1 DEF GotoExpr_gen, BreakExpr_dangling, Abort, Apart, PendingApart, BlocksAddedOnce, Function
<1>2. SUFFICES ASSUME frames # << >>, ~GotoExpr_gen, ~BreakExpr_dangling
               PROVE  Apart'
  BY <1>1 DEF Simple, Constant, VariableExpr_gen, Operand, VarExpr_gen, Assign_gen,
     BinaryExpr_gen, CallExpr_gen, Return_gen, DeferExpr_gen, MatchExpr_gen,
     BreakExpr_gen, BreakExpr_error, Evaluated, At
<1>3. Laid(cir, S)
  BY <1>2, FoundLemma
<1>. HIDE DEF S
<1>4. CASE Operand
  <2>. DEFINE f == [Top EXCEPT !.at = "operand", !.i = @ + 1,
                               !.keep = IF Top.i = 0 THEN NoRef ELSE ret]
  <2>1. /\ Enter(f, Top.node.kids[Top.i + 1]) /\ cir' = cir
        /\ Top.node.kind \notin {"if", "for"}
    BY <1>4 DEF Operand, At
  <2>2. f.node = Top.node
    BY <1>2, FoundLemma DEF FrameType
  <2>. HIDE DEF f
  <2>3. Pending(f) = {} /\ f.node.kind # "if"
    BY <2>1, <2>2 DEF Pending
  <2>. QED
    BY <1>2, <1>3, <2>1, <2>3, GoOnLaid DEF S
<1>5. CASE Constant \/ VariableExpr_gen \/ CallExpr_gen \/ DeferExpr_gen
  <2>1. PICK i : EmitAndLeave(cir, i)
    BY <1>5 DEF Constant, VariableExpr_gen, CallExpr_gen, DeferExpr_gen
  <2>2. Laid(cir', S) /\ frames' = Front(frames)
    BY <1>3, <2>1, LayoutLemma DEF EmitAndLeave, Leave
  <2>. QED
    BY <1>2, <2>2, LeaveLaid DEF S
<1>6. CASE VarExpr_gen \/ Assign_gen \/ Return_gen
  <2>1. PICK c, i : EmitAndLeave(c, i) /\ (c = cir \/ \E r, from, to : c = Convert(cir, r, from, to).c)
    <3>1. CASE VarExpr_gen
      <4>. DEFINE e == IF Top.i = 0 THEN [c |-> cir, r |-> NoRef]
                       ELSE IF IsEmpty(ret) THEN [c |-> cir, r |-> ret]
                       ELSE Convert(cir, ret, Top.node.kids[1].ty, Top.node.ty)
      <4>1. EmitAndLeave(e.c, Instr("VarInit", Top.node.ty, <<e.r>>))
        BY <3>1 DEF VarExpr_gen
      <4>2. e.c = cir \/ \E r, from, to : e.c = Convert(cir, r, from, to).c
        OBVIOUS
      <4>. HIDE DEF e
      <4>. QED
        BY <4>1, <4>2
    <3>2. CASE Assign_gen \/ Return_gen
      BY <3>2 DEF Assign_gen, Return_gen
    <3>. QED
      BY <1>6, <3>1, <3>2
  <2>2. Laid(c, S)
    BY <1>3, <2>1, LayoutLemma
  <2>3. Laid(cir', S) /\ frames' = Front(frames)
    BY <2>1, <2>2, LayoutLemma DEF EmitAndLeave, Leave
  <2>. QED
    BY <1>2, <2>3, LeaveLaid DEF S
<1>9. CASE BinaryExpr_gen
  <2>. DEFINE left == AsI64(Top.node.x, cir, Top.keep, Top.node.kids[1].ty)
              right == AsI64(Top.node.x, left.c, ret, Top.node.kids[2].ty)
              e == Convert(right.c, right.r, right.ty, left.ty)
  <2>1. PICK i : (cir' = e.c /\ Leave(NoRef)) \/ EmitAndLeave(e.c, i)
    BY <1>9 DEF BinaryExpr_gen
  <2>2. ASSUME NEW op, NEW c, Laid(c, S), NEW ref, NEW ty
        PROVE  Laid(AsI64(op, c, ref, ty).c, S)
    BY <2>2, LayoutLemma DEF AsI64
  <2>3. Laid(left.c, S)
    BY <1>3, <2>2
  <2>. HIDE DEF left
  <2>4. Laid(right.c, S)
    BY <2>2, <2>3
  <2>. HIDE DEF right
  <2>5. Laid(e.c, S)
    BY <2>4, LayoutLemma
  <2>. HIDE DEF e
  <2>6. Laid(cir', S) /\ frames' = Front(frames)
    BY <2>1, <2>5, LayoutLemma DEF EmitAndLeave, Leave
  <2>. QED
    BY <1>2, <2>6, LeaveLaid DEF S
<1>7. CASE MatchExpr_gen \/ BreakExpr_error
  <2>1. cir' = cir /\ frames' = Front(frames)
    BY <1>7 DEF MatchExpr_gen, BreakExpr_error, Report, Leave
  <2>. QED
    BY <1>2, <1>3, <2>1, LeaveLaid DEF S
<1>8. CASE BreakExpr_gen
  <2>1. PICK i : EmitAndLeave(CreateGoto(cir, Last(breaks)), i)
    BY <1>8 DEF BreakExpr_gen
  <2>2. Laid(CreateGoto(cir, Last(breaks)), S)
    BY <1>3, LayoutLemma
  <2>3. Laid(cir', S) /\ frames' = Front(frames)
    BY <2>1, <2>2, LayoutLemma DEF EmitAndLeave, Leave
  <2>. QED
    BY <1>2, <2>3, LeaveLaid DEF S
<1>. QED
  BY <1>2, <1>4, <1>5, <1>6, <1>7, <1>8, <1>9 DEF Simple

\* A block of a label.
LEMMA LabelApart ==
    ASSUME IInv, Apart, LabelExpr_gen
    PROVE  Apart'
<1>. DEFINE n == Len(cir.blk)
            S == BlocksOf(cir)
            c == NewBlock(cir, Top.node.x)
<1>1. Ready /\ Top.node.kind = "label"
  BY ReadyLemma DEF LabelExpr_gen
<1>2. Laid(cir, S) /\ n \in Nat /\ S \subseteq 1..n
  BY <1>1, FoundLemma DEF Ready
<1>3. Top.node.x \in BlockNames
  BY <1>1, ProgramsAssumption DEF Ready, BlockNames
<1>4. LastBlock(c) = n + 1
  BY <1>1, <1>2, <1>3, BuildBlockLemma DEF Ready
<1>5. cir' = SetInsertPoint(CreateGoto(AddBasicBlock(c, n + 1), n + 1), n + 1) /\ frames' = Front(frames)
  BY <1>4 DEF LabelExpr_gen, Leave
<1>6. Laid(c, S)
  BY <1>2, LayoutLemma
<1>. HIDE DEF c, S, n
<1>7. n + 1 \in Nat /\ n + 1 \notin S
  BY <1>2
<1>8. Laid(AddBasicBlock(c, n + 1), S \union {n + 1})
  BY <1>6, <1>7, AddLemma
<1>9. Laid(CreateGoto(AddBasicBlock(c, n + 1), n + 1), S \union {n + 1})
  BY <1>8, LayoutLemma
<1>10. Laid(cir', S \union {n + 1})
  BY <1>5, <1>9, LayoutLemma
<1>11. S \union {n + 1} \subseteq BlocksOf(cir) \union Mine
  BY <1>2, <1>7 DEF Mine, S, n
<1>. QED
  BY <1>1, <1>5, <1>10, <1>11, LeaveApart DEF Ready

\* Blocks of statements, and the ends of loops and scopes that add no block.
LEMMA ScopeApart ==
    ASSUME IInv, Apart,
           ScopeExpr_gen \/ NextStatement \/ EndScope \/ RunDefer \/ ScopeExpr_end
    PROVE  Apart'
<1>. DEFINE S == BlocksOf(cir)
<1>1. frames # << >> /\ cir' = cir
  BY DEF ScopeExpr_gen, NextStatement, EndScope, RunDefer, ScopeExpr_end, CloseScope, At
<1>2. Laid(cir', S)
  BY <1>1, FoundLemma
<1>3. CASE ScopeExpr_gen
  <2>. DEFINE f == [Top EXCEPT !.at = "body"]
  <2>1. Stay(f) /\ Top.node.kind = "scope"
    BY <1>3 DEF ScopeExpr_gen, At
  <2>2. f.node = Top.node
    BY <1>1, FoundLemma DEF FrameType
  <2>. HIDE DEF f
  <2>3. Pending(f) = {} /\ f.node.kind # "if"
    BY <2>1, <2>2 DEF Pending
  <2>. QED
    BY <1>1, <1>2, <2>1, <2>3, GoOnLaid
<1>4. CASE NextStatement
  <2>. DEFINE f == [Top EXCEPT !.i = @ + 1]
  <2>1. /\ Enter(f, Top.node.kids[Top.i + 1])
        /\ Top.node.kind \in {"scope", "loop", "function"}
    BY <1>4 DEF NextStatement, At
  <2>2. f.node = Top.node
    BY <1>1, FoundLemma DEF FrameType
  <2>. HIDE DEF f
  <2>3. Pending(f) = {} /\ f.node.kind # "if"
    BY <2>1, <2>2 DEF Pending
  <2>. QED
    BY <1>1, <1>2, <2>1, <2>3, GoOnLaid
<1>5. CASE EndScope
  <2>. DEFINE f == [Top EXCEPT !.at = "endScope", !.defers = Last(scopes),
                               !.val = IF Top.node.kids = << >> THEN NoRef ELSE ret]
  <2>1. Stay(f) /\ Top.at = "body"
    BY <1>5 DEF EndScope, At
  <2>2. f.node = Top.node /\ f.after = Top.after /\ f.at = "endScope"
    BY <1>1, FoundLemma DEF FrameType
  <2>. HIDE DEF f
  <2>3. Pending(f) \subseteq Pending(Top) /\ f.at # "then"
    BY <2>1, <2>2 DEF Pending
  <2>. QED
    BY <1>1, <1>2, <2>1, <2>3, GoOnLaid
<1>6. CASE RunDefer
  <2>. DEFINE f == [Top EXCEPT !.defers = Tail(@)]
  <2>1. Enter(f, Head(Top.defers)) /\ Top.at = "endScope"
    BY <1>6 DEF RunDefer, At
  <2>2. f.node = Top.node /\ f.after = Top.after /\ f.at = Top.at
    BY <1>1, FoundLemma DEF FrameType
  <2>. HIDE DEF f
  <2>3. Pending(f) \subseteq Pending(Top) /\ f.at # "then"
    BY <2>1, <2>2 DEF Pending
  <2>. QED
    BY <1>1, <1>2, <2>1, <2>3, GoOnLaid
<1>7. CASE ScopeExpr_end
  <2>1. frames' = Front(frames)
    BY <1>7 DEF ScopeExpr_end, Leave
  <2>. QED
    BY <1>1, <1>2, <2>1, LeaveLaid
<1>. QED
  BY <1>3, <1>4, <1>5, <1>6, <1>7

\* The three blocks of an if: then is added, else and ifcont are held.
LEMMA IfThenApart ==
    ASSUME IInv, Apart, IfExpr_then
    PROVE  Apart'
<1>. DEFINE n == Len(cir.blk)
            S == BlocksOf(cir)
            e == Convert(cir, ret, Top.node.kids[1].ty, "bool")
            c1 == NewBlock(e.c, "then")
            a == AddBasicBlock(c1, n + 1)
            c2 == NewBlock(a, "else")
            c3 == NewBlock(c2, "ifcont")
            f == [Top EXCEPT !.at = "then", !.body = n + 1, !.alt = n + 2, !.after = n + 3]
            g == Top.node.kids[2]
<1>1. Ready /\ Top.node.kind = "if"
  <2>1. At({"if"}, "cond")
    BY DEF IfExpr_then
  <2>. QED
    BY <2>1, ReadyLemma
<1>2. Top.node.kids[1].ty \in Types /\ n \in Nat
  BY <1>1, IfNodeLemma DEF Ready
<1>3. InFunction(e.c, n) /\ e.r \in InstrRef
  BY <1>1, <1>2, BuildConvertLemma, NamesLemma DEF Ready
<1>4. Laid(cir, S) /\ S \subseteq 1..n /\ Top \in FrameType(n)
  BY <1>1, FoundLemma DEF Ready
<1>5. Laid(e.c, S)
  BY <1>4, LayoutLemma
<1>6. InFunction(c1, n + 1) /\ LastBlock(c1) = n + 1 /\ Laid(c1, S)
  BY <1>2, <1>3, <1>5, BuildBlockLemma, LayoutLemma DEF BlockNames
<1>7. /\ n + 1 \in Nat /\ n + 1 \in 1..(n + 1) /\ n + 2 \in Nat /\ n + 3 \in Nat
      /\ (n + 1) + 1 = n + 2 /\ (n + 2) + 1 = n + 3
      /\ n + 1 \notin S /\ n + 2 \notin S /\ n + 3 \notin S
  BY <1>2, <1>4
<1>8. /\ cir' = SetInsertPoint(CreateGotoIf(c3, e.r, n + 1, LastBlock(c2)), n + 1)
      /\ Enter([Top EXCEPT !.at = "then", !.body = n + 1, !.alt = LastBlock(c2),
                           !.after = LastBlock(c3)], g)
  BY <1>6 DEF IfExpr_then
<1>. HIDE DEF e, c1, g
<1>9. InFunction(a, n + 1) /\ Laid(a, S \union {n + 1})
  <2>. HIDE DEF n, S
  <2>. QED
    BY <1>6, <1>7, BuildLemma, AddLemma
<1>. HIDE DEF a
<1>10. InFunction(c2, n + 2) /\ LastBlock(c2) = n + 2 /\ Laid(c2, S \union {n + 1})
  <2>1. "else" \in BlockNames
    BY DEF BlockNames
  <2>2. InFunction(c2, (n + 1) + 1) /\ LastBlock(c2) = (n + 1) + 1
    BY <1>7, <1>9, <2>1, BuildBlockLemma
  <2>. QED
    BY <1>7, <1>9, <2>2, LayoutLemma
<1>. HIDE DEF c2
<1>11. LastBlock(c3) = n + 3 /\ Laid(c3, S \union {n + 1})
  <2>1. "ifcont" \in BlockNames
    BY DEF BlockNames
  <2>2. LastBlock(c3) = (n + 2) + 1
    BY <1>7, <1>10, <2>1, BuildBlockLemma
  <2>. QED
    BY <1>7, <1>10, <2>2, LayoutLemma
<1>. HIDE DEF c3
<1>12. Laid(CreateGotoIf(c3, e.r, n + 1, n + 2), S \union {n + 1})
  BY <1>11, LayoutLemma
<1>13. Laid(cir', S \union {n + 1})
  BY <1>8, <1>10, <1>12, LayoutLemma
<1>14. Enter(f, g)
  BY <1>8, <1>10, <1>11
<1>15. f.alt = n + 2 /\ f.after = n + 3
  BY <1>4 DEF FrameType
<1>. HIDE DEF f
<1>16. Pending(f) \subseteq {n + 2, n + 3}
  BY <1>15 DEF Pending
<1>17. Pending(f) \subseteq Mine /\ Pending(f) \intersect (S \union {n + 1}) = {} /\ f.alt # f.after
  <2>1. n + 2 > n /\ n + 3 > n /\ n + 2 # n + 1 /\ n + 3 # n + 1 /\ n + 2 # n + 3
    BY <1>2
  <2>2. n + 2 \in Mine /\ n + 3 \in Mine
    BY <1>7, <2>1 DEF Mine, n
  <2>. HIDE DEF n, S
  <2>. QED
    BY <1>7, <1>15, <1>16, <2>1, <2>2
<1>18. S \union {n + 1} \subseteq BlocksOf(cir) \union Mine
  <2>1. n + 1 > n
    BY <1>2
  <2>. QED
    BY <1>7, <2>1 DEF Mine, n
<1>19. frames # << >>
  BY <1>1 DEF Ready
<1>. HIDE DEF n, S
<1>. QED
  BY <1>13, <1>14, <1>17, <1>18, <1>19, GoOnApart

\* The file with the else block, and with the block after the if.
LEMMA BranchesLaid ==
    ASSUME NEW c, NEW S, Laid(c, S), Pending(Top) \subseteq Nat,
           Pending(Top) \intersect S = {}, Top.node.kind = "if"
    PROVE  /\ Top.at = "then" => Laid(ElseBlock(c), S \union {Top.alt})
           /\ Top.at \in {"then", "else"} =>
                 \A diverts : Laid(MergeBlock(c, diverts), S \union {Top.after})
<1>1. ASSUME Top.at = "then"
      PROVE  Laid(ElseBlock(c), S \union {Top.alt})
  <2>1. Top.alt \in Nat /\ Top.alt \notin S
    BY <1>1 DEF Pending
  <2>2. PICK d : d = IF Diverts(Top.node.kids[2]) THEN c ELSE CreateGoto(c, Top.after)
    OBVIOUS
  <2>3. Laid(d, S)
    BY <2>2, LayoutLemma
  <2>4. Laid(AddBasicBlock(d, Top.alt), S \union {Top.alt})
    BY <2>1, <2>3, AddLemma
  <2>5. ElseBlock(c) = SetInsertPoint(AddBasicBlock(d, Top.alt), Top.alt)
    BY <2>2 DEF ElseBlock
  <2>. QED
    BY <2>4, <2>5, LayoutLemma
<1>2. ASSUME Top.at \in {"then", "else"}, NEW diverts
      PROVE  Laid(MergeBlock(c, diverts), S \union {Top.after})
  <2>1. Top.after \in Nat /\ Top.after \notin S
    BY <1>2 DEF Pending
  <2>2. PICK d : d = IF diverts THEN c ELSE CreateGoto(c, Top.after)
    OBVIOUS
  <2>3. Laid(d, S)
    BY <2>2, LayoutLemma
  <2>4. Laid(AddBasicBlock(d, Top.after), S \union {Top.after})
    BY <2>1, <2>3, AddLemma
  <2>5. MergeBlock(c, diverts) = SetInsertPoint(AddBasicBlock(d, Top.after), Top.after)
    BY <2>2 DEF MergeBlock
  <2>. QED
    BY <2>4, <2>5, LayoutLemma
<1>. QED
  BY <1>1, <1>2

\* The rest of an if: the blocks it holds are added in their turn.
LEMMA IfApart ==
    ASSUME IInv, Apart,
           \/ IfExpr_gen \/ IfExpr_then \/ IfExpr_untyped \/ IfExpr_noElse
           \/ IfExpr_else \/ IfExpr_merge \/ IfExpr_abandon
    PROVE  Apart'
<1>. DEFINE S == BlocksOf(cir)
<1>1. frames # << >> /\ Top.node.kind = "if"
  BY DEF IfExpr_gen, IfExpr_then, IfExpr_untyped, IfExpr_noElse, IfExpr_else, IfExpr_merge,
     IfExpr_abandon, At
<1>2. Laid(cir, S) /\ Pending(Top) \subseteq Nat /\ Pending(Top) \intersect S = {}
  BY <1>1, FoundLemma, OwnLemma
<1>. HIDE DEF S
<1>3. CASE IfExpr_gen
  <2>. DEFINE f == [Top EXCEPT !.at = "cond"]
  <2>1. Enter(f, Top.node.kids[1]) /\ cir' = cir
    BY <1>3 DEF IfExpr_gen
  <2>2. f.node = Top.node /\ f.at = "cond"
    BY <1>1, FoundLemma DEF FrameType
  <2>. HIDE DEF f
  <2>3. Pending(f) = {} /\ f.at # "then"
    BY <1>1, <2>2 DEF Pending
  <2>. QED
    BY <1>1, <1>2, <2>1, <2>3, GoOnLaid DEF S
<1>4. CASE IfExpr_then
  BY <1>4, IfThenApart
<1>5. CASE IfExpr_untyped
  BY <1>5 DEF IfExpr_untyped, Abort, Apart, PendingApart, BlocksAddedOnce, Function
<1>6. CASE IfExpr_noElse
  <2>1. PICK i : EmitAndLeave(MergeBlock(ElseBlock(cir), FALSE), i)
    BY <1>6 DEF IfExpr_noElse
  <2>2. Top.at = "then"
    BY <1>6 DEF IfExpr_noElse, At
  <2>3. Top.alt \in Pending(Top) /\ Top.after \in Pending(Top) /\ Top.alt # Top.after
    BY <1>1, <2>2, OwnLemma DEF Pending
  <2>4. PICK d : d = ElseBlock(cir)
    OBVIOUS
  <2>5. Laid(d, S \union {Top.alt})
    BY <1>1, <1>2, <2>2, <2>4, BranchesLaid
  <2>6. PICK m : m = MergeBlock(d, FALSE)
    OBVIOUS
  <2>7. Laid(m, S \union {Top.alt, Top.after})
    <3>1. Top.after \in Nat /\ Top.after \notin S \union {Top.alt}
      BY <1>2, <2>3
    <3>2. PICK T : T = S \union {Top.alt}
      OBVIOUS
    <3>3. Laid(CreateGoto(d, Top.after), T)
      BY <2>5, <3>2, LayoutLemma
    <3>4. Laid(AddBasicBlock(CreateGoto(d, Top.after), Top.after), T \union {Top.after})
      BY <3>1, <3>2, <3>3, AddLemma
    <3>5. m = SetInsertPoint(AddBasicBlock(CreateGoto(d, Top.after), Top.after), Top.after)
      BY <2>6 DEF MergeBlock
    <3>6. Laid(m, T \union {Top.after})
      BY <3>4, <3>5, LayoutLemma
    <3>7. T \union {Top.after} = S \union {Top.alt, Top.after}
      BY <3>2
    <3>. QED
      BY <3>6, <3>7
  <2>8. Laid(cir', S \union {Top.alt, Top.after}) /\ frames' = Front(frames)
    BY <2>1, <2>4, <2>6, <2>7, LayoutLemma DEF EmitAndLeave, Leave
  <2>9. S \union {Top.alt, Top.after} \subseteq BlocksOf(cir) \union Mine
    BY <2>3 DEF Mine, S
  <2>. QED
    BY <1>1, <2>8, <2>9, LeaveApart
<1>7. CASE IfExpr_else
  <2>. DEFINE f == [Top EXCEPT !.at = "else", !.keep = ret, !.body = cir.cur]
  <2>1. Enter(f, Top.node.kids[3]) /\ cir' = ElseBlock(cir) /\ Top.at = "then"
    BY <1>7 DEF IfExpr_else, At
  <2>2. f.node = Top.node /\ f.at = "else" /\ f.after = Top.after
    BY <1>1, FoundLemma DEF FrameType
  <2>. HIDE DEF f
  <2>3. Top.alt \in Pending(Top) /\ Top.after \in Pending(Top) /\ Top.alt # Top.after
    BY <1>1, <2>1, OwnLemma DEF Pending
  <2>4. Pending(f) \subseteq {Top.after} /\ f.at # "then"
    BY <2>2 DEF Pending
  <2>5. Laid(cir', S \union {Top.alt})
    BY <1>1, <1>2, <2>1, BranchesLaid
  <2>6. /\ Pending(f) \subseteq Mine /\ Pending(f) \intersect (S \union {Top.alt}) = {}
        /\ S \union {Top.alt} \subseteq BlocksOf(cir) \union Mine
    BY <1>2, <2>3, <2>4 DEF Mine, S
  <2>. QED
    BY <1>1, <2>1, <2>4, <2>5, <2>6, GoOnApart
<1>8. CASE IfExpr_merge
  <2>1. PICK c, i, diverts :
           /\ EmitAndLeave(MergeBlock(c, diverts), i)
           /\ c = cir \/ \E r, from, to : c = Convert(cir, r, from, to).c
    <3>. DEFINE then == Top.node.kids[2]
                else == Top.node.kids[3]
                e == IF else.ty = "void" THEN [c |-> cir, r |-> ret]
                     ELSE Convert(cir, ret, else.ty, then.ty)
                i == IF Diverts(then) \/ Diverts(else) \/ then.ty = "void"
                     THEN Instr("ConstVoid", "void", << >>)
                     ELSE PhiInstr(then.ty, Top.body, Top.keep, Top.alt, e.r)
    <3>1. EmitAndLeave(MergeBlock(e.c, Diverts(else)), i)
      BY <1>8 DEF IfExpr_merge
    <3>2. e.c = cir \/ \E r, from, to : e.c = Convert(cir, r, from, to).c
      OBVIOUS
    <3>. HIDE DEF e, i, else, then
    <3>. QED
      BY <3>1, <3>2
  <2>2. Top.at = "else"
    BY <1>8 DEF IfExpr_merge, At
  <2>3. Laid(c, S)
    BY <1>2, <2>1, LayoutLemma
  <2>4. Laid(MergeBlock(c, diverts), S \union {Top.after})
    BY <1>1, <1>2, <2>2, <2>3, BranchesLaid
  <2>5. Laid(cir', S \union {Top.after}) /\ frames' = Front(frames)
    BY <2>1, <2>4, LayoutLemma DEF EmitAndLeave, Leave
  <2>6. S \union {Top.after} \subseteq BlocksOf(cir) \union Mine
    BY <1>1, <2>2 DEF Mine, S, Pending
  <2>. QED
    BY <1>1, <2>5, <2>6, LeaveApart
<1>9. CASE IfExpr_abandon
  <2>1. cir' = cir /\ frames' = Front(frames)
    BY <1>9 DEF IfExpr_abandon, Leave
  <2>. QED
    BY <1>1, <1>2, <2>1, LeaveLaid DEF S
<1>. QED
  BY <1>3, <1>4, <1>5, <1>6, <1>7, <1>8, <1>9

\* A new block that is added at once.
LEMMA AddedApart ==
    ASSUME NEW n \in Nat, NEW c, InFunction(c, n), NEW base \in BlockNames,
           NEW S, Laid(c, S), n + 1 \notin S
    PROVE  /\ Laid(Added(c, base), S \union {n + 1})
           /\ InFunction(Added(c, base), n + 1) /\ LastBlock(Added(c, base)) = n + 1
<1>1. LastBlock(NewBlock(c, base)) = n + 1 /\ Laid(NewBlock(c, base), S)
  BY BuildBlockLemma, LayoutLemma
<1>2. Laid(AddBasicBlock(NewBlock(c, base), n + 1), S \union {n + 1})
  <2>1. n + 1 \in Nat
    OBVIOUS
  <2>. QED
    BY <1>1, <2>1, AddLemma
<1>3. Added(c, base) = AddBasicBlock(NewBlock(c, base), n + 1)
  BY <1>1 DEF Added
<1>. QED
  BY <1>2, <1>3, BuildBlockLemma

\* What an action of a loop finds.
LEMMA LoopFoundLemma ==
    ASSUME IInv, Apart, NEW kinds, NEW point, At(kinds, point)
    PROVE  /\ Ready /\ frames # << >> /\ Top.node.kind \in kinds /\ Top.at = point
           /\ Len(cir.blk) \in Nat /\ InFunction(cir, Len(cir.blk))
           /\ Laid(cir, BlocksOf(cir)) /\ BlocksOf(cir) \subseteq 1..Len(cir.blk)
           /\ Top \in FrameType(Len(cir.blk)) /\ Top.node \in Nodes
           /\ Len(cir.blk) + 1 \notin BlocksOf(cir) /\ Len(cir.blk) + 2 \notin BlocksOf(cir)
           /\ Len(cir.blk) + 1 \in Mine /\ Len(cir.blk) + 2 \in Mine
<1>1. Ready /\ Top.node.kind \in kinds /\ Top.at = point
  BY ReadyLemma
<1>2. /\ frames # << >> /\ Len(cir.blk) \in Nat /\ InFunction(cir, Len(cir.blk))
      /\ Top \in FrameType(Len(cir.blk)) /\ Top.node \in Nodes
  BY <1>1 DEF Ready
<1>3. Laid(cir, BlocksOf(cir)) /\ BlocksOf(cir) \subseteq 1..Len(cir.blk)
  BY <1>2, FoundLemma
<1>4. Len(cir.blk) + 1 \notin BlocksOf(cir) /\ Len(cir.blk) + 2 \notin BlocksOf(cir)
  BY <1>2, <1>3
<1>5. Len(cir.blk) + 1 \in Mine /\ Len(cir.blk) + 2 \in Mine
  BY <1>2 DEF Mine
<1>. QED
  BY <1>1, <1>2, <1>3, <1>4, <1>5

\* The block of an infinite loop.
LEMMA LoopApart ==
    ASSUME IInv, Apart, LoopExpr_gen \/ LoopExpr_end \/ LoopExpr_abandon
    PROVE  Apart'
<1>. DEFINE n == Len(cir.blk)
            S == BlocksOf(cir)
<1>1. CASE LoopExpr_gen
  <2>. DEFINE f == [Top EXCEPT !.at = "body", !.head = n + 1]
              c == NewBlock(cir, "loop_infinite")
  <2>1. At({"loop"}, "start")
    BY <1>1 DEF LoopExpr_gen
  <2>2. /\ frames # << >> /\ Top.node.kind = "loop" /\ n \in Nat /\ InFunction(cir, n)
        /\ Laid(cir, S) /\ Top \in FrameType(n) /\ n + 1 \notin S /\ n + 1 \in Mine
    BY <2>1, LoopFoundLemma
  <2>3. LastBlock(c) = n + 1 /\ Laid(c, S)
    BY <2>2, BuildBlockLemma, LayoutLemma DEF BlockNames
  <2>4. cir' = SetInsertPoint(CreateGoto(AddBasicBlock(c, n + 1), n + 1), n + 1) /\ Stay(f)
    BY <1>1, <2>3 DEF LoopExpr_gen
  <2>5. f.node = Top.node
    BY <2>2 DEF FrameType
  <2>. HIDE DEF f, c, n, S
  <2>6. Laid(AddBasicBlock(c, n + 1), S \union {n + 1})
    <3>1. n + 1 \in Nat
      BY <2>2
    <3>. QED
      BY <2>2, <2>3, <3>1, AddLemma
  <2>7. Laid(CreateGoto(AddBasicBlock(c, n + 1), n + 1), S \union {n + 1})
    BY <2>6, LayoutLemma
  <2>8. Laid(cir', S \union {n + 1})
    BY <2>4, <2>7, LayoutLemma
  <2>9. Pending(f) = {} /\ f.node.kind # "if"
    BY <2>2, <2>5 DEF Pending
  <2>10. S \union {n + 1} \subseteq BlocksOf(cir) \union Mine
    BY <2>2 DEF S
  <2>. QED
    BY <2>2, <2>4, <2>8, <2>9, <2>10, GoOnApart
<1>2. CASE LoopExpr_end
  <2>1. PICK i : EmitAndLeave(CreateGoto(cir, Top.head), i)
    BY <1>2 DEF LoopExpr_end
  <2>2. frames # << >>
    BY <1>2 DEF LoopExpr_end, CloseScope, At
  <2>3. Laid(CreateGoto(cir, Top.head), S)
    BY <2>2, FoundLemma, LayoutLemma
  <2>4. Laid(cir', S) /\ frames' = Front(frames)
    BY <2>1, <2>3, LayoutLemma DEF EmitAndLeave, Leave
  <2>. QED
    BY <2>2, <2>4, LeaveLaid
<1>3. CASE LoopExpr_abandon
  <2>1. frames # << >> /\ cir' = cir /\ frames' = Front(frames)
    BY <1>3 DEF LoopExpr_abandon, Leave, At
  <2>. QED
    BY <2>1, FoundLemma, LeaveLaid
<1>. QED
  BY <1>1, <1>2, <1>3

\* The three blocks of a while, each added as it is made.
LEMMA WhileApart ==
    ASSUME IInv, Apart,
           WhileExpr_gen \/ WhileExpr_body \/ WhileExpr_abandon \/ WhileExpr_end
    PROVE  Apart'
<1>. DEFINE n == Len(cir.blk)
            S == BlocksOf(cir)
<1>1. CASE WhileExpr_gen
  <2>. DEFINE c == Added(cir, "while")
              d == SetInsertPoint(CreateGoto(c, n + 1), n + 1)
              e == Added(d, "loop_while")
  <2>1. At({"while"}, "start")
    BY <1>1 DEF WhileExpr_gen
  <2>2. /\ frames # << >> /\ Top.node.kind = "while" /\ n \in Nat /\ InFunction(cir, n)
        /\ Laid(cir, S) /\ Top \in FrameType(n)
        /\ n + 1 \notin S /\ n + 2 \notin S /\ n + 1 \in Mine /\ n + 2 \in Mine
    BY <2>1, LoopFoundLemma
  <2>3. LastBlock(c) = n + 1 /\ InFunction(c, n + 1) /\ Laid(c, S \union {n + 1})
    BY <2>2, AddedApart DEF BlockNames
  <2>4. PICK head, body : /\ cir' = e
                          /\ Enter([Top EXCEPT !.at = "cond", !.head = head, !.body = body],
                                   Top.node.kids[1])
    BY <1>1, <2>3 DEF WhileExpr_gen
  <2>. HIDE DEF c, S
  <2>5. Laid(CreateGoto(c, n + 1), S \union {n + 1})
    BY <2>3, LayoutLemma
  <2>6. Laid(d, S \union {n + 1})
    BY <2>5, LayoutLemma
  <2>7. InFunction(d, n + 1)
    <3>1. n + 1 \in Nat /\ n + 1 \in 1..(n + 1)
      BY <2>2
    <3>. HIDE DEF n
    <3>. QED
      BY <2>3, <3>1, BuildLemma
  <2>. HIDE DEF d
  <2>8. Laid(e, S \union {n + 1, n + 2})
    <3>1. n + 1 \in Nat /\ (n + 1) + 1 = n + 2 /\ "loop_while" \in BlockNames /\ n + 2 # n + 1
      BY <2>2 DEF BlockNames
    <3>2. n + 2 \notin S \union {n + 1}
      BY <2>2, <3>1
    <3>. HIDE DEF n
    <3>3. Laid(e, (S \union {n + 1}) \union {n + 2})
      BY <2>6, <2>7, <3>1, <3>2, AddedApart
    <3>4. (S \union {n + 1}) \union {n + 2} = S \union {n + 1, n + 2}
      OBVIOUS
    <3>. QED
      BY <3>3, <3>4
  <2>. HIDE DEF e
  <2>. DEFINE f == [Top EXCEPT !.at = "cond", !.head = head, !.body = body]
  <2>9. f.node = Top.node
    BY <2>2 DEF FrameType
  <2>10. Enter(f, Top.node.kids[1])
    BY <2>4
  <2>. HIDE DEF f
  <2>11. Pending(f) = {} /\ f.node.kind # "if"
    BY <2>2, <2>9 DEF Pending
  <2>12. S \union {n + 1, n + 2} \subseteq BlocksOf(cir) \union Mine
    BY <2>2 DEF S
  <2>. HIDE DEF n
  <2>. QED
    BY <2>2, <2>4, <2>8, <2>10, <2>11, <2>12, GoOnApart
<1>2. CASE WhileExpr_body
  <2>. DEFINE c == Added(cir, "afterloop_while")
  <2>1. At({"while"}, "cond")
    BY <1>2 DEF WhileExpr_body
  <2>2. /\ frames # << >> /\ Top.node.kind = "while" /\ n \in Nat /\ InFunction(cir, n)
        /\ Laid(cir, S) /\ Top \in FrameType(n) /\ n + 1 \notin S /\ n + 1 \in Mine
    BY <2>1, LoopFoundLemma
  <2>3. LastBlock(c) = n + 1 /\ Laid(c, S \union {n + 1})
    BY <2>2, AddedApart DEF BlockNames
  <2>4. /\ cir' = SetInsertPoint(CreateGotoIf(c, ret, Top.body, LastBlock(c)), Top.body)
        /\ Enter([Top EXCEPT !.at = "body", !.after = LastBlock(c)], Top.node.kids[2])
    BY <1>2 DEF WhileExpr_body
  <2>. DEFINE f == [Top EXCEPT !.at = "body", !.after = LastBlock(c)]
  <2>5. f.node = Top.node
    BY <2>2 DEF FrameType
  <2>6. Enter(f, Top.node.kids[2])
    BY <2>4
  <2>. HIDE DEF c, f, S, n
  <2>7. Laid(CreateGotoIf(c, ret, Top.body, LastBlock(c)), S \union {n + 1})
    BY <2>3, LayoutLemma
  <2>8. Laid(cir', S \union {n + 1})
    BY <2>4, <2>7, LayoutLemma
  <2>9. Pending(f) = {} /\ f.node.kind # "if"
    BY <2>2, <2>5 DEF Pending
  <2>10. S \union {n + 1} \subseteq BlocksOf(cir) \union Mine
    BY <2>2 DEF S
  <2>. QED
    BY <2>2, <2>6, <2>8, <2>9, <2>10, GoOnApart
<1>3. CASE WhileExpr_abandon
  <2>1. frames # << >> /\ cir' = cir /\ frames' = Front(frames)
    BY <1>3 DEF WhileExpr_abandon, Leave, At
  <2>. QED
    BY <2>1, FoundLemma, LeaveLaid
<1>4. CASE WhileExpr_end
  <2>1. PICK i : EmitAndLeave(SetInsertPoint(CreateGoto(cir, Top.head), Top.after), i)
    BY <1>4 DEF WhileExpr_end
  <2>2. frames # << >>
    BY <1>4 DEF WhileExpr_end, CloseScope, At
  <2>3. Laid(CreateGoto(cir, Top.head), S)
    BY <2>2, FoundLemma, LayoutLemma
  <2>4. Laid(SetInsertPoint(CreateGoto(cir, Top.head), Top.after), S)
    BY <2>3, LayoutLemma
  <2>5. Laid(cir', S) /\ frames' = Front(frames)
    BY <2>1, <2>4, LayoutLemma DEF EmitAndLeave, Leave
  <2>. QED
    BY <2>2, <2>5, LeaveLaid
<1>. QED
  BY <1>1, <1>2, <1>3, <1>4

\* The block of the condition of a for, added as it is made.
LEMMA ForCondApart ==
    ASSUME IInv, Apart, ForExpr_cond
    PROVE  Apart'
<1>. DEFINE n == Len(cir.blk)
            S == BlocksOf(cir)
            start == Convert(cir, ret, Top.node.kids[1].ty, "val")
            i == Instr("VarInit", "val", <<start.r>>)
            var == Emit(start.c, i)
            c == Added(var.c, "loop_for_cond")
            ref == var.r
            f == [Top EXCEPT !.at = "cond", !.keep = ref, !.head = n + 1]
            g == Top.node.kids[2]
<1>1. /\ Ready /\ frames # << >> /\ Top.node.kind = "for" /\ n \in Nat /\ InFunction(cir, n)
      /\ Laid(cir, S) /\ Top \in FrameType(n) /\ n + 1 \notin S /\ n + 1 \in Mine
  <2>1. At({"for"}, "init")
    BY DEF ForExpr_cond
  <2>. QED
    BY <2>1, LoopFoundLemma
<1>2. InFunction(start.c, n) /\ start.r \in InstrRef /\ Laid(start.c, S)
  <2>1. Laid(start.c, S)
    BY <1>1, LayoutLemma
  <2>. QED
    BY <1>1, <2>1, BuildConvertLemma, NamesLemma DEF Ready
<1>3. /\ cir' = SetInsertPoint(CreateGoto(c, LastBlock(c)), LastBlock(c))
      /\ Enter([Top EXCEPT !.at = "cond", !.keep = ref, !.head = LastBlock(c)], g)
  BY DEF ForExpr_cond
<1>. HIDE DEF start, g
<1>4. i \in Instruction(n) /\ ~Branches(i)
  BY <1>1, <1>2, BuildOperandsLemma, NamesLemma
<1>. HIDE DEF i
<1>5. InFunction(var.c, n) /\ Laid(var.c, S)
  BY <1>1, <1>2, <1>4, BuildInstructionLemma, LayoutLemma
<1>. HIDE DEF var, ref, S
<1>6. LastBlock(c) = n + 1 /\ Laid(c, S \union {n + 1})
  BY <1>1, <1>5, AddedApart DEF BlockNames
<1>7. Enter(f, g)
  BY <1>3, <1>6
<1>8. f.node = Top.node
  BY <1>1 DEF FrameType
<1>. HIDE DEF c, f, n
<1>9. Laid(CreateGoto(c, n + 1), S \union {n + 1})
  BY <1>6, LayoutLemma
<1>10. Laid(cir', S \union {n + 1})
  BY <1>3, <1>6, <1>9, LayoutLemma
<1>11. f.at = "cond" /\ Pending(f) = {} /\ f.node.kind # "if"
  <2>1. f.at = "cond"
    BY <1>1 DEF f, FrameType
  <2>. QED
    BY <1>1, <1>8, <2>1 DEF Pending
<1>12. S \union {n + 1} \subseteq BlocksOf(cir) \union Mine
  BY <1>1 DEF S
<1>. QED
  BY <1>1, <1>7, <1>10, <1>11, <1>12, GoOnApart

\* The body of a for: its block is added, the one after the loop is held.
LEMMA ForBodyApart ==
    ASSUME IInv, Apart, ForExpr_body
    PROVE  Apart'
<1>. DEFINE n == Len(cir.blk)
            S == BlocksOf(cir)
            c == Added(cir, "loop_for")
            d == NewBlock(c, "afterloop")
            f == [Top EXCEPT !.at = "body", !.after = n + 2]
            g == Top.node.kids[3]
<1>1. /\ frames # << >> /\ Top.node.kind = "for" /\ n \in Nat /\ InFunction(cir, n)
      /\ Laid(cir, S) /\ Top \in FrameType(n)
      /\ n + 1 \notin S /\ n + 1 \in Mine /\ n + 2 \notin S /\ n + 2 \in Mine
  <2>1. At({"for"}, "cond")
    BY DEF ForExpr_body
  <2>. QED
    BY <2>1, LoopFoundLemma
<1>2. LastBlock(c) = n + 1 /\ InFunction(c, n + 1) /\ Laid(c, S \union {n + 1})
  BY <1>1, AddedApart DEF BlockNames
<1>3. /\ cir' = SetInsertPoint(CreateGotoIf(d, ret, LastBlock(c), LastBlock(d)), LastBlock(c))
      /\ Enter([Top EXCEPT !.at = "body", !.after = LastBlock(d)], g)
  BY DEF ForExpr_body
<1>. HIDE DEF c, g, S
<1>4. LastBlock(d) = n + 2 /\ Laid(d, S \union {n + 1})
  <2>1. "afterloop" \in BlockNames
    BY DEF BlockNames
  <2>2. n + 1 \in Nat /\ (n + 1) + 1 = n + 2
    BY <1>1
  <2>3. LastBlock(d) = (n + 1) + 1
    BY <1>2, <2>1, <2>2, BuildBlockLemma
  <2>. QED
    BY <1>2, <2>2, <2>3, LayoutLemma
<1>5. Enter(f, g)
  BY <1>3, <1>4
<1>6. f.node = Top.node /\ f.after = n + 2
  BY <1>1 DEF FrameType
<1>7. n + 2 # n + 1
  BY <1>1
<1>. HIDE DEF d, f, n
<1>8. \A b : Laid(CreateGotoIf(d, ret, LastBlock(c), b), S \union {n + 1})
  BY <1>4, LayoutLemma
<1>9. Laid(cir', S \union {n + 1})
  BY <1>3, <1>8, LayoutLemma
<1>10. f.node.kind # "if" /\ Pending(f) \subseteq {n + 2}
  BY <1>1, <1>6 DEF Pending
<1>11. Pending(f) \subseteq Mine /\ Pending(f) \intersect (S \union {n + 1}) = {}
  BY <1>1, <1>7, <1>10
<1>12. S \union {n + 1} \subseteq BlocksOf(cir) \union Mine
  BY <1>1 DEF S
<1>. QED
  BY <1>1, <1>5, <1>9, <1>10, <1>11, <1>12, GoOnApart

\* The end of a for: the block after the loop is added.
LEMMA ForEndApart ==
    ASSUME IInv, Apart, ForExpr_end
    PROVE  Apart'
<1>. DEFINE S == BlocksOf(cir)
<1>1. frames # << >> /\ Top.node.kind = "for" /\ Top.at = "step" /\ Laid(cir, S)
  BY FoundLemma DEF ForExpr_end, At
<1>2. Top.after \in Nat /\ Top.after \notin S /\ Top.after \in Pending(Top)
  <2>1. Top.after \in Pending(Top)
    BY <1>1 DEF Pending
  <2>. QED
    BY <1>1, <2>1, OwnLemma
<1>. HIDE DEF S
<1>3. PICK c, i : /\ Laid(c, S)
                  /\ EmitAndLeave(SetInsertPoint(AddBasicBlock(CreateGoto(c, Top.head), Top.after),
                                                 Top.after), i)
  <2>. DEFINE step == Convert(cir, ret, Top.node.kids[4].ty, "val")
              curVar == Emit(step.c, Instr("LoadVar", "val", <<Top.keep>>))
              nextVar == Emit(curVar.c, Instr("Binary", "val", <<curVar.r, step.r>>))
              store == Emit(nextVar.c, Instr("StoreVar", "void", <<Top.keep, nextVar.r>>))
  <2>1. EmitAndLeave(SetInsertPoint(AddBasicBlock(CreateGoto(store.c, Top.head), Top.after),
                                    Top.after), Instr("ConstVoid", "void", << >>))
    BY DEF ForExpr_end
  <2>2. Laid(step.c, S)
    BY <1>1, LayoutLemma
  <2>. HIDE DEF step
  <2>3. Laid(curVar.c, S)
    BY <2>2, LayoutLemma
  <2>. HIDE DEF curVar
  <2>4. Laid(nextVar.c, S)
    BY <2>3, LayoutLemma
  <2>. HIDE DEF nextVar
  <2>5. Laid(store.c, S)
    BY <2>4, LayoutLemma
  <2>. HIDE DEF store
  <2>. QED
    BY <2>1, <2>5
<1>4. Laid(CreateGoto(c, Top.head), S)
  BY <1>3, LayoutLemma
<1>5. Laid(AddBasicBlock(CreateGoto(c, Top.head), Top.after), S \union {Top.after})
  BY <1>2, <1>4, AddLemma
<1>6. Laid(SetInsertPoint(AddBasicBlock(CreateGoto(c, Top.head), Top.after), Top.after),
           S \union {Top.after})
  BY <1>5, LayoutLemma
<1>7. Laid(cir', S \union {Top.after}) /\ frames' = Front(frames)
  BY <1>3, <1>6, LayoutLemma DEF EmitAndLeave, Leave
<1>8. S \union {Top.after} \subseteq BlocksOf(cir) \union Mine
  BY <1>2 DEF Mine, S
<1>. QED
  BY <1>1, <1>7, <1>8, LeaveApart

\* The rest of a for.
LEMMA ForApart ==
    ASSUME IInv, Apart,
           \/ ForExpr_gen \/ ForExpr_cond \/ ForExpr_body \/ ForExpr_step
           \/ ForExpr_end \/ ForExpr_abandon
    PROVE  Apart'
<1>1. CASE ForExpr_cond \/ ForExpr_body \/ ForExpr_end
  BY <1>1, ForCondApart, ForBodyApart, ForEndApart
<1>2. CASE ForExpr_gen
  <2>. DEFINE f == [Top EXCEPT !.at = "init"]
  <2>1. /\ frames # << >> /\ Top.node.kind = "for" /\ cir' = cir
        /\ Enter(f, Top.node.kids[1])
    BY <1>2 DEF ForExpr_gen, At
  <2>2. f.node = Top.node /\ f.at = "init"
    BY <2>1, FoundLemma DEF FrameType
  <2>. HIDE DEF f
  <2>3. Pending(f) = {} /\ f.node.kind # "if"
    BY <2>1, <2>2 DEF Pending
  <2>4. Laid(cir', BlocksOf(cir))
    BY <2>1, FoundLemma
  <2>. QED
    BY <2>1, <2>3, <2>4, GoOnLaid
<1>3. CASE ForExpr_step
  <2>. DEFINE f == [Top EXCEPT !.at = "step"]
  <2>1. /\ frames # << >> /\ Top.node.kind = "for" /\ Top.at = "endScope" /\ cir' = cir
        /\ Enter(f, Top.node.kids[4])
    BY <1>3 DEF ForExpr_step, CloseScope, At
  <2>2. f.node = Top.node /\ f.at = "step" /\ f.after = Top.after
    BY <2>1, FoundLemma DEF FrameType
  <2>. HIDE DEF f
  <2>3. Pending(f) \subseteq Pending(Top) /\ f.node.kind # "if"
    BY <2>1, <2>2 DEF Pending
  <2>4. Laid(cir', BlocksOf(cir))
    BY <2>1, FoundLemma
  <2>. QED
    BY <2>1, <2>3, <2>4, GoOnLaid
<1>4. CASE ForExpr_abandon
  <2>1. frames # << >> /\ cir' = cir /\ frames' = Front(frames)
    BY <1>4 DEF ForExpr_abandon, Leave, At
  <2>. QED
    BY <2>1, FoundLemma, LeaveLaid
<1>. QED
  BY <1>1, <1>2, <1>3, <1>4

\* A new function has no block yet.
LEMMA NewFunctionLaid ==
    ASSUME NEW c, Good(c), OnceIn(c)
    PROVE  Laid(AddFunction(c), BlocksOf(c))
<1>. DEFINE d == AddFunction(c)
            S == BlocksOf(c)
            n == Len(c.blk)
<1>1. PICK s : s = c.fun
  OBVIOUS
<1>2. s \in Seq(Seq(Nat)) /\ "fun" \in DOMAIN c
  <2>1. s \in Seq(Seq(1..n)) /\ n \in Nat /\ "fun" \in DOMAIN c
    BY <1>1 DEF Good, WellFormed, FileCIR
  <2>. HIDE DEF n
  <2>2. Seq(1..n) \subseteq Seq(Nat)
    BY <2>1
  <2>. QED
    BY <2>1, <2>2
<1>3. PICK t : t = Append(s, << >>)
  OBVIOUS
<1>4. d.fun = t /\ "fun" \in DOMAIN d
  BY <1>1, <1>2, <1>3 DEF AddFunction
<1>. HIDE DEF d
<1>5. PICK m : m = Len(s) + 1
  OBVIOUS
<1>6. /\ t \in Seq(Seq(Nat)) /\ t # << >> /\ m \in DOMAIN t /\ t[m] = << >>
      /\ \A G \in DOMAIN t : G # m => G \in DOMAIN s /\ t[G] = s[G]
      /\ \A G \in DOMAIN s : G \in DOMAIN t /\ t[G] = s[G]
  <2>. DEFINE Q == Seq(Nat)
  <2>1. s \in Seq(Q) /\ << >> \in Q
    BY <1>2
  <2>. HIDE DEF Q
  <2>2. /\ t \in Seq(Q) /\ t # << >> /\ DOMAIN t = 1..m /\ DOMAIN s = 1..(m - 1) /\ m \in Nat /\ m > 0
        /\ t[m] = << >> /\ \A G \in 1..(m - 1) : t[G] = s[G]
    BY <1>3, <1>5, <2>1
  <2>3. t \in Seq(Seq(Nat))
    BY <2>2 DEF Q
  <2>. QED
    BY <2>2, <2>3
<1>7. ToSet(t[m]) = {}
  BY <1>6 DEF ToSet
<1>8. /\ \A F \in DOMAIN s : \A j, k \in DOMAIN s[F] : s[F][j] = s[F][k] => j = k
      /\ \A F, G \in DOMAIN s : F # G => ToSet(s[F]) \intersect ToSet(s[G]) = {}
  BY <1>1 DEF OnceIn
<1>9. OnceIn(d)
  <2>1. ASSUME NEW F \in DOMAIN t, NEW j \in DOMAIN t[F], NEW k \in DOMAIN t[F], t[F][j] = t[F][k]
        PROVE  j = k
    <3>1. CASE F = m
      BY <1>6, <2>1, <3>1
    <3>2. CASE F # m
      BY <1>6, <1>8, <2>1, <3>2
    <3>. QED
      BY <3>1, <3>2
  <2>2. ASSUME NEW F \in DOMAIN t, NEW G \in DOMAIN t, F # G
        PROVE  ToSet(t[F]) \intersect ToSet(t[G]) = {}
    <3>1. CASE F = m \/ G = m
      BY <1>7, <3>1
    <3>2. CASE F # m /\ G # m
      BY <1>6, <1>8, <2>2, <3>2
    <3>. QED
      BY <3>1, <3>2
  <2>. QED
    BY <1>4, <2>1, <2>2 DEF OnceIn
<1>10. BlocksOf(d) = S
  <2>1. BlocksOf(d) = UNION {ToSet(t[F]) : F \in DOMAIN t} /\ S = UNION {ToSet(s[F]) : F \in DOMAIN s}
    BY <1>1, <1>4 DEF BlocksOf
  <2>2. ASSUME NEW b \in BlocksOf(d)
        PROVE  b \in S
    <3>1. PICK F \in DOMAIN t : b \in ToSet(t[F])
      BY <2>1
    <3>2. F # m
      BY <1>7, <3>1
    <3>. QED
      BY <1>6, <2>1, <3>1, <3>2
  <2>3. ASSUME NEW b \in S
        PROVE  b \in BlocksOf(d)
    <3>1. PICK F \in DOMAIN s : b \in ToSet(s[F])
      BY <2>1
    <3>. QED
      BY <1>6, <2>1, <3>1
  <2>. QED
    BY <2>2, <2>3
<1>. QED
  BY <1>4, <1>6, <1>9, <1>10 DEF Laid, d

\* The beginning of a function: its entry block is added as it is made.
LEMMA FunctionGenApart ==
    ASSUME IInv, Apart, FunctionAST_gen
    PROVE  Apart'
<1>. DEFINE n == Len(cir.blk)
            S == BlocksOf(cir)
            a == AddFunction(cir)
            b == NewBlock(a, "entry")
            f == [Activation(prog[fn'].node, breaks, Len(scopes)) EXCEPT !.at = "args"]
<1>1. Good(cir) /\ n \in Nat /\ cir.fun \in Seq(Seq(1..n))
  BY IInvParts DEF RestOK, Good, WellFormed, FileCIR
<1>2. OnceIn(cir)
  BY OnceLemma DEF Apart
<1>3. n + 1 \in Nat /\ n + 1 \notin S
  <2>1. ASSUME NEW F \in DOMAIN cir.fun
        PROVE  ToSet(cir.fun[F]) \subseteq 1..n
    BY <1>1 DEF ToSet
  <2>2. S \subseteq 1..n
    BY <2>1 DEF BlocksOf
  <2>. HIDE DEF S
  <2>. QED
    BY <1>1, <2>2
<1>4. Good(a) /\ Len(a.blk) = n /\ Laid(a, S)
  BY <1>1, <1>2, AddFunctionLemma, NewFunctionLaid
<1>. HIDE DEF a
<1>5. LastBlock(b) = n + 1 /\ Laid(b, S)
  BY <1>4, NewBlockLemma, LayoutLemma DEF BlockNames
<1>6. cir' = SetInsertPoint(AddBasicBlock(b, n + 1), LastBlock(AddBasicBlock(b, n + 1))) /\ frames' = <<f>>
  BY <1>5 DEF FunctionAST_gen, Added, a
<1>. HIDE DEF b, n, S
<1>7. Laid(AddBasicBlock(b, n + 1), S \union {n + 1})
  BY <1>3, <1>5, AddLemma
<1>8. Laid(cir', S \union {n + 1})
  BY <1>6, <1>7, LayoutLemma
<1>9. f.at = "args"
  BY DEF Activation
<1>10. Pending(f) = {}
  <2>. HIDE DEF f
  <2>. QED
    BY <1>9 DEF Pending
<1>. HIDE DEF f
<1>11. DOMAIN frames' = {1} /\ frames'[1] = f
  BY <1>6
<1>12. PendingApart'
  <2>1. \A k \in DOMAIN frames' : Pending(frames'[k]) = {} /\ frames'[k].at = "args"
    BY <1>9, <1>10, <1>11
  <2>2. \A k \in DOMAIN frames' : Pending(frames'[k]) \intersect BlocksOf(cir') = {}
    BY <2>1
  <2>3. \A j, k \in DOMAIN frames' : j # k => Pending(frames'[j]) \intersect Pending(frames'[k]) = {}
    BY <2>1
  <2>. QED
    BY <2>1, <2>2, <2>3 DEF PendingApart, Pending
<1>. QED
  BY <1>8, <1>12 DEF Laid, Apart, BlocksAddedOnce, OnceIn, Function

\* The rest of a function adds no block.
LEMMA FunctionApart ==
    ASSUME IInv, Apart, FunctionAST_arg \/ FunctionAST_body \/ FunctionAST_end
    PROVE  Apart'
<1>. DEFINE S == BlocksOf(cir)
<1>1. frames # << >> /\ Top.node.kind = "function" /\ Laid(cir, S)
  BY FoundLemma DEF FunctionAST_arg, FunctionAST_body, FunctionAST_end, CloseScope, At
<1>2. CASE FunctionAST_arg
  <2>. DEFINE f == [Top EXCEPT !.i = @ + 1]
  <2>1. cir' = Emit(cir, Instr("InitArg", "ptr", << >>)).c /\ Stay(f)
    BY <1>2 DEF FunctionAST_arg
  <2>2. f.node = Top.node
    BY <1>1, FoundLemma DEF FrameType
  <2>. HIDE DEF f
  <2>3. Pending(f) = {} /\ f.node.kind # "if"
    BY <1>1, <2>2 DEF Pending
  <2>4. Laid(cir', S)
    BY <1>1, <2>1, LayoutLemma
  <2>. QED
    BY <1>1, <2>1, <2>3, <2>4, GoOnLaid
<1>3. CASE FunctionAST_body
  <2>. DEFINE f == [Top EXCEPT !.at = "body", !.i = 0]
  <2>1. cir' = cir /\ Stay(f)
    BY <1>3 DEF FunctionAST_body
  <2>2. f.node = Top.node
    BY <1>1, FoundLemma DEF FrameType
  <2>. HIDE DEF f
  <2>3. Pending(f) = {} /\ f.node.kind # "if"
    BY <1>1, <2>2 DEF Pending
  <2>. QED
    BY <1>1, <2>1, <2>3, GoOnLaid
<1>4. CASE FunctionAST_end
  <2>. DEFINE e == Returned
              i == Instr("Cast", Top.node.ty, <<e.r>>)
  <2>1. cir' = Epilogue(e) /\ frames' = Front(frames)
    BY <1>4 DEF FunctionAST_end
  <2>. HIDE DEF S
  <2>2. Laid(e.c, S)
    <3>1. e.c = cir \/ \E j : e.c = Emit(cir, j).c
      BY DEF Returned
    <3>. QED
      BY <1>1, <3>1, LayoutLemma
  <2>. HIDE DEF e
  <2>3. \A j : Laid(AddInstruction(e.c, j), S)
    BY <2>2, LayoutLemma DEF Emit
  <2>4. PICK v : v = IF TypeAt(e.c, e.r) = Top.node.ty THEN e ELSE Emit(e.c, i)
    OBVIOUS
  <2>5. Laid(v.c, S)
    BY <2>2, <2>4, LayoutLemma
  <2>6. \A j : Laid(AddInstruction(v.c, j), S)
    BY <2>5, LayoutLemma DEF Emit
  <2>7. Epilogue(e) \in {AddInstruction(e.c, Instr("ConstNever", "never", << >>)), e.c,
                         AddInstruction(v.c, Instr("Return", "never", <<v.r>>))}
    BY <2>4 DEF Epilogue
  <2>8. Laid(cir', S)
    BY <2>1, <2>2, <2>3, <2>6, <2>7
  <2>. QED
    BY <1>1, <2>1, <2>8, LeaveLaid DEF S
<1>. QED
  BY <1>2, <1>3, <1>4

\* What follows the generation moves no block.
LEMMA FileApart ==
    ASSUME Apart, FunctionAST_noValue \/ FileAST_generated \/ fixFileCIR \/ checkFileCIR, IInv
    PROVE  Apart'
<1>1. "fun" \in DOMAIN cir
  BY IInvParts DEF RestOK, Good, WellFormed, FileCIR
<1>2. frames' = frames /\ cir'.fun = cir.fun
  BY <1>1 DEF FunctionAST_noValue, FileAST_generated, fixFileCIR, checkFileCIR, FixFile
<1>3. BlocksOf(cir') = BlocksOf(cir)
  BY <1>2 DEF BlocksOf
<1>4. BlocksAddedOnce'
  BY <1>2 DEF Apart, BlocksAddedOnce, Function
<1>5. PendingApart'
  BY <1>2, <1>3 DEF Apart, PendingApart, Pending
<1>. QED
  BY <1>4, <1>5 DEF Apart

-----------------------------------------------------------------------------
(* The theorem.                                                            *)

\* Always: a block has one place in the layout, and one activation that is
\* still to give it one.
LEMMA AlwaysApart == Spec => []Apart
<1>1. Init => Apart
  BY DEF Init, EmptyFile, Apart, BlocksAddedOnce, PendingApart, Function
<1>2. IInv /\ Apart /\ [Next]_vars => Apart'
  <2>1. SUFFICES ASSUME IInv, Apart, [Next]_vars
                 PROVE  Apart'
    OBVIOUS
  <2>2. CASE Simple \/ Memory
    BY <2>1, <2>2, SimpleApart, LabelApart, MemoryApart
  <2>3. CASE Control
    BY <2>1, <2>3, ScopeApart, IfApart, LoopApart, WhileApart, ForApart DEF Control
  <2>4. CASE File
    BY <2>1, <2>4, FunctionGenApart, FunctionApart, FileApart DEF File
  <2>5. CASE UNCHANGED vars
    <3>1. cir' = cir /\ frames' = frames
      BY <2>5 DEF vars
    <3>2. BlocksAddedOnce'
      BY <2>1, <3>1 DEF Apart, BlocksAddedOnce, Function
    <3>3. PendingApart'
      <4>1. BlocksOf(cir') = BlocksOf(cir)
        BY <3>1
      <4>. QED
        BY <2>1, <3>1, <4>1 DEF Apart, PendingApart, Pending
    <3>. QED
      BY <3>2, <3>3 DEF Apart
  <2>. QED
    BY <2>1, <2>2, <2>3, <2>4, <2>5 DEF Next, Done
<1>. QED
  BY <1>1, <1>2, Invariance, PTL DEF Spec

\* Whatever the file, a block is added to one function, and once: the copies
\* of the pointer that an if or a for keeps until the block is reached are
\* never added twice, and a function never takes a block of another.
THEOREM BlocksAlwaysAddedOnce == Spec => []BlocksAddedOnce
<1>1. Apart => BlocksAddedOnce
  BY DEF Apart
<1>. QED
  BY <1>1, AlwaysApart, PTL

-----------------------------------------------------------------------------
(* Where branches go.                                                      *)

\* What the lemmas below need of a file: sequences of instructions and blocks,
\* blocks of instructions of the file, functions of blocks of the file.
Shaped(c) ==
    /\ {"instr", "blk", "fun", "cur"} \subseteq DOMAIN c
    /\ \E S : c.instr \in Seq(S)
    /\ \E S : c.blk \in Seq(S)
    /\ \A b \in 1..Len(c.blk) : "ins" \in DOMAIN c.blk[b] /\ c.blk[b].ins \in Seq(1..Len(c.instr))
    /\ c.fun \in Seq(Seq(1..Len(c.blk)))

\* A block without a place in the layout is empty.
Blank(c) == \A b \in 1..Len(c.blk) : b \notin BlocksOf(c) => c.blk[b].ins = << >>

\* The branches of function F stay in G.
Within(c, F, G) == \A b \in ToSet(c.fun[F]) : Successors(c, b) \subseteq G

\* The last function has the blocks of T and its branches stay in G; G has no
\* block of an earlier function, and the branches of these stay inside.
Framed(c, T, G) ==
    /\ Shaped(c) /\ Blank(c)
    /\ c.fun # << >> /\ T = ToSet(c.fun[Len(c.fun)])
    /\ T \subseteq G /\ G \subseteq 1..Len(c.blk)
    /\ Within(c, Len(c.fun), G)
    /\ \A F \in 1..(Len(c.fun) - 1) :
          ToSet(c.fun[F]) \intersect G = {} /\ Within(c, F, ToSet(c.fun[F]))

\* It is being generated: instructions are added to one of its blocks.
Enclosed(c, T, G) == Framed(c, T, G) /\ c.cur \in T

\* An instruction adds its targets to the successors of the insert point.
LEMMA AddInstructionTargets ==
    ASSUME NEW c, Shaped(c), c.cur \in 1..Len(c.blk), NEW i, NEW d, d = AddInstruction(c, i)
    PROVE  /\ Shaped(d) /\ Len(d.blk) = Len(c.blk) /\ d.cur = c.cur /\ d.fun = c.fun
           /\ \A b \in 1..Len(c.blk) :
                 Successors(d, b) = Successors(c, b) \union (IF b = c.cur THEN Targets(i) ELSE {})
           /\ \A b \in 1..Len(c.blk) : b # c.cur => d.blk[b].ins = c.blk[b].ins
<1>. DEFINE m == Len(c.instr)
            n == Len(c.blk)
<1>1. PICK S, R : c.instr \in Seq(S) /\ c.blk \in Seq(R)
  BY DEF Shaped
<1>2. /\ {"instr", "blk", "fun", "cur"} \subseteq DOMAIN c /\ c.fun \in Seq(Seq(1..n))
      /\ \A b \in 1..n : "ins" \in DOMAIN c.blk[b] /\ c.blk[b].ins \in Seq(1..m)
  BY DEF Shaped
<1>3. m \in Nat /\ n \in Nat /\ DOMAIN c.blk = 1..n
  BY <1>1
<1>4. PICK s : s = c.blk[c.cur].ins
  OBVIOUS
<1>5. PICK r : r = [c.blk[c.cur] EXCEPT !.ins = Append(@, m + 1)]
  OBVIOUS
<1>6. s \in Seq(1..m) /\ "ins" \in DOMAIN r /\ r.ins = Append(s, m + 1)
  BY <1>2, <1>4, <1>5
<1>7. /\ DOMAIN d = DOMAIN c /\ d.instr = Append(c.instr, i) /\ d.blk = [c.blk EXCEPT ![c.cur] = r]
      /\ d.cur = c.cur /\ d.fun = c.fun
  BY <1>2, <1>5 DEF AddInstruction
<1>8. /\ d.instr \in Seq(S \union {i}) /\ Len(d.instr) = m + 1 /\ d.instr[m + 1] = i
      /\ \A k \in 1..m : d.instr[k] = c.instr[k]
  <2>1. c.instr \in Seq(S \union {i}) /\ i \in S \union {i}
    BY <1>1
  <2>. QED
    BY <1>7, <2>1
<1>9. /\ d.blk \in Seq(R \union {r}) /\ Len(d.blk) = n /\ d.blk[c.cur] = r
      /\ \A b \in 1..n : b # c.cur => d.blk[b] = c.blk[b]
  <2>1. c.blk \in Seq(R \union {r}) /\ r \in R \union {r}
    BY <1>1
  <2>. QED
    BY <1>3, <1>7, <2>1
<1>. HIDE DEF m, n
<1>10. Seq(1..m) \subseteq Seq(1..(m + 1)) /\ Append(s, m + 1) \in Seq(1..(m + 1))
  <2>1. Seq(1..m) \subseteq Seq(1..(m + 1))
    BY <1>3
  <2>2. s \in Seq(1..(m + 1)) /\ m + 1 \in 1..(m + 1)
    BY <1>3, <1>6, <2>1
  <2>. QED
    BY <2>1, <2>2
<1>11. Shaped(d)
  <2>1. \A b \in 1..n : "ins" \in DOMAIN d.blk[b] /\ d.blk[b].ins \in Seq(1..(m + 1))
    <3>1. ASSUME NEW b \in 1..n
          PROVE  "ins" \in DOMAIN d.blk[b] /\ d.blk[b].ins \in Seq(1..(m + 1))
      <4>1. CASE b = c.cur
        BY <1>6, <1>9, <1>10, <4>1
      <4>2. CASE b # c.cur
        BY <1>2, <1>9, <1>10, <4>2
      <4>. QED
        BY <4>1, <4>2
    <3>. QED
      BY <3>1
  <2>. QED
    BY <1>2, <1>7, <1>8, <1>9, <2>1 DEF Shaped
<1>12. ASSUME NEW b \in 1..n, NEW k \in ToSet(c.blk[b].ins)
       PROVE  d.instr[k] = c.instr[k]
  <2>1. k \in 1..m
    <3>1. PICK u : u = c.blk[b].ins
      OBVIOUS
    <3>2. u \in Seq(1..m) /\ k \in ToSet(u)
      BY <1>2, <1>12, <3>1
    <3>. QED
      <4>1. PICK j \in DOMAIN u : k = u[j]
        BY <3>2 DEF ToSet
      <4>. QED
        BY <1>3, <3>2, <4>1
  <2>. QED
    BY <1>8, <2>1
<1>13. ASSUME NEW b \in 1..n, b # c.cur
       PROVE  d.blk[b].ins = c.blk[b].ins /\ Successors(d, b) = Successors(c, b)
  BY <1>9, <1>12, <1>13 DEF Successors
<1>14. Successors(d, c.cur) = Successors(c, c.cur) \union Targets(i)
  <2>1. c.cur \in 1..n
    BY DEF n
  <2>2. \A x : x \in ToSet(d.blk[c.cur].ins) <=> x \in ToSet(s) \/ x = m + 1
    <3>1. s \in Seq(Nat) /\ m + 1 \in Nat
      BY <1>3, <1>6
    <3>. QED
      BY <1>6, <1>9, <3>1, AppendLemma
  <2>3. \A x \in ToSet(s) : d.instr[x] = c.instr[x]
    BY <1>4, <1>12, <2>1
  <2>. QED
    BY <1>4, <1>8, <2>2, <2>3 DEF Successors
<1>. QED
  BY <1>7, <1>9, <1>11, <1>13, <1>14 DEF n

\* A predecessor changes nothing of that.
LEMMA AddPredTargets ==
    ASSUME NEW c, Shaped(c), NEW p \in 1..Len(c.blk), NEW q, NEW d, d = AddPred(c, p, q)
    PROVE  /\ Shaped(d) /\ Len(d.blk) = Len(c.blk) /\ d.cur = c.cur /\ d.fun = c.fun
           /\ \A b \in 1..Len(c.blk) : /\ Successors(d, b) = Successors(c, b)
                                       /\ d.blk[b].ins = c.blk[b].ins
<1>. DEFINE n == Len(c.blk)
<1>1. PICK S, R : c.instr \in Seq(S) /\ c.blk \in Seq(R)
  BY DEF Shaped
<1>2. /\ {"instr", "blk", "fun", "cur"} \subseteq DOMAIN c /\ c.fun \in Seq(Seq(1..n))
      /\ \A b \in 1..n : "ins" \in DOMAIN c.blk[b] /\ c.blk[b].ins \in Seq(1..Len(c.instr))
  BY DEF Shaped
<1>3. PICK r : r = [c.blk[p] EXCEPT !.preds = @ \union {q}]
  OBVIOUS
<1>4. /\ DOMAIN d = DOMAIN c /\ d.instr = c.instr /\ d.blk = [c.blk EXCEPT ![p] = r]
      /\ d.cur = c.cur /\ d.fun = c.fun
  BY <1>2, <1>3 DEF AddPred
<1>5. /\ d.blk \in Seq(R \union {r}) /\ Len(d.blk) = n
      /\ \A b \in 1..n : d.blk[b] = IF b = p THEN r ELSE c.blk[b]
  <2>1. c.blk \in Seq(R \union {r}) /\ r \in R \union {r}
    BY <1>1
  <2>. QED
    BY <1>4, <2>1
<1>6. \A b \in 1..n : "ins" \in DOMAIN d.blk[b] /\ d.blk[b].ins = c.blk[b].ins
  BY <1>2, <1>3, <1>5
<1>7. Shaped(d)
  BY <1>1, <1>2, <1>4, <1>5, <1>6 DEF Shaped
<1>8. \A b \in 1..n : Successors(d, b) = Successors(c, b)
  BY <1>4, <1>6 DEF Successors
<1>. QED
  BY <1>4, <1>5, <1>6, <1>7, <1>8

\* More blocks may be branched to, when no earlier function has them.
LEMMA EnclosedGrows ==
    ASSUME NEW c, NEW T, NEW G, Enclosed(c, T, G), NEW H, G \subseteq H, H \subseteq 1..Len(c.blk),
           \A F \in 1..(Len(c.fun) - 1) : ToSet(c.fun[F]) \intersect H = {}
    PROVE  Enclosed(c, T, H)
  BY DEF Enclosed, Framed, Within

\* The numbers of functions and blocks.
LEMMA FramedShape ==
    ASSUME NEW c, NEW T, NEW G, Framed(c, T, G)
    PROVE  /\ Shaped(c) /\ Len(c.blk) \in Nat /\ Len(c.fun) \in Nat /\ Len(c.fun) > 0
           /\ c.fun \in Seq(Seq(1..Len(c.blk))) /\ DOMAIN c.fun = 1..Len(c.fun)
           /\ T \subseteq 1..Len(c.blk) /\ G \subseteq 1..Len(c.blk)
           /\ \A F \in 1..Len(c.fun) : ToSet(c.fun[F]) \subseteq 1..Len(c.blk)
<1>1. /\ Shaped(c) /\ T \subseteq G /\ G \subseteq 1..Len(c.blk) /\ c.fun # << >>
  BY DEF Framed
<1>2. c.fun \in Seq(Seq(1..Len(c.blk))) /\ Len(c.blk) \in Nat
  BY <1>1 DEF Shaped
<1>3. Len(c.fun) \in Nat /\ Len(c.fun) > 0 /\ DOMAIN c.fun = 1..Len(c.fun)
  BY <1>1, <1>2
<1>4. ASSUME NEW F \in 1..Len(c.fun)
      PROVE  ToSet(c.fun[F]) \subseteq 1..Len(c.blk)
  <2>1. c.fun[F] \in Seq(1..Len(c.blk))
    BY <1>2, <1>3
  <2>. QED
    BY <2>1 DEF ToSet
<1>. QED
  BY <1>1, <1>2, <1>3, <1>4

LEMMA EnclosedShape ==
    ASSUME NEW c, NEW T, NEW G, Enclosed(c, T, G)
    PROVE  /\ Shaped(c) /\ Len(c.blk) \in Nat /\ Len(c.fun) \in Nat /\ Len(c.fun) > 0
           /\ c.fun \in Seq(Seq(1..Len(c.blk))) /\ DOMAIN c.fun = 1..Len(c.fun)
           /\ c.cur \in 1..Len(c.blk) /\ T \subseteq 1..Len(c.blk) /\ G \subseteq 1..Len(c.blk)
           /\ \A F \in 1..Len(c.fun) : ToSet(c.fun[F]) \subseteq 1..Len(c.blk)
<1>1. Framed(c, T, G) /\ c.cur \in T
  BY DEF Enclosed
<1>. QED
  BY <1>1, FramedShape

\* A file with the same functions, whose blocks keep their successors but for
\* the insert point, where they stay in G.
LEMMA EnclosedStays ==
    ASSUME NEW c, NEW T, NEW G, Enclosed(c, T, G), NEW d, Shaped(d), Len(d.blk) = Len(c.blk),
           d.fun = c.fun, d.cur \in T,
           \A b \in 1..Len(c.blk) : b # c.cur => Successors(d, b) \subseteq Successors(c, b),
           Successors(d, c.cur) \subseteq G,
           \A b \in 1..Len(c.blk) : b # c.cur => d.blk[b].ins = c.blk[b].ins
    PROVE  Enclosed(d, T, G)
<1>1. /\ Len(c.fun) \in Nat /\ Len(c.fun) > 0 /\ DOMAIN c.fun = 1..Len(c.fun)
      /\ c.cur \in 1..Len(c.blk) /\ T \subseteq 1..Len(c.blk)
      /\ \A F \in 1..Len(c.fun) : ToSet(c.fun[F]) \subseteq 1..Len(c.blk)
  BY EnclosedShape
<1>2. /\ T = ToSet(c.fun[Len(c.fun)]) /\ c.cur \in T /\ T \subseteq G
      /\ G \subseteq 1..Len(c.blk) /\ c.fun # << >>
      /\ \A b \in T : Successors(c, b) \subseteq G
      /\ \A F \in 1..(Len(c.fun) - 1) :
            /\ ToSet(c.fun[F]) \intersect G = {}
            /\ \A b \in ToSet(c.fun[F]) : Successors(c, b) \subseteq ToSet(c.fun[F])
      /\ Blank(c)
  BY DEF Enclosed, Framed, Within
<1>3. BlocksOf(d) = BlocksOf(c)
  BY DEF BlocksOf
<1>4. c.cur \in BlocksOf(c)
  BY <1>1, <1>2 DEF BlocksOf
<1>5. Blank(d)
  BY <1>2, <1>3, <1>4 DEF Blank
<1>6. Within(d, Len(c.fun), G)
  BY <1>1, <1>2 DEF Within
<1>7. ASSUME NEW F \in 1..(Len(c.fun) - 1)
      PROVE  Within(d, F, ToSet(c.fun[F]))
  <2>1. F \in 1..Len(c.fun)
    BY <1>1
  <2>2. c.cur \notin ToSet(c.fun[F])
    BY <1>2
  <2>3. ToSet(c.fun[F]) \subseteq 1..Len(c.blk)
    BY <1>1, <2>1
  <2>. QED
    BY <1>2, <2>2, <2>3 DEF Within
<1>. QED
  BY <1>2, <1>5, <1>6, <1>7 DEF Enclosed, Framed

\* Adding an instruction that does not branch, or branches to a block of G.
LEMMA EnclosedInstruction ==
    ASSUME NEW c, NEW T, NEW G, Enclosed(c, T, G), NEW i, Targets(i) \subseteq G
    PROVE  Enclosed(AddInstruction(c, i), T, G)
<1>1. PICK d : d = AddInstruction(c, i)
  OBVIOUS
<1>2. Shaped(c) /\ c.cur \in 1..Len(c.blk)
  BY EnclosedShape
<1>3. /\ Shaped(d) /\ Len(d.blk) = Len(c.blk) /\ d.cur = c.cur /\ d.fun = c.fun
      /\ \A b \in 1..Len(c.blk) :
            Successors(d, b) = Successors(c, b) \union (IF b = c.cur THEN Targets(i) ELSE {})
      /\ \A b \in 1..Len(c.blk) : b # c.cur => d.blk[b].ins = c.blk[b].ins
  BY <1>1, <1>2, AddInstructionTargets
<1>4. c.cur \in T /\ Successors(c, c.cur) \subseteq G
  BY DEF Enclosed, Framed, Within
<1>5. Successors(d, c.cur) \subseteq G
  BY <1>2, <1>3, <1>4
<1>. QED
  BY <1>1, <1>3, <1>4, <1>5, EnclosedStays

LEMMA EnclosedPred ==
    ASSUME NEW c, NEW T, NEW G, Enclosed(c, T, G), NEW p \in 1..Len(c.blk), NEW q
    PROVE  Enclosed(AddPred(c, p, q), T, G) /\ Len(AddPred(c, p, q).blk) = Len(c.blk)
<1>1. PICK d : d = AddPred(c, p, q)
  OBVIOUS
<1>2. /\ Shaped(d) /\ Len(d.blk) = Len(c.blk) /\ d.cur = c.cur /\ d.fun = c.fun
      /\ \A b \in 1..Len(c.blk) : /\ Successors(d, b) = Successors(c, b)
                                  /\ d.blk[b].ins = c.blk[b].ins
  BY <1>1, AddPredTargets DEF Enclosed, Framed
<1>3. c.cur \in T /\ Successors(c, c.cur) \subseteq G /\ c.cur \in 1..Len(c.blk)
  BY EnclosedShape DEF Enclosed, Framed, Within
<1>. QED
  BY <1>1, <1>2, <1>3, EnclosedStays

\* The operations that make no block and add none.
LEMMA EnclosedLemma ==
    ASSUME NEW c, NEW T, NEW G, Enclosed(c, T, G)
    PROVE  /\ \A b \in T : Enclosed(SetInsertPoint(c, b), T, G)
           /\ \A b \in G : Enclosed(CreateGoto(c, b), T, G)
           /\ \A r : \A b1, b2 \in G : Enclosed(CreateGotoIf(c, r, b1, b2), T, G)
           /\ \A i : ~Branches(i) => /\ Enclosed(AddInstruction(c, i), T, G)
                                     /\ Enclosed(Emit(c, i).c, T, G)
           /\ \A r, from, to : Enclosed(Convert(c, r, from, to).c, T, G)
<1>1. G \subseteq 1..Len(c.blk)
  BY EnclosedShape
<1>2. ASSUME NEW b \in T
      PROVE  Enclosed(SetInsertPoint(c, b), T, G)
  <2>1. PICK d : d = SetInsertPoint(c, b)
    OBVIOUS
  <2>2. Shaped(c)
    BY EnclosedShape
  <2>3. d.instr = c.instr /\ d.blk = c.blk /\ d.fun = c.fun /\ d.cur = b /\ DOMAIN d = DOMAIN c
    BY <2>1, <2>2 DEF SetInsertPoint, Shaped
  <2>4. Shaped(d)
    BY <2>2, <2>3 DEF Shaped
  <2>5. \A k : Successors(d, k) = Successors(c, k)
    BY <2>3 DEF Successors
  <2>6. Successors(c, c.cur) \subseteq G
    BY DEF Enclosed, Framed, Within
  <2>. QED
    BY <2>1, <2>3, <2>4, <2>5, <2>6, EnclosedStays
<1>3. ASSUME NEW b \in G
      PROVE  Enclosed(CreateGoto(c, b), T, G)
  <2>1. Enclosed(AddPred(c, b, c.cur), T, G)
    BY <1>1, EnclosedPred
  <2>2. Targets(GotoInstr(b)) \subseteq G
    BY DEF Targets, GotoInstr, Branches, ToSet
  <2>. QED
    BY <2>1, <2>2, EnclosedInstruction DEF CreateGoto
<1>4. ASSUME NEW r, NEW b1 \in G, NEW b2 \in G
      PROVE  Enclosed(CreateGotoIf(c, r, b1, b2), T, G)
  <2>1. PICK d : d = AddPred(c, b1, c.cur)
    OBVIOUS
  <2>2. Enclosed(d, T, G) /\ Len(d.blk) = Len(c.blk)
    BY <1>1, <2>1, EnclosedPred
  <2>3. Enclosed(AddPred(d, b2, c.cur), T, G)
    BY <1>1, <2>2, EnclosedPred
  <2>4. Targets(GotoIfInstr(r, b1, b2)) \subseteq G
    <3>1. GotoIfInstr(r, b1, b2).bbs = <<b1, b2>>
      BY DEF GotoIfInstr
    <3>2. ToSet(<<b1, b2>>) \subseteq G
      BY DEF ToSet
    <3>. QED
      BY <3>1, <3>2 DEF Targets
  <2>. QED
    BY <2>1, <2>3, <2>4, EnclosedInstruction DEF CreateGotoIf
<1>5. ASSUME NEW i, ~Branches(i)
      PROVE  Enclosed(AddInstruction(c, i), T, G) /\ Enclosed(Emit(c, i).c, T, G)
  BY <1>5, EnclosedInstruction DEF Targets, Emit
<1>6. ASSUME NEW r, NEW from, NEW to
      PROVE  Enclosed(Convert(c, r, from, to).c, T, G)
  <2>1. ~Branches(Instr("ConstVoid", "void", << >>)) /\ ~Branches(Instr("Cast", to, <<r>>))
    BY DEF Branches, Instr
  <2>. QED
    BY <1>5, <2>1 DEF Convert
<1>. QED
  BY <1>2, <1>3, <1>4, <1>5, <1>6

\* A new block may be branched to.
LEMMA FramedNewBlock ==
    ASSUME NEW c, NEW T, NEW G, Framed(c, T, G), NEW n, n = Len(c.blk), NEW base
    PROVE  /\ Framed(NewBlock(c, base), T, G \union {n + 1})
           /\ Len(NewBlock(c, base).blk) = n + 1 /\ LastBlock(NewBlock(c, base)) = n + 1
           /\ NewBlock(c, base).cur = c.cur
<1>1. /\ Shaped(c) /\ n \in Nat /\ c.fun \in Seq(Seq(1..n)) /\ G \subseteq 1..n /\ T \subseteq 1..n
      /\ DOMAIN c.fun = 1..Len(c.fun) /\ Len(c.fun) \in Nat /\ Len(c.fun) > 0
      /\ \A F \in 1..Len(c.fun) : ToSet(c.fun[F]) \subseteq 1..n
  BY FramedShape
<1>2. PICK S, R : c.instr \in Seq(S) /\ c.blk \in Seq(R)
  BY <1>1 DEF Shaped
<1>3. PICK d : d = NewBlock(c, base)
  OBVIOUS
<1>4. PICK r : r = [name |-> <<base, 0>>, ins |-> << >>, preds |-> {}]
  OBVIOUS
<1>5. /\ {"instr", "blk", "fun", "cur"} \subseteq DOMAIN c
      /\ \A b \in 1..n : "ins" \in DOMAIN c.blk[b] /\ c.blk[b].ins \in Seq(1..Len(c.instr))
  BY <1>1 DEF Shaped
<1>6. /\ DOMAIN d = DOMAIN c /\ d.instr = c.instr /\ d.blk = Append(c.blk, r)
      /\ d.cur = c.cur /\ d.fun = c.fun
  BY <1>3, <1>4, <1>5 DEF NewBlock
<1>7. /\ d.blk \in Seq(R \union {r}) /\ Len(d.blk) = n + 1 /\ d.blk[n + 1] = r
      /\ \A b \in 1..n : d.blk[b] = c.blk[b]
  <2>1. c.blk \in Seq(R \union {r}) /\ r \in R \union {r}
    BY <1>2
  <2>. QED
    BY <1>6, <2>1
<1>8. 1..n \subseteq 1..(n + 1) /\ n + 1 \in 1..(n + 1) /\ n + 1 \notin 1..n
      /\ \A b \in 1..(n + 1) : b \in 1..n \/ b = n + 1
  <2>1. n \in Nat
    BY <1>1
  <2>. QED
    BY ONLY <2>1
<1>9. Shaped(d)
  <2>1. \A b \in 1..(n + 1) : "ins" \in DOMAIN d.blk[b] /\ d.blk[b].ins \in Seq(1..Len(d.instr))
    <3>1. "ins" \in DOMAIN r /\ r.ins \in Seq(1..Len(d.instr))
      BY <1>4
    <3>2. \A b \in 1..n : "ins" \in DOMAIN d.blk[b] /\ d.blk[b].ins \in Seq(1..Len(d.instr))
      BY <1>5, <1>6, <1>7
    <3>. QED
      BY <1>7, <1>8, <3>1, <3>2
  <2>2. d.fun \in Seq(Seq(1..(n + 1)))
    <3>1. Seq(1..n) \subseteq Seq(1..(n + 1))
      BY <1>8
    <3>. QED
      BY <1>1, <1>6, <3>1
  <2>. QED
    BY <1>2, <1>5, <1>6, <1>7, <2>1, <2>2 DEF Shaped
<1>10. \A b \in 1..n : Successors(d, b) = Successors(c, b)
  BY <1>6, <1>7 DEF Successors
<1>11. /\ T = ToSet(c.fun[Len(c.fun)]) /\ T \subseteq G /\ c.fun # << >>
       /\ \A b \in T : Successors(c, b) \subseteq G
       /\ \A F \in 1..(Len(c.fun) - 1) :
             /\ ToSet(c.fun[F]) \intersect G = {}
             /\ \A b \in ToSet(c.fun[F]) : Successors(c, b) \subseteq ToSet(c.fun[F])
       /\ Blank(c)
  BY DEF Framed, Within
<1>12. Blank(d)
  <2>1. BlocksOf(d) = BlocksOf(c)
    BY <1>6 DEF BlocksOf
  <2>2. r.ins = << >>
    BY <1>4
  <2>. QED
    BY <1>7, <1>8, <1>11, <2>1, <2>2 DEF Blank
<1>13. ASSUME NEW F \in 1..(Len(d.fun) - 1)
       PROVE  /\ ToSet(d.fun[F]) \intersect (G \union {n + 1}) = {}
              /\ Within(d, F, ToSet(d.fun[F]))
  <2>1. F \in 1..Len(c.fun) /\ F \in 1..(Len(c.fun) - 1) /\ d.fun[F] = c.fun[F]
    BY <1>1, <1>6
  <2>2. ToSet(c.fun[F]) \subseteq 1..n
    BY <1>1, <2>1
  <2>. QED
    BY <1>8, <1>10, <1>11, <2>1, <2>2 DEF Within
<1>14. Within(d, Len(d.fun), G \union {n + 1})
  BY <1>1, <1>6, <1>10, <1>11 DEF Within
<1>15. Framed(d, T, G \union {n + 1})
  <2>1. G \union {n + 1} \subseteq 1..Len(d.blk)
    BY <1>1, <1>7, <1>8
  <2>. QED
    BY <1>6, <1>9, <1>11, <1>12, <1>13, <1>14, <2>1 DEF Framed
<1>. QED
  BY <1>3, <1>6, <1>7, <1>15 DEF LastBlock

\* A block that may be branched to is added to the function.
LEMMA FramedAdd ==
    ASSUME NEW c, NEW T, NEW G, Framed(c, T, G), NEW b \in G
    PROVE  /\ Framed(AddBasicBlock(c, b), T \union {b}, G)
           /\ Len(AddBasicBlock(c, b).blk) = Len(c.blk) /\ AddBasicBlock(c, b).cur = c.cur
<1>. DEFINE n == Len(c.blk)
            m == Len(c.fun)
<1>1. /\ Shaped(c) /\ n \in Nat /\ c.fun \in Seq(Seq(1..n)) /\ G \subseteq 1..n /\ T \subseteq 1..n
      /\ DOMAIN c.fun = 1..m /\ m \in Nat /\ m > 0
      /\ \A F \in 1..m : ToSet(c.fun[F]) \subseteq 1..n
  BY FramedShape
<1>2. PICK S, R : c.instr \in Seq(S) /\ c.blk \in Seq(R)
  BY <1>1 DEF Shaped
<1>3. PICK d : d = AddBasicBlock(c, b)
  OBVIOUS
<1>4. /\ {"instr", "blk", "fun", "cur"} \subseteq DOMAIN c
      /\ \A k \in 1..n : "ins" \in DOMAIN c.blk[k] /\ c.blk[k].ins \in Seq(1..Len(c.instr))
  BY <1>1 DEF Shaped
<1>5. PICK v : d.blk = [c.blk EXCEPT ![b].name = v]
  BY <1>3, <1>4 DEF AddBasicBlock
<1>6. PICK r : r = [c.blk[b] EXCEPT !.name = v]
  OBVIOUS
<1>7. /\ DOMAIN d = DOMAIN c /\ d.instr = c.instr /\ d.cur = c.cur
      /\ d.fun = [c.fun EXCEPT ![m] = Append(@, b)]
  BY <1>3, <1>4 DEF AddBasicBlock, CurrentFunction
<1>8. PICK t : t = Append(c.fun[m], b)
  OBVIOUS
<1>. HIDE DEF n, m
<1>9. b \in 1..n /\ m \in 1..m
  BY <1>1
<1>10. /\ d.blk \in Seq(R \union {r}) /\ Len(d.blk) = n
       /\ \A k \in 1..n : "ins" \in DOMAIN d.blk[k] /\ d.blk[k].ins = c.blk[k].ins
  <2>1. d.blk = [c.blk EXCEPT ![b] = r]
    BY <1>5, <1>6
  <2>2. c.blk \in Seq(R \union {r}) /\ r \in R \union {r}
    BY <1>2
  <2>3. d.blk \in Seq(R \union {r}) /\ Len(d.blk) = n
        /\ \A k \in 1..n : d.blk[k] = IF k = b THEN r ELSE c.blk[k]
    BY <1>9, <2>1, <2>2 DEF n
  <2>4. "ins" \in DOMAIN r /\ r.ins = c.blk[b].ins
    BY <1>4, <1>6, <1>9
  <2>. QED
    BY <1>4, <2>3, <2>4
<1>11. /\ t \in Seq(1..n) /\ \A x : x \in ToSet(t) <=> x \in ToSet(c.fun[m]) \/ x = b
  <2>1. c.fun[m] \in Seq(1..n)
    BY <1>1, <1>9
  <2>2. PICK s : s = c.fun[m]
    OBVIOUS
  <2>3. s \in Seq(1..n) /\ s \in Seq(Nat) /\ b \in Nat /\ t = Append(s, b)
    BY <1>1, <1>8, <1>9, <2>1, <2>2
  <2>4. t \in Seq(1..n)
    BY <1>9, <2>3
  <2>5. \A x : x \in ToSet(t) <=> x \in ToSet(s) \/ x = b
    BY <2>3, AppendLemma
  <2>. QED
    BY <2>2, <2>4, <2>5
<1>12. /\ d.fun \in Seq(Seq(1..n)) /\ Len(d.fun) = m /\ d.fun[m] = t /\ DOMAIN d.fun = 1..m
       /\ \A F \in 1..(m - 1) : d.fun[F] = c.fun[F]
  <2>1. d.fun = [c.fun EXCEPT ![m] = t]
    BY <1>7, <1>8
  <2>. QED
    BY <1>1, <1>9, <1>11, <2>1 DEF m
<1>13. Shaped(d)
  BY <1>2, <1>4, <1>7, <1>10, <1>12 DEF Shaped
<1>14. \A k \in 1..n : Successors(d, k) = Successors(c, k)
  BY <1>7, <1>10 DEF Successors
<1>15. /\ T = ToSet(c.fun[m]) /\ T \subseteq G /\ c.fun # << >>
       /\ \A k \in T : Successors(c, k) \subseteq G
       /\ \A F \in 1..(m - 1) :
             /\ ToSet(c.fun[F]) \intersect G = {}
             /\ \A k \in ToSet(c.fun[F]) : Successors(c, k) \subseteq ToSet(c.fun[F])
       /\ Blank(c)
  BY DEF Framed, Within, m
<1>16. T \union {b} = ToSet(d.fun[m])
  BY <1>11, <1>12, <1>15
<1>17. \A k \in BlocksOf(c) : k \in BlocksOf(d)
  <2>1. ASSUME NEW F \in 1..m, NEW k \in ToSet(c.fun[F])
        PROVE  k \in ToSet(d.fun[F])
    <3>1. CASE F = m
      BY <1>11, <1>12, <2>1, <3>1
    <3>2. CASE F # m
      <4>1. F \in 1..(m - 1)
        BY <1>1, <3>2
      <4>. QED
        BY <1>12, <2>1, <4>1
    <3>. QED
      BY <3>1, <3>2
  <2>. QED
    BY <1>1, <1>12, <2>1 DEF BlocksOf
<1>18. Blank(d)
  BY <1>10, <1>15, <1>17 DEF Blank, n
<1>19. Successors(c, b) \subseteq G
  <2>1. CASE b \in T
    BY <1>15, <2>1
  <2>2. CASE b \notin T
    <3>1. b \notin BlocksOf(c)
      <4>1. ASSUME NEW F \in 1..m
            PROVE  b \notin ToSet(c.fun[F])
        <5>1. F = m \/ F \in 1..(m - 1)
          BY <1>1
        <5>. QED
          BY <1>15, <2>2, <5>1
      <4>. QED
        BY <1>1, <4>1 DEF BlocksOf
    <3>2. c.blk[b].ins = << >>
      BY <1>9, <1>15, <3>1 DEF Blank, n
    <3>3. ToSet(c.blk[b].ins) = {}
      BY <3>2 DEF ToSet
    <3>. QED
      BY <3>3 DEF Successors
  <2>. QED
    BY <2>1, <2>2
<1>20. Within(d, m, G)
  BY <1>1, <1>9, <1>14, <1>15, <1>16, <1>19 DEF Within
<1>21. ASSUME NEW F \in 1..(m - 1)
       PROVE  ToSet(d.fun[F]) \intersect G = {} /\ Within(d, F, ToSet(d.fun[F]))
  <2>1. F \in 1..m /\ d.fun[F] = c.fun[F]
    BY <1>1, <1>12
  <2>2. ToSet(c.fun[F]) \subseteq 1..n
    BY <1>1, <2>1
  <2>. QED
    BY <1>14, <1>15, <2>1, <2>2 DEF Within
<1>22. d.fun # << >> /\ T \union {b} \subseteq G /\ G \subseteq 1..Len(d.blk)
  BY <1>1, <1>7, <1>10, <1>12, <1>15
<1>23. Framed(d, T \union {b}, G)
  BY <1>12, <1>13, <1>16, <1>18, <1>20, <1>21, <1>22 DEF Framed
<1>. QED
  BY <1>3, <1>7, <1>10, <1>23 DEF n

\* A block that is added as it is made.
LEMMA FramedAdded ==
    ASSUME NEW c, NEW T, NEW G, Framed(c, T, G), NEW n, n = Len(c.blk), NEW base
    PROVE  /\ Framed(Added(c, base), T \union {n + 1}, G \union {n + 1})
           /\ Len(Added(c, base).blk) = n + 1 /\ LastBlock(Added(c, base)) = n + 1
           /\ Added(c, base).cur = c.cur
<1>1. PICK d : d = NewBlock(c, base)
  OBVIOUS
<1>2. /\ Framed(d, T, G \union {n + 1}) /\ Len(d.blk) = n + 1 /\ LastBlock(d) = n + 1
      /\ d.cur = c.cur
  BY <1>1, FramedNewBlock
<1>3. Added(c, base) = AddBasicBlock(d, n + 1)
  BY <1>1, <1>2 DEF Added
<1>4. n + 1 \in G \union {n + 1}
  OBVIOUS
<1>5. PICK H, b : H = G \union {n + 1} /\ b = n + 1
  OBVIOUS
<1>6. /\ Framed(AddBasicBlock(d, b), T \union {b}, H)
      /\ Len(AddBasicBlock(d, b).blk) = Len(d.blk) /\ AddBasicBlock(d, b).cur = d.cur
  <2>1. Framed(d, T, H) /\ b \in H
    BY <1>2, <1>4, <1>5
  <2>. QED
    BY <2>1, FramedAdd
<1>. QED
  BY <1>2, <1>3, <1>5, <1>6 DEF LastBlock

\* The same while instructions are added to one of the blocks.
LEMMA EnclosedNewBlock ==
    ASSUME NEW c, NEW T, NEW G, Enclosed(c, T, G), NEW n, n = Len(c.blk), NEW base
    PROVE  /\ Enclosed(NewBlock(c, base), T, G \union {n + 1})
           /\ Len(NewBlock(c, base).blk) = n + 1 /\ LastBlock(NewBlock(c, base)) = n + 1
<1>1. Framed(c, T, G) /\ c.cur \in T
  BY DEF Enclosed
<1>. QED
  BY <1>1, FramedNewBlock DEF Enclosed

LEMMA EnclosedAdd ==
    ASSUME NEW c, NEW T, NEW G, Enclosed(c, T, G), NEW b \in G
    PROVE  /\ Enclosed(AddBasicBlock(c, b), T \union {b}, G)
           /\ Len(AddBasicBlock(c, b).blk) = Len(c.blk)
<1>1. Framed(c, T, G) /\ c.cur \in T /\ T \subseteq T \union {b}
  BY DEF Enclosed
<1>. QED
  BY <1>1, FramedAdd DEF Enclosed

LEMMA EnclosedAdded ==
    ASSUME NEW c, NEW T, NEW G, Enclosed(c, T, G), NEW n, n = Len(c.blk), NEW base
    PROVE  /\ Enclosed(Added(c, base), T \union {n + 1}, G \union {n + 1})
           /\ Len(Added(c, base).blk) = n + 1 /\ LastBlock(Added(c, base)) = n + 1
<1>1. Framed(c, T, G) /\ c.cur \in T /\ T \subseteq T \union {n + 1}
  BY DEF Enclosed
<1>. QED
  BY <1>1, FramedAdded DEF Enclosed

-----------------------------------------------------------------------------
(* The invariant: what is branched to is in the function, or held.         *)

\* The blocks of the function being generated, and those that activations hold.
Current == Function(Len(cir.fun))
Held == UNION {Pending(frames[k]) : k \in DOMAIN frames}

\* The blocks an activation uses are in the function, or among those it holds.
Uses(f, T) ==
    /\ {f.head, f.body} \ {0} \subseteq T
    /\ {f.alt, f.after} \ {0} \subseteq T \union Pending(f)

\* As long as no early return has destroyed a block, a branch of the function
\* being generated, and a break, goes to one of its blocks or to one that an
\* activation will add to it.
BranchesEnclosed ==
    freed = {} =>
        /\ status \notin {"gen", "aborted"} => frames = << >>
        /\ frames # << >> =>
              /\ Enclosed(cir, Current, Current \union Held)
              /\ ToSet(breaks) \subseteq Current \union Held
              /\ \A k \in DOMAIN frames : Uses(frames[k], Current)
        /\ frames = << >> => Blank(cir) /\ BranchesStayInside

\* What an action of a method finds.
Jumping == IInv /\ BranchesEnclosed /\ status = "gen" /\ frames # << >> /\ freed = {}

LEMMA JumpingLemma ==
    ASSUME Jumping
    PROVE  /\ Enclosed(cir, Current, Current \union Held) /\ ToSet(breaks) \subseteq Current \union Held
           /\ Len(frames) \in Nat /\ Len(frames) > 0 /\ DOMAIN frames = 1..Len(frames)
           /\ frames \in Seq(FrameType(Len(cir.blk))) /\ frames # << >> /\ IInv
           /\ Top = frames[Len(frames)] /\ Top \in FrameType(Len(cir.blk)) /\ Top.node \in Nodes
           /\ \A k \in 1..Len(frames) : Uses(frames[k], Current) /\ Pending(frames[k]) \subseteq Held
           /\ Uses(Top, Current) /\ Pending(Top) \subseteq Held /\ Held \subseteq 1..Len(cir.blk)
           /\ Len(cir.blk) \in Nat /\ cir.cur \in Current
<1>1. /\ Enclosed(cir, Current, Current \union Held) /\ ToSet(breaks) \subseteq Current \union Held
      /\ \A k \in DOMAIN frames : Uses(frames[k], Current)
  BY DEF Jumping, BranchesEnclosed
<1>2. IInv /\ frames # << >>
  BY DEF Jumping
<1>3. /\ frames \in Seq(FrameType(Len(cir.blk))) /\ Top \in FrameType(Len(cir.blk))
      /\ Len(cir.blk) \in Nat
  BY <1>2, InsideLemma
<1>4. /\ Len(frames) \in Nat /\ Len(frames) > 0 /\ DOMAIN frames = 1..Len(frames)
      /\ Top = frames[Len(frames)]
  BY <1>2, <1>3, StackLemma DEF Top
<1>5. \A k \in 1..Len(frames) : Pending(frames[k]) \subseteq Held
  BY <1>4 DEF Held
<1>6. Len(frames) \in 1..Len(frames)
  BY <1>4
<1>7. Held \subseteq 1..Len(cir.blk) /\ cir.cur \in Current
  BY <1>1 DEF Enclosed, Framed
<1>8. Top.node \in Nodes
  BY <1>3 DEF FrameType
<1>. QED
  BY <1>1, <1>2, <1>3, <1>4, <1>5, <1>6, <1>7, <1>8

\* A function that holds more blocks holds those that were used.
LEMMA UsesLemma ==
    ASSUME NEW f, NEW T, NEW U, Uses(f, T), T \subseteq U
    PROVE  Uses(f, U)
  BY DEF Uses

\* A method that returns has added the blocks it held.
LEMMA LeaveEnclosed ==
    ASSUME Jumping, status' = "gen", frames' = Front(frames),
           NEW T, NEW G, Enclosed(cir', T, G), Current \subseteq T, Held \subseteq G,
           G \subseteq T \union Held, Pending(Top) \subseteq T, ToSet(breaks') \subseteq G
    PROVE  BranchesEnclosed'
<1>. DEFINE m == Len(frames)
<1>1. /\ m \in Nat /\ m > 0 /\ DOMAIN frames = 1..m /\ Top = frames[m]
      /\ frames \in Seq(FrameType(Len(cir.blk))) /\ frames # << >>
      /\ \A k \in 1..m : Uses(frames[k], Current)
  BY JumpingLemma
<1>2. /\ DOMAIN frames' = 1..(m - 1) /\ \A k \in 1..(m - 1) : frames'[k] = frames[k]
  <2>1. frames' \in Seq(FrameType(Len(cir.blk))) /\ Len(frames') = m - 1
    BY <1>1, StackLemma
  <2>. QED
    BY <1>1, <2>1, StackLemma
<1>. HIDE DEF m
<1>3. Current' = T
  BY DEF Current, Function, Enclosed, Framed
<1>4. \A k \in 1..m : k \in 1..(m - 1) \/ k = m
  BY <1>1
<1>5. T \union Held' = G
  <2>1. Held' = UNION {Pending(frames[k]) : k \in 1..(m - 1)}
    BY <1>2 DEF Held
  <2>2. 1..(m - 1) \subseteq 1..m
    BY <1>1
  <2>3. Held' \subseteq Held /\ Held \subseteq Held' \union Pending(Top)
    BY <1>1, <1>4, <2>1, <2>2 DEF Held
  <2>4. T \subseteq G
    BY DEF Enclosed, Framed
  <2>. QED
    BY <2>3, <2>4
<1>6. \A k \in DOMAIN frames' : Uses(frames'[k], T)
  <2>1. 1..(m - 1) \subseteq 1..m
    BY <1>1
  <2>. QED
    BY <1>1, <1>2, <2>1, UsesLemma
<1>7. ASSUME frames' = << >>
      PROVE  Blank(cir') /\ BranchesStayInside'
  <2>1. T = G
    <3>1. Held' = {}
      BY <1>7 DEF Held
    <3>. QED
      BY <1>5, <3>1
  <2>2. /\ Blank(cir') /\ T = ToSet(cir'.fun[Len(cir'.fun)]) /\ Within(cir', Len(cir'.fun), T)
        /\ \A F \in 1..(Len(cir'.fun) - 1) : Within(cir', F, ToSet(cir'.fun[F]))
    BY <2>1 DEF Enclosed, Framed
  <2>3. Len(cir'.fun) \in Nat /\ DOMAIN cir'.fun = 1..Len(cir'.fun)
    BY EnclosedShape
  <2>4. \A F \in DOMAIN cir'.fun : Within(cir', F, ToSet(cir'.fun[F]))
    BY <2>2, <2>3
  <2>. QED
    BY <2>2, <2>4 DEF BranchesStayInside, Within, Function
<1>. QED
  BY <1>3, <1>5, <1>6, <1>7 DEF BranchesEnclosed

\* A method that goes on holds blocks that were its own, or are new.
LEMMA GoOnEnclosed ==
    ASSUME Jumping, status' = "gen", NEW f, Stay(f) \/ \E e : Enter(f, e),
           NEW T, NEW G, Enclosed(cir', T, G), Current \subseteq T, Held \subseteq G,
           G \subseteq T \union Held \union Pending(f), Pending(Top) \subseteq T \union Pending(f),
           Pending(f) \subseteq G, Uses(f, T), ToSet(breaks') \subseteq G
    PROVE  BranchesEnclosed'
<1>. DEFINE m == Len(frames)
<1>1. /\ m \in Nat /\ m > 0 /\ DOMAIN frames = 1..m /\ Top = frames[m]
      /\ IInv /\ frames # << >>
      /\ \A k \in 1..m : Uses(frames[k], Current)
  BY JumpingLemma
<1>2. /\ \A k \in 1..(m - 1) : frames'[k] = frames[k]
      /\ frames'[m] = f
      /\ \/ DOMAIN frames' = 1..m
         \/ /\ DOMAIN frames' = 1..(m + 1)
            /\ \E e, brk, dep : frames'[m + 1] = Activation(e, brk, dep)
  BY <1>1, GoOnFrames
<1>. HIDE DEF m
<1>3. Current' = T
  BY DEF Current, Function, Enclosed, Framed
<1>4. ASSUME NEW k \in DOMAIN frames'
      PROVE  \/ k \in 1..(m - 1) /\ frames'[k] = frames[k]
             \/ k = m /\ frames'[k] = f
             \/ Pending(frames'[k]) = {} /\ Uses(frames'[k], T)
  <2>1. CASE k \in 1..(m - 1)
    BY <1>2, <2>1
  <2>2. CASE k = m
    BY <1>2, <2>2
  <2>3. CASE k \notin 1..(m - 1) /\ k # m
    <3>1. k = m + 1 /\ \E e, brk, dep : frames'[m + 1] = Activation(e, brk, dep)
      BY <1>1, <1>2, <2>3
    <3>2. PICK e, brk, dep : frames'[k] = Activation(e, brk, dep)
      BY <3>1
    <3>3. /\ frames'[k].at = "start" /\ frames'[k].head = 0 /\ frames'[k].body = 0
          /\ frames'[k].alt = 0 /\ frames'[k].after = 0
      BY <3>2 DEF Activation
    <3>. QED
      BY <3>3 DEF Pending, Uses
  <2>. QED
    BY <2>1, <2>2, <2>3
<1>5. 1..(m - 1) \subseteq 1..m /\ m \in 1..m /\ 1..(m - 1) \subseteq DOMAIN frames' /\ m \in DOMAIN frames'
  <2>1. 1..(m - 1) \subseteq 1..m /\ m \in 1..m /\ 1..m \subseteq 1..(m + 1)
    BY <1>1
  <2>. QED
    BY <1>2, <2>1
<1>6. T \union Held' = G
  <2>1. Held' \subseteq G
    <3>1. ASSUME NEW k \in DOMAIN frames', NEW b \in Pending(frames'[k])
          PROVE  b \in G
      <4>1. CASE k \in 1..(m - 1) /\ frames'[k] = frames[k]
        BY <1>1, <1>5, <3>1, <4>1 DEF Held
      <4>. QED
        BY <1>4, <3>1, <4>1
    <3>. QED
      BY <3>1 DEF Held
  <2>2. Held \subseteq T \union Held'
    <3>1. ASSUME NEW k \in 1..m, NEW b \in Pending(frames[k])
          PROVE  b \in T \union Held'
      <4>1. CASE k = m
        BY <1>1, <1>2, <1>5, <3>1, <4>1 DEF Held
      <4>2. CASE k # m
        <5>1. k \in 1..(m - 1)
          BY <1>1, <4>2
        <5>2. k \in DOMAIN frames' /\ frames'[k] = frames[k]
          BY <1>2, <1>5, <5>1
        <5>. QED
          BY <3>1, <5>2 DEF Held
      <4>. QED
        BY <4>1, <4>2
    <3>. QED
      BY <1>1, <3>1 DEF Held
  <2>3. Pending(f) \subseteq Held'
    BY <1>2, <1>5 DEF Held
  <2>4. T \subseteq G
    BY DEF Enclosed, Framed
  <2>. QED
    BY <2>1, <2>2, <2>3, <2>4
<1>7. ASSUME NEW k \in DOMAIN frames'
      PROVE  Uses(frames'[k], T)
  <2>1. CASE k \in 1..(m - 1) /\ frames'[k] = frames[k]
    <3>1. Uses(frames[k], Current)
      BY <1>1, <1>5, <2>1
    <3>. QED
      BY <2>1, <3>1, UsesLemma
  <2>. QED
    BY <1>4, <2>1
<1>8. frames' # << >>
  BY <1>5
<1>. QED
  BY <1>3, <1>6, <1>7, <1>8 DEF BranchesEnclosed

-----------------------------------------------------------------------------
(* Branches: the actions.                                                 *)

\* The instructions that do not branch.
LEMMA QuietLemma ==
    /\ \A op, ty, uses : op \notin {"Goto", "GotoIf"} => ~Branches(Instr(op, ty, uses))
    /\ \A ty, b1, v1, b2, v2 : ~Branches(PhiInstr(ty, b1, v1, b2, v2))
  BY DEF Branches, Instr, PhiInstr

\* A method that holds no block returns.
LEMMA LeaveQuiet ==
    ASSUME Jumping, status' = "gen", frames' = Front(frames), Pending(Top) = {},
           Enclosed(cir', Current, Current \union Held), ToSet(breaks') \subseteq ToSet(breaks)
    PROVE  BranchesEnclosed'
<1>1. ToSet(breaks) \subseteq Current \union Held
  BY JumpingLemma
<1>. QED
  BY <1>1, LeaveEnclosed

\* A method goes on with the blocks it has.
LEMMA GoOnQuiet ==
    ASSUME Jumping, status' = "gen", NEW f, Stay(f) \/ \E e : Enter(f, e),
           f.head = Top.head, f.body = Top.body, f.alt = Top.alt, f.after = Top.after,
           Pending(f) = Pending(Top),
           Enclosed(cir', Current, Current \union Held), ToSet(breaks') \subseteq ToSet(breaks)
    PROVE  BranchesEnclosed'
<1>1. /\ ToSet(breaks) \subseteq Current \union Held /\ Uses(Top, Current)
      /\ Pending(Top) \subseteq Held
  BY JumpingLemma
<1>2. Uses(f, Current)
  BY <1>1 DEF Uses
<1>. QED
  BY <1>1, <1>2, GoOnEnclosed

\* Nothing that matters here changes.
LEMMA SameEnclosed ==
    ASSUME BranchesEnclosed, UNCHANGED <<cir, frames, breaks, freed>>,
           status' \notin {"gen", "aborted"} => frames = << >>
    PROVE  BranchesEnclosed'
<1>1. Current' = Current /\ Held' = Held /\ (BranchesStayInside => BranchesStayInside')
  BY DEF Current, Held, Function, BranchesStayInside, Finished
<1>. QED
  BY <1>1 DEF BranchesEnclosed

LEMMA AbortEnclosed ==
    ASSUME BranchesEnclosed, Abort
    PROVE  BranchesEnclosed'
  BY SameEnclosed DEF Abort

\* The addresses of elements and members.
LEMMA GEPEnclosed ==
    ASSUME NEW T, NEW G, Enclosed(cir, T, G), NEW index
    PROVE  Enclosed(GEP_index(index).c, T, G) /\ Enclosed(GEP_member.c, T, G)
<1>. DEFINE e == Convert(cir, ret, index.ty, "i64")
            i == Instr("GepArray", "ptr", <<varRefs[InPlace.x], e.r>>)
            j == Instr("GepStruct", "ptr", <<varRefs[InPlace.x]>>)
<1>1. GEP_index(index) = [c |-> cir, r |-> NoRef] \/ GEP_index(index) = Emit(e.c, i)
  BY DEF GEP_index
<1>2. GEP_member = Emit(cir, j)
  BY DEF GEP_member
<1>3. Enclosed(e.c, T, G) /\ ~Branches(i) /\ ~Branches(j)
  BY EnclosedLemma, QuietLemma
<1>. HIDE DEF e, i, j
<1>4. Enclosed(Emit(e.c, i).c, T, G) /\ Enclosed(Emit(cir, j).c, T, G)
  BY <1>3, EnclosedLemma
<1>. QED
  BY <1>1, <1>2, <1>4

\* The expressions on memory and the arguments of a call.
LEMMA MemoryKeeps ==
    ASSUME NEW T, NEW G, Enclosed(cir, T, G), Memory \/ Argument \/ Argument_missing
    PROVE  Enclosed(cir', T, G)
<1>1. CASE AddrExpr_gen \/ StructMemberCallExpr_gen \/ VectorMember
  <2>1. cir' = cir
    BY <1>1 DEF AddrExpr_gen, StructMemberCallExpr_gen, VectorMember, Report
  <2>. QED
    BY <2>1
<1>2. CASE NotImplemented \/ Operand_missing \/ Argument_missing
  <2>1. cir' = cir
    BY <1>2 DEF NotImplemented, Operand_missing, Argument_missing, Abort
  <2>. QED
    BY <2>1
<1>3. CASE DerefExpr_gen \/ SizeofExpr_gen \/ ConstantVectorExpr_gen \/ AsmExpr_gen
  <2>1. cir' = cir \/ \E op, ty, uses : /\ op \notin {"Goto", "GotoIf"}
                                        /\ cir' = Emit(cir, Instr(op, ty, uses)).c
    <3>1. CASE DerefExpr_gen
      BY <3>1 DEF DerefExpr_gen, Report, EmitAndLeave
    <3>2. CASE SizeofExpr_gen
      BY <3>2 DEF SizeofExpr_gen, EmitAndLeave
    <3>3. CASE ConstantVectorExpr_gen
      BY <3>3 DEF ConstantVectorExpr_gen, EmitAndLeave
    <3>4. CASE AsmExpr_gen
      BY <3>4 DEF AsmExpr_gen, Report, EmitAndLeave
    <3>. QED
      BY <1>3, <3>1, <3>2, <3>3, <3>4
  <2>. QED
    BY <2>1, EnclosedLemma, QuietLemma
<1>4. CASE ReadElement \/ ReadMember \/ WriteElement \/ WriteMember
  <2>1. PICK g : /\ g = GEP_member \/ \E index : g = GEP_index(index)
                 /\ \E op, ty, rest : op \notin {"Goto", "GotoIf"} /\ LeaveWith(g, op, ty, rest)
    <3>1. CASE ReadElement
      BY <3>1 DEF ReadElement
    <3>2. CASE WriteElement
      BY <3>2 DEF WriteElement
    <3>3. CASE ReadMember
      BY <3>3 DEF ReadMember
    <3>4. CASE WriteMember
      BY <3>4 DEF WriteMember
    <3>. QED
      BY <1>4, <3>1, <3>2, <3>3, <3>4
  <2>2. Enclosed(g.c, T, G)
    BY <2>1, GEPEnclosed
  <2>3. \E op, ty, uses : op \notin {"Goto", "GotoIf"} /\ cir' = Emit(g.c, Instr(op, ty, uses)).c
    BY <2>1 DEF LeaveWith, EmitAndLeave
  <2>. QED
    BY <2>2, <2>3, EnclosedLemma, QuietLemma
<1>5. CASE CastExpr_gen \/ Argument
  <2>1. cir' = cir \/ \E r, from, to : cir' = Convert(cir, r, from, to).c
    BY <1>5 DEF CastExpr_gen, Argument
  <2>. QED
    BY <2>1, EnclosedLemma
<1>. QED
  BY <1>1, <1>2, <1>3, <1>4, <1>5 DEF Memory

\* What holds for the actions that neither return nor stop.
LEMMA MemoryEnclosed ==
    ASSUME Jumping, Memory \/ Argument \/ Argument_missing
    PROVE  BranchesEnclosed'
<1>1. /\ Top.node.kind \notin {"if", "for"} /\ breaks' = breaks
      /\ \/ frames' = Front(frames)
         \/ \E r : Stay([Top EXCEPT !.at = "start", !.refs = Append(@, r)])
         \/ Abort
  BY MemoryWays DEF Scoped
<1>2. CASE Abort
  BY <1>2, AbortEnclosed DEF Jumping
<1>3. CASE ~Abort
  <2>1. status' = "gen"
    <3>1. CASE Argument \/ (Memory /\ ~(NotImplemented \/ Operand_missing))
      BY <3>1 DEF Jumping, Argument, Memory, AddrExpr_gen, DerefExpr_gen, ReadElement, ReadMember,
         WriteElement, WriteMember, LeaveWith, StructMemberCallExpr_gen, SizeofExpr_gen, CastExpr_gen,
         VectorMember, ConstantVectorExpr_gen, AsmExpr_gen, Report, Steady
    <3>2. ~(NotImplemented \/ Operand_missing \/ Argument_missing)
      BY <1>3 DEF NotImplemented, Operand_missing, Argument_missing
    <3>. QED
      BY <3>1, <3>2
  <2>2. Enclosed(cir', Current, Current \union Held) /\ Top \in FrameType(Len(cir.blk))
    BY JumpingLemma, MemoryKeeps
  <2>3. Pending(Top) = {}
    BY <1>1 DEF Pending
  <2>4. CASE frames' = Front(frames)
    BY <1>1, <2>1, <2>2, <2>3, <2>4, LeaveQuiet
  <2>5. ASSUME NEW r, Stay([Top EXCEPT !.at = "start", !.refs = Append(@, r)])
        PROVE  BranchesEnclosed'
    <3>. DEFINE f == [Top EXCEPT !.at = "start", !.refs = Append(@, r)]
    <3>1. Stay(f)
      BY <2>5
    <3>2. /\ f.node = Top.node /\ f.head = Top.head /\ f.body = Top.body /\ f.alt = Top.alt
          /\ f.after = Top.after
      BY <2>2 DEF FrameType
    <3>. HIDE DEF f
    <3>3. Pending(f) = {}
      BY <1>1, <3>2 DEF Pending
    <3>. QED
      BY <1>1, <2>1, <2>2, <2>3, <3>1, <3>2, <3>3, GoOnQuiet
  <2>. QED
    BY <1>1, <1>3, <2>4, <2>5
<1>. QED
  BY <1>2, <1>3

\* The other expressions without control flow.
LEMMA SimpleEnclosed ==
    ASSUME Jumping, Simple, ~LabelExpr_gen, ~(Argument \/ Argument_missing)
    PROVE  BranchesEnclosed'
<1>. DEFINE G == Current \union Held
<1>1. CASE GotoExpr_gen \/ BreakExpr_dangling
  BY <1>1, AbortEnclosed DEF GotoExpr_gen, BreakExpr_dangling, Jumping
<1>2. SUFFICES ASSUME ~GotoExpr_gen, ~BreakExpr_dangling
               PROVE  BranchesEnclosed'
  BY <1>1
<1>3. /\ Enclosed(cir, Current, G) /\ Top \in FrameType(Len(cir.blk)) /\ Current \subseteq G
      /\ ToSet(breaks) \subseteq G
  BY JumpingLemma
<1>4. /\ Top.node.kind \notin {"if", "for"} /\ status' = "gen" /\ breaks' = breaks
  <2>1. CASE Constant \/ VariableExpr_gen \/ Operand \/ VarExpr_gen \/ Assign_gen \/ BinaryExpr_gen
    BY <2>1 DEF Jumping, Constant, Literals, VariableExpr_gen, Operand, VarExpr_gen, Assign_gen,
       BinaryExpr_gen, Evaluated, At, Steady, SameStacks
  <2>2. CASE CallExpr_gen \/ Return_gen \/ DeferExpr_gen \/ MatchExpr_gen \/ BreakExpr_gen \/ BreakExpr_error
    BY <2>2 DEF Jumping, CallExpr_gen, Return_gen, DeferExpr_gen, MatchExpr_gen, BreakExpr_gen,
       BreakExpr_error, Report, Evaluated, At, Steady, SameStacks
  <2>. QED
    BY <1>2, <2>1, <2>2 DEF Simple
<1>5. Pending(Top) = {}
  BY <1>4 DEF Pending
<1>. HIDE DEF G
<1>6. ASSUME NEW c, Enclosed(c, Current, G), NEW i, ~Branches(i), EmitAndLeave(c, i)
      PROVE  BranchesEnclosed'
  <2>1. Enclosed(cir', Current, G) /\ frames' = Front(frames)
    BY <1>6, EnclosedLemma DEF EmitAndLeave, Leave
  <2>. QED
    BY <1>4, <1>5, <2>1, LeaveQuiet DEF G
<1>7. CASE Operand
  <2>. DEFINE f == [Top EXCEPT !.at = "operand", !.i = @ + 1,
                               !.keep = IF Top.i = 0 THEN NoRef ELSE ret]
  <2>1. Enter(f, Top.node.kids[Top.i + 1]) /\ cir' = cir
    BY <1>7 DEF Operand
  <2>2. /\ f.node = Top.node /\ f.head = Top.head /\ f.body = Top.body /\ f.alt = Top.alt
        /\ f.after = Top.after
    BY <1>3 DEF FrameType
  <2>. HIDE DEF f
  <2>3. Pending(f) = {}
    BY <1>4, <2>2 DEF Pending
  <2>. QED
    BY <1>3, <1>4, <1>5, <2>1, <2>2, <2>3, GoOnQuiet DEF G
<1>8. CASE Constant \/ VariableExpr_gen \/ CallExpr_gen \/ DeferExpr_gen
  <2>1. PICK op, ty, uses : op \notin {"Goto", "GotoIf"} /\ EmitAndLeave(cir, Instr(op, ty, uses))
    <3>1. CASE Constant
      <4>1. EmitAndLeave(cir, Literal(Top.node.kind))
        BY <3>1 DEF Constant
      <4>2. \E op, ty, uses : op \notin {"Goto", "GotoIf"} /\ Literal(Top.node.kind) = Instr(op, ty, uses)
        BY DEF Literal
      <4>. QED
        BY <4>1, <4>2
    <3>2. CASE VariableExpr_gen
      BY <3>2 DEF VariableExpr_gen
    <3>3. CASE CallExpr_gen
      BY <3>3 DEF CallExpr_gen
    <3>4. CASE DeferExpr_gen
      BY <3>4 DEF DeferExpr_gen
    <3>. QED
      BY <1>8, <3>1, <3>2, <3>3, <3>4
  <2>. QED
    BY <1>3, <1>6, <2>1, QuietLemma
<1>9. CASE VarExpr_gen \/ Assign_gen \/ Return_gen
  <2>1. PICK c, op, ty, uses :
           /\ op \notin {"Goto", "GotoIf"} /\ EmitAndLeave(c, Instr(op, ty, uses))
           /\ c = cir \/ \E r, from, to : c = Convert(cir, r, from, to).c
    <3>1. CASE VarExpr_gen
      <4>. DEFINE e == IF Top.i = 0 THEN [c |-> cir, r |-> NoRef]
                       ELSE IF IsEmpty(ret) THEN [c |-> cir, r |-> ret]
                       ELSE Convert(cir, ret, Top.node.kids[1].ty, Top.node.ty)
      <4>1. EmitAndLeave(e.c, Instr("VarInit", Top.node.ty, <<e.r>>))
        BY <3>1 DEF VarExpr_gen
      <4>2. e.c = cir \/ \E r, from, to : e.c = Convert(cir, r, from, to).c
        OBVIOUS
      <4>. HIDE DEF e
      <4>. QED
        BY <4>1, <4>2
    <3>2. CASE Assign_gen
      BY <3>2 DEF Assign_gen
    <3>3. CASE Return_gen
      BY <3>3 DEF Return_gen
    <3>. QED
      BY <1>9, <3>1, <3>2, <3>3
  <2>2. Enclosed(c, Current, G)
    BY <1>3, <2>1, EnclosedLemma
  <2>. QED
    BY <1>6, <2>1, <2>2, QuietLemma
<1>10. CASE BinaryExpr_gen
  <2>. DEFINE left == AsI64(Top.node.x, cir, Top.keep, Top.node.kids[1].ty)
              right == AsI64(Top.node.x, left.c, ret, Top.node.kids[2].ty)
              e == Convert(right.c, right.r, right.ty, left.ty)
              i == Instr("Binary", Top.node.ty, <<left.r, e.r>>)
  <2>1. (cir' = e.c /\ Leave(NoRef)) \/ EmitAndLeave(e.c, i)
    BY <1>10 DEF BinaryExpr_gen
  <2>2. ~Branches(i)
    BY QuietLemma
  <2>. HIDE DEF i
  <2>3. ASSUME NEW op, NEW c, Enclosed(c, Current, G), NEW ref, NEW ty
        PROVE  Enclosed(AsI64(op, c, ref, ty).c, Current, G)
    BY <2>3, EnclosedLemma DEF AsI64
  <2>4. Enclosed(left.c, Current, G)
    BY <1>3, <2>3
  <2>. HIDE DEF left
  <2>5. Enclosed(right.c, Current, G)
    BY <2>3, <2>4
  <2>. HIDE DEF right
  <2>6. Enclosed(e.c, Current, G)
    BY <2>5, EnclosedLemma
  <2>. HIDE DEF e
  <2>7. CASE cir' = e.c /\ Leave(NoRef)
    BY <1>4, <1>5, <2>6, <2>7, LeaveQuiet DEF Leave, G
  <2>. QED
    BY <1>6, <2>1, <2>2, <2>6, <2>7
<1>11. CASE MatchExpr_gen \/ BreakExpr_error
  <2>1. cir' = cir /\ frames' = Front(frames)
    BY <1>11 DEF MatchExpr_gen, BreakExpr_error, Report, Leave
  <2>. QED
    BY <1>3, <1>4, <1>5, <2>1, LeaveQuiet DEF G
<1>12. CASE BreakExpr_gen
  <2>1. EmitAndLeave(CreateGoto(cir, Last(breaks)), Instr("ConstVoid", "void", << >>)) /\ breaks # << >>
    BY <1>12 DEF BreakExpr_gen
  <2>2. breaks \in Seq(1..Len(cir.blk))
    BY JumpingLemma, InsideLemma
  <2>3. Last(breaks) \in G
    <3>1. Len(breaks) \in DOMAIN breaks /\ Last(breaks) = breaks[Len(breaks)]
      <4>1. PICK S : breaks \in Seq(S)
        BY <2>2
      <4>2. /\ Len(breaks) \in Nat /\ Len(breaks) > 0 /\ DOMAIN breaks = 1..Len(breaks)
            /\ Last(breaks) = breaks[Len(breaks)]
        BY <2>1, <4>1, StackLemma
      <4>. QED
        BY <4>2
    <3>2. breaks[Len(breaks)] \in ToSet(breaks)
      BY <3>1 DEF ToSet
    <3>. QED
      BY <1>3, <3>1, <3>2
  <2>4. Enclosed(CreateGoto(cir, Last(breaks)), Current, G)
    BY <1>3, <2>3, EnclosedLemma
  <2>. QED
    BY <1>6, <2>1, <2>4, QuietLemma
<1>. QED
  BY <1>2, <1>7, <1>8, <1>9, <1>10, <1>11, <1>12 DEF Simple

\* The block of a label.
LEMMA LabelEnclosed ==
    ASSUME Jumping, LabelExpr_gen
    PROVE  BranchesEnclosed'
<1>. DEFINE n == Len(cir.blk)
            c == NewBlock(cir, Top.node.x)
            d == AddBasicBlock(c, n + 1)
            T == Current \union {n + 1}
            G == (Current \union Held) \union {n + 1}
<1>1. /\ Enclosed(cir, Current, Current \union Held) /\ ToSet(breaks) \subseteq Current \union Held
  BY JumpingLemma
<1>2. /\ Enclosed(c, Current, G) /\ LastBlock(c) = n + 1
  BY <1>1, EnclosedNewBlock
<1>3. /\ cir' = SetInsertPoint(CreateGoto(d, n + 1), n + 1) /\ frames' = Front(frames)
      /\ status' = "gen" /\ breaks' = breaks /\ Top.node.kind = "label"
  BY <1>2 DEF LabelExpr_gen, Leave, At, Steady, SameStacks, Jumping
<1>4. n + 1 \in G /\ n + 1 \in T /\ Current \subseteq T /\ Held \subseteq G /\ G \subseteq T \union Held
  OBVIOUS
<1>. HIDE DEF n, c, G
<1>5. Enclosed(d, T, G)
  BY <1>2, <1>4, EnclosedAdd
<1>. HIDE DEF d, T
<1>6. Enclosed(CreateGoto(d, n + 1), T, G)
  BY <1>4, <1>5, EnclosedLemma
<1>7. Enclosed(cir', T, G)
  BY <1>3, <1>4, <1>6, EnclosedLemma
<1>8. Pending(Top) = {}
  BY <1>3 DEF Pending
<1>9. ToSet(breaks') \subseteq G
  BY <1>1, <1>3 DEF G
<1>. QED
  BY <1>3, <1>4, <1>7, <1>8, <1>9, LeaveEnclosed

\* Blocks of statements.
LEMMA ScopeEnclosed ==
    ASSUME Jumping,
           ScopeExpr_gen \/ NextStatement \/ EndScope \/ RunDefer \/ ScopeExpr_end
    PROVE  BranchesEnclosed'
<1>1. cir' = cir /\ status' = "gen" /\ breaks' = breaks
  BY DEF ScopeExpr_gen, NextStatement, EndScope, RunDefer, ScopeExpr_end, Steady, SameStacks, Jumping
<1>2. Enclosed(cir', Current, Current \union Held) /\ Top \in FrameType(Len(cir.blk))
  BY <1>1, JumpingLemma
<1>3. ASSUME NEW f, f.node = Top.node, f.head = Top.head, f.body = Top.body, f.alt = Top.alt,
             f.after = Top.after, Stay(f) \/ \E e : Enter(f, e),
             \/ Top.node.kind \notin {"if", "for"}
             \/ Top.at \in {"body", "endScope"} /\ f.at = "endScope" /\ Top.node.kind # "if"
      PROVE  BranchesEnclosed'
  <2>1. Pending(f) = Pending(Top)
    BY <1>3 DEF Pending
  <2>. QED
    BY <1>1, <1>2, <1>3, <2>1, GoOnQuiet
<1>4. CASE ScopeExpr_gen
  <2>. DEFINE f == [Top EXCEPT !.at = "body"]
  <2>1. Stay(f) /\ Top.node.kind = "scope"
    BY <1>4 DEF ScopeExpr_gen, At
  <2>2. /\ f.node = Top.node /\ f.head = Top.head /\ f.body = Top.body /\ f.alt = Top.alt
        /\ f.after = Top.after
    BY <1>2 DEF FrameType
  <2>. HIDE DEF f
  <2>. QED
    BY <1>3, <2>1, <2>2
<1>5. CASE NextStatement
  <2>. DEFINE f == [Top EXCEPT !.i = @ + 1]
  <2>1. /\ Enter(f, Top.node.kids[Top.i + 1])
        /\ Top.node.kind \in {"scope", "loop", "function"}
    BY <1>5 DEF NextStatement, At
  <2>2. /\ f.node = Top.node /\ f.head = Top.head /\ f.body = Top.body /\ f.alt = Top.alt
        /\ f.after = Top.after
    BY <1>2 DEF FrameType
  <2>. HIDE DEF f
  <2>. QED
    BY <1>3, <2>1, <2>2
<1>6. CASE EndScope
  <2>. DEFINE f == [Top EXCEPT !.at = "endScope", !.defers = Last(scopes),
                               !.val = IF Top.node.kids = << >> THEN NoRef ELSE ret]
  <2>1. Stay(f) /\ Top.at = "body" /\ Top.node.kind # "if"
    BY <1>6 DEF EndScope, At
  <2>2. /\ f.node = Top.node /\ f.head = Top.head /\ f.body = Top.body /\ f.alt = Top.alt
        /\ f.after = Top.after /\ f.at = "endScope"
    BY <1>2 DEF FrameType
  <2>. HIDE DEF f
  <2>. QED
    BY <1>3, <2>1, <2>2
<1>7. CASE RunDefer
  <2>. DEFINE f == [Top EXCEPT !.defers = Tail(@)]
  <2>1. Enter(f, Head(Top.defers)) /\ Top.at = "endScope" /\ Top.node.kind # "if"
    BY <1>7 DEF RunDefer, At, Scoped
  <2>2. /\ f.node = Top.node /\ f.head = Top.head /\ f.body = Top.body /\ f.alt = Top.alt
        /\ f.after = Top.after /\ f.at = Top.at
    BY <1>2 DEF FrameType
  <2>. HIDE DEF f
  <2>. QED
    BY <1>3, <2>1, <2>2
<1>8. CASE ScopeExpr_end
  <2>1. frames' = Front(frames) /\ Top.node.kind = "scope"
    BY <1>8 DEF ScopeExpr_end, CloseScope, At, Leave
  <2>2. Pending(Top) = {}
    BY <2>1 DEF Pending
  <2>. QED
    BY <1>1, <1>2, <2>1, <2>2, LeaveQuiet
<1>. QED
  BY <1>4, <1>5, <1>6, <1>7, <1>8

\* The condition of an if: the block of Then is added, the others are held.
LEMMA IfThenEnclosed ==
    ASSUME Jumping, IfExpr_then
    PROVE  BranchesEnclosed'
<1>. DEFINE e == Convert(cir, ret, Top.node.kids[1].ty, "bool")
            n == Len(e.c.blk)
            c1 == NewBlock(e.c, "then")
            a == AddBasicBlock(c1, n + 1)
            c2 == NewBlock(a, "else")
            c3 == NewBlock(c2, "ifcont")
            f == [Top EXCEPT !.at = "then", !.body = n + 1, !.alt = n + 2, !.after = n + 3]
            g == Top.node.kids[2]
            T == Current \union {n + 1}
            H == Current \union Held
            G1 == H \union {n + 1}
            G2 == G1 \union {n + 2}
            G3 == G2 \union {n + 3}
<1>1. /\ Enclosed(cir, Current, H) /\ ToSet(breaks) \subseteq H /\ Top \in FrameType(Len(cir.blk))
      /\ Uses(Top, Current)
  BY JumpingLemma
<1>2. /\ Top.node.kind = "if" /\ Top.at = "cond" /\ status' = "gen" /\ breaks' = breaks
  BY DEF IfExpr_then, At, Steady, SameStacks, Jumping
<1>3. Enclosed(e.c, Current, H)
  BY <1>1, EnclosedLemma
<1>4. Enclosed(c1, Current, G1) /\ LastBlock(c1) = n + 1 /\ Len(c1.blk) = n + 1 /\ n \in Nat
  <2>1. n \in Nat
    BY <1>3, EnclosedShape
  <2>. HIDE DEF H
  <2>2. /\ Enclosed(c1, Current, H \union {n + 1}) /\ LastBlock(c1) = n + 1
        /\ Len(c1.blk) = n + 1
    <3>1. PICK c : c = e.c
      OBVIOUS
    <3>2. n = Len(c.blk) /\ c1 = NewBlock(c, "then") /\ Enclosed(c, Current, H)
      BY <1>3, <3>1
    <3>. HIDE DEF n, c1, e
    <3>. QED
      BY <3>2, EnclosedNewBlock
  <2>. QED
    BY <2>1, <2>2
<1>5. /\ cir' = SetInsertPoint(CreateGotoIf(c3, e.r, n + 1, LastBlock(c2)), n + 1)
      /\ Enter([Top EXCEPT !.at = "then", !.body = n + 1, !.alt = LastBlock(c2),
                           !.after = LastBlock(c3)], g)
  <2>. DEFINE then == LastBlock(c1)
              d2 == NewBlock(AddBasicBlock(c1, then), "else")
              d3 == NewBlock(d2, "ifcont")
  <2>1. /\ cir' = SetInsertPoint(CreateGotoIf(d3, e.r, then, LastBlock(d2)), then)
        /\ Enter([Top EXCEPT !.at = "then", !.body = then, !.alt = LastBlock(d2),
                             !.after = LastBlock(d3)], g)
    BY DEF IfExpr_then
  <2>2. then = n + 1
    BY <1>4
  <2>. HIDE DEF then, n, c1, g, e
  <2>. QED
    BY <2>1, <2>2
<1>6. /\ f.node = Top.node /\ f.at = "then" /\ f.head = Top.head /\ f.body = n + 1
      /\ f.alt = n + 2 /\ f.after = n + 3
  <2>. HIDE DEF n
  <2>. QED
    BY <1>1 DEF FrameType
<1>7. (n + 1) + 1 = n + 2 /\ (n + 2) + 1 = n + 3 /\ n + 1 \in Nat /\ n + 2 \in Nat
  <2>. HIDE DEF n
  <2>. QED
    BY <1>4
<1>8. /\ n + 1 \in G1 /\ n + 1 \in T /\ n + 1 \in G3 /\ n + 2 \in G3
      /\ Current \subseteq T /\ Held \subseteq G3 /\ H \subseteq G3
      /\ {n + 2, n + 3} \subseteq G3 /\ G3 \subseteq T \union Held \union {n + 2, n + 3}
  <2>. HIDE DEF n
  <2>. QED
    OBVIOUS
<1>9. Enter(f, g) <=> Enter([Top EXCEPT !.at = "then", !.body = n + 1, !.alt = n + 2,
                                        !.after = n + 3], g)
  OBVIOUS
<1>. HIDE DEF n, e, c1, g, H, G1, f
<1>10. Enclosed(a, T, G1) /\ Len(a.blk) = n + 1
  BY <1>4, <1>8, EnclosedAdd
<1>. HIDE DEF a, T
<1>11. Enclosed(c2, T, G2) /\ Len(c2.blk) = n + 2 /\ LastBlock(c2) = n + 2
  <2>1. PICK m : m = n + 1 /\ m + 1 = n + 2
    BY <1>7
  <2>2. /\ Enclosed(c2, T, G1 \union {m + 1}) /\ LastBlock(c2) = m + 1
        /\ Len(c2.blk) = m + 1
    BY <1>10, <2>1, EnclosedNewBlock
  <2>. QED
    BY <2>1, <2>2
<1>. HIDE DEF c2, G2
<1>12. Enclosed(c3, T, G3) /\ LastBlock(c3) = n + 3
  <2>1. PICK m : m = n + 2 /\ m + 1 = n + 3
    BY <1>7
  <2>2. Enclosed(c3, T, G2 \union {m + 1}) /\ LastBlock(c3) = m + 1
    BY <1>11, <2>1, EnclosedNewBlock
  <2>. QED
    BY <2>1, <2>2
<1>. HIDE DEF c3, G3
<1>13. Enclosed(CreateGotoIf(c3, e.r, n + 1, n + 2), T, G3)
  BY <1>8, <1>12, EnclosedLemma
<1>14. Enclosed(cir', T, G3)
  BY <1>5, <1>8, <1>11, <1>13, EnclosedLemma
<1>15. Enter(f, g)
  BY <1>5, <1>9, <1>11, <1>12
<1>16. Pending(f) = {n + 2, n + 3} /\ Pending(Top) = {}
  BY <1>2, <1>6 DEF Pending
<1>17. Uses(f, T)
  BY <1>1, <1>6, <1>8, <1>16 DEF Uses
<1>18. ToSet(breaks') \subseteq G3
  BY <1>1, <1>2, <1>8
<1>. QED
  BY <1>2, <1>8, <1>14, <1>15, <1>16, <1>17, <1>18, GoOnEnclosed

\* The file with the else block, and with the block after the if.
LEMMA BranchesKept ==
    ASSUME NEW c, NEW T, NEW G, Enclosed(c, T, G), Pending(Top) \subseteq G, Top.node.kind = "if"
    PROVE  /\ Top.at = "then" => Enclosed(ElseBlock(c), T \union {Top.alt}, G)
           /\ Top.at \in {"then", "else"} =>
                 \A diverts : Enclosed(MergeBlock(c, diverts), T \union {Top.after}, G)
<1>1. ASSUME Top.at = "then"
      PROVE  Enclosed(ElseBlock(c), T \union {Top.alt}, G)
  <2>1. Top.alt \in G /\ Top.after \in G
    BY <1>1 DEF Pending
  <2>2. PICK d : d = IF Diverts(Top.node.kids[2]) THEN c ELSE CreateGoto(c, Top.after)
    OBVIOUS
  <2>3. Enclosed(d, T, G)
    BY <2>1, <2>2, EnclosedLemma
  <2>4. Enclosed(AddBasicBlock(d, Top.alt), T \union {Top.alt}, G)
    BY <2>1, <2>3, EnclosedAdd
  <2>5. ElseBlock(c) = SetInsertPoint(AddBasicBlock(d, Top.alt), Top.alt)
    BY <2>2 DEF ElseBlock
  <2>6. Top.alt \in T \union {Top.alt}
    OBVIOUS
  <2>. QED
    BY <2>4, <2>5, <2>6, EnclosedLemma
<1>2. ASSUME Top.at \in {"then", "else"}, NEW diverts
      PROVE  Enclosed(MergeBlock(c, diverts), T \union {Top.after}, G)
  <2>1. Top.after \in G
    BY <1>2 DEF Pending
  <2>2. PICK d : d = IF diverts THEN c ELSE CreateGoto(c, Top.after)
    OBVIOUS
  <2>3. Enclosed(d, T, G)
    BY <2>1, <2>2, EnclosedLemma
  <2>4. Enclosed(AddBasicBlock(d, Top.after), T \union {Top.after}, G)
    BY <2>1, <2>3, EnclosedAdd
  <2>5. MergeBlock(c, diverts) = SetInsertPoint(AddBasicBlock(d, Top.after), Top.after)
    BY <2>2 DEF MergeBlock
  <2>6. Top.after \in T \union {Top.after}
    OBVIOUS
  <2>. QED
    BY <2>4, <2>5, <2>6, EnclosedLemma
<1>. QED
  BY <1>1, <1>2

\* The rest of an if; an early return with a block in hand frees it.
LEMMA IfEnclosed ==
    ASSUME Jumping,
           \/ IfExpr_gen \/ IfExpr_then \/ IfExpr_untyped \/ IfExpr_noElse
           \/ IfExpr_else \/ IfExpr_merge \/ IfExpr_abandon
    PROVE  BranchesEnclosed'
<1>. DEFINE G == Current \union Held
<1>1. /\ Enclosed(cir, Current, G) /\ ToSet(breaks) \subseteq G /\ Top \in FrameType(Len(cir.blk))
      /\ Pending(Top) \subseteq G /\ Current \subseteq G /\ Held \subseteq G /\ cir.cur \in Current
      /\ Uses(Top, Current)
  BY JumpingLemma
<1>2. Top.node.kind = "if" /\ breaks' = breaks
  BY DEF IfExpr_gen, IfExpr_then, IfExpr_untyped, IfExpr_noElse, IfExpr_else, IfExpr_merge,
     IfExpr_abandon, At, SameStacks, Abort
<1>3. IfExpr_untyped \/ status' = "gen"
  BY DEF IfExpr_gen, IfExpr_then, IfExpr_noElse, IfExpr_else, IfExpr_merge, IfExpr_abandon, Steady,
     Jumping
<1>4. \A T : G \subseteq T \union Held <=> Current \subseteq T \union Held
  OBVIOUS
<1>. HIDE DEF G
<1>5. CASE IfExpr_gen
  <2>. DEFINE f == [Top EXCEPT !.at = "cond"]
  <2>1. Enter(f, Top.node.kids[1]) /\ cir' = cir /\ status' = "gen" /\ Top.at = "start"
    BY <1>5 DEF IfExpr_gen, Steady, Jumping, At
  <2>2. /\ f.node = Top.node /\ f.at = "cond" /\ f.head = Top.head /\ f.body = Top.body
        /\ f.alt = Top.alt /\ f.after = Top.after
    BY <1>1 DEF FrameType
  <2>. HIDE DEF f
  <2>3. Pending(f) = Pending(Top)
    BY <1>2, <2>1, <2>2 DEF Pending
  <2>. QED
    BY <1>1, <1>2, <2>1, <2>2, <2>3, GoOnQuiet DEF G
<1>6. CASE IfExpr_then
  BY <1>6, IfThenEnclosed
<1>7. CASE IfExpr_untyped
  BY <1>7, AbortEnclosed DEF IfExpr_untyped, Jumping
<1>8. CASE IfExpr_noElse
  <2>1. PICK i : EmitAndLeave(MergeBlock(ElseBlock(cir), FALSE), i) /\ ~Branches(i)
    BY <1>8, QuietLemma DEF IfExpr_noElse
  <2>2. Top.at = "then" /\ status' = "gen"
    BY <1>8 DEF IfExpr_noElse, At, Jumping, Steady
  <2>3. Pending(Top) = {Top.alt, Top.after}
    BY <1>2, <2>2 DEF Pending
  <2>4. PICK d : d = ElseBlock(cir)
    OBVIOUS
  <2>5. PICK T : T = Current \union {Top.alt}
    OBVIOUS
  <2>6. PICK U : U = T \union {Top.after}
    OBVIOUS
  <2>7. Enclosed(d, T, G)
    BY <1>1, <1>2, <2>2, <2>4, <2>5, BranchesKept
  <2>8. Enclosed(MergeBlock(d, FALSE), U, G)
    BY <1>1, <1>2, <2>2, <2>6, <2>7, BranchesKept
  <2>9. Enclosed(cir', U, G) /\ frames' = Front(frames)
    BY <2>1, <2>4, <2>8, EnclosedLemma DEF EmitAndLeave, Leave
  <2>10. Current \subseteq U /\ Pending(Top) \subseteq U /\ G \subseteq U \union Held
    BY <1>4, <2>3, <2>5, <2>6
  <2>. QED
    BY <1>1, <1>2, <2>2, <2>9, <2>10, LeaveEnclosed
<1>9. CASE IfExpr_else
  <2>. DEFINE f == [Top EXCEPT !.at = "else", !.keep = ret, !.body = cir.cur]
              T == Current \union {Top.alt}
  <2>1. /\ Enter(f, Top.node.kids[3]) /\ cir' = ElseBlock(cir) /\ Top.at = "then"
        /\ status' = "gen"
    BY <1>9 DEF IfExpr_else, At, Steady, Jumping
  <2>2. /\ f.node = Top.node /\ f.at = "else" /\ f.after = Top.after /\ f.alt = Top.alt
        /\ f.head = Top.head /\ f.body = cir.cur
    BY <1>1 DEF FrameType
  <2>. HIDE DEF f
  <2>3. Pending(Top) = {Top.alt, Top.after} /\ Pending(f) = {Top.after}
    BY <1>2, <2>1, <2>2 DEF Pending
  <2>4. Enclosed(cir', T, G)
    BY <1>1, <1>2, <2>1, BranchesKept
  <2>5. /\ Current \subseteq T /\ G \subseteq T \union Held /\ Pending(f) \subseteq G
        /\ Pending(Top) \subseteq T \union Pending(f)
    BY <1>1, <1>4, <2>3
  <2>6. Uses(f, T)
    BY <1>1, <2>2, <2>3 DEF Uses
  <2>7. G \subseteq T \union Held \union Pending(f) /\ ToSet(breaks') \subseteq G
    BY <1>1, <1>2, <2>5
  <2>. HIDE DEF T
  <2>. QED
    BY <1>1, <2>1, <2>4, <2>5, <2>6, <2>7, GoOnEnclosed
<1>10. CASE IfExpr_merge
  <2>1. PICK c, i, diverts :
           /\ EmitAndLeave(MergeBlock(c, diverts), i) /\ ~Branches(i)
           /\ c = cir \/ \E r, from, to : c = Convert(cir, r, from, to).c
    <3>. DEFINE then == Top.node.kids[2]
                else == Top.node.kids[3]
                e == IF else.ty = "void" THEN [c |-> cir, r |-> ret]
                     ELSE Convert(cir, ret, else.ty, then.ty)
                i == IF Diverts(then) \/ Diverts(else) \/ then.ty = "void"
                     THEN Instr("ConstVoid", "void", << >>)
                     ELSE PhiInstr(then.ty, Top.body, Top.keep, Top.alt, e.r)
    <3>1. EmitAndLeave(MergeBlock(e.c, Diverts(else)), i)
      BY <1>10 DEF IfExpr_merge
    <3>2. e.c = cir \/ \E r, from, to : e.c = Convert(cir, r, from, to).c
      OBVIOUS
    <3>3. ~Branches(i)
      BY QuietLemma
    <3>. HIDE DEF e, i, else, then
    <3>. QED
      BY <3>1, <3>2, <3>3
  <2>2. Top.at = "else" /\ status' = "gen"
    BY <1>10 DEF IfExpr_merge, At, Steady, Jumping
  <2>3. Pending(Top) = {Top.after}
    BY <1>2, <2>2 DEF Pending
  <2>4. PICK T : T = Current \union {Top.after}
    OBVIOUS
  <2>5. Enclosed(c, Current, G)
    BY <1>1, <2>1, EnclosedLemma
  <2>6. Enclosed(MergeBlock(c, diverts), T, G)
    BY <1>1, <1>2, <2>2, <2>4, <2>5, BranchesKept
  <2>7. Enclosed(cir', T, G) /\ frames' = Front(frames)
    BY <2>1, <2>6, EnclosedLemma DEF EmitAndLeave, Leave
  <2>8. Current \subseteq T /\ Pending(Top) \subseteq T /\ G \subseteq T \union Held
    BY <1>4, <2>3, <2>4
  <2>. QED
    BY <1>1, <1>2, <2>2, <2>7, <2>8, LeaveEnclosed
<1>11. CASE IfExpr_abandon
  <2>1. SUFFICES ASSUME freed' = {}
                 PROVE  BranchesEnclosed'
    BY DEF BranchesEnclosed
  <2>2. cir' = cir /\ frames' = Front(frames) /\ status' = "gen" /\ Top.at \in {"cond", "else"}
    BY <1>11 DEF IfExpr_abandon, Leave, Steady, Jumping, At
  <2>3. Top.at # "else"
    BY <1>11, <2>1 DEF IfExpr_abandon
  <2>4. Pending(Top) = {}
    BY <1>2, <2>2, <2>3 DEF Pending
  <2>. QED
    BY <1>1, <1>2, <2>2, <2>4, LeaveQuiet DEF G
<1>. QED
  BY <1>5, <1>6, <1>7, <1>8, <1>9, <1>10, <1>11

\* What breaks go to when a loop is entered, and when it is left.
LEMMA BreaksSetLemma ==
    ASSUME NEW s, NEW n \in Nat, s \in Seq(1..n)
    PROVE  /\ ToSet(Front(s)) \subseteq ToSet(s)
           /\ \A b \in Nat : ToSet(Append(s, b)) = ToSet(s) \union {b}
<1>1. ToSet(Front(s)) \subseteq ToSet(s)
  <2>1. CASE s = << >>
    <3>1. ToSet(Front(s)) = {}
      <4>1. DOMAIN Front(s) = {}
        BY <2>1 DEF Front
      <4>. QED
        BY <4>1 DEF ToSet
    <3>. QED
      BY <3>1
  <2>2. CASE s # << >>
    <3>. PICK S : S = 1..n
      OBVIOUS
    <3>1. /\ Len(s) \in Nat /\ Len(s) > 0 /\ DOMAIN s = 1..Len(s)
          /\ Front(s) \in Seq(S) /\ Len(Front(s)) = Len(s) - 1
          /\ \A k \in 1..(Len(s) - 1) : Front(s)[k] = s[k]
      BY <2>2, StackLemma
    <3>2. DOMAIN Front(s) = 1..(Len(s) - 1) /\ 1..(Len(s) - 1) \subseteq DOMAIN s
      BY <3>1
    <3>. QED
      BY <3>1, <3>2 DEF ToSet
  <2>. QED
    BY <2>1, <2>2
<1>2. ASSUME NEW b \in Nat
      PROVE  ToSet(Append(s, b)) = ToSet(s) \union {b}
  <2>1. s \in Seq(Nat)
    OBVIOUS
  <2>2. PICK u : u = Append(s, b)
    OBVIOUS
  <2>3. \A x : x \in ToSet(u) <=> x \in ToSet(s) \/ x = b
    BY <2>1, <2>2, AppendLemma
  <2>. QED
    BY <2>2, <2>3
<1>. QED
  BY <1>1, <1>2

\* What an action of a loop finds.
LEMMA LoopFinds ==
    ASSUME Jumping, NEW kinds, NEW point, At(kinds, point), kinds \subseteq {"loop", "while", "for"}
    PROVE  /\ Top.node.kind \in kinds /\ Top.at = point
           /\ Top.node.kind = "while" /\ point \in {"cond", "body", "endScope"} =>
                 Top.head \in Current /\ Top.body \in Current
           /\ Top.node.kind = "while" /\ point \in {"body", "endScope"} => Top.after \in Current
           /\ Top.node.kind = "for" /\ point \in {"cond", "body", "endScope", "step"} =>
                 Top.head \in Current
           /\ Top.node.kind = "loop" /\ point \in {"body", "endScope"} => Top.head \in Current
           /\ Top.node.kind # "for" => Pending(Top) = {}
           /\ Top.node.kind = "for" => Pending(Top) = IF point \in {"body", "endScope", "step"}
                                                      THEN {Top.after} ELSE {}
           /\ breaks \in Seq(1..Len(cir.blk))
<1>1. Ready /\ Top.node.kind \in kinds /\ Top.at = point
  BY ReadyLemma DEF Jumping
<1>2. /\ Top.node.kind = "while" /\ point \in {"cond", "body", "endScope"} =>
            Top.head \in 1..Len(cir.blk) /\ Top.body \in 1..Len(cir.blk)
      /\ Top.node.kind = "for" /\ point \in {"cond", "body", "endScope", "step"} =>
            Top.head \in 1..Len(cir.blk)
      /\ Top.node.kind = "loop" /\ point \in {"body", "endScope"} => Top.head \in 1..Len(cir.blk)
      /\ Top.node.kind = "while" /\ point \in {"body", "endScope"} => Top.after \in 1..Len(cir.blk)
  BY <1>1, HeldLemma DEF Jumping
<1>3. Uses(Top, Current) /\ Len(cir.blk) \in Nat
  BY JumpingLemma
<1>4. Top.node.kind # "for" => Pending(Top) = {}
  BY <1>1 DEF Pending
<1>5. Top.node.kind = "for" => Pending(Top) = IF point \in {"body", "endScope", "step"}
                                              THEN {Top.after} ELSE {}
  BY <1>1 DEF Pending
<1>6. \A b \in 1..Len(cir.blk) : b # 0
  BY <1>3
<1>7. /\ Top.head \in 1..Len(cir.blk) => Top.head \in Current
      /\ Top.body \in 1..Len(cir.blk) => Top.body \in Current
      /\ Top.after \in 1..Len(cir.blk) => Top.after \in Current \union Pending(Top)
  BY <1>3, <1>6 DEF Uses
<1>8. Top.node.kind = "while" => Pending(Top) = {}
  BY <1>4
<1>9. breaks \in Seq(1..Len(cir.blk))
  BY InsideLemma DEF Jumping
<1>. QED
  BY <1>1, <1>2, <1>4, <1>5, <1>7, <1>8, <1>9

\* The block of an infinite loop.
LEMMA LoopEnclosed ==
    ASSUME Jumping, LoopExpr_gen \/ LoopExpr_end \/ LoopExpr_abandon
    PROVE  BranchesEnclosed'
<1>. DEFINE n == Len(cir.blk)
            H == Current \union Held
<1>1. /\ Enclosed(cir, Current, H) /\ ToSet(breaks) \subseteq H /\ Top \in FrameType(n)
      /\ Uses(Top, Current) /\ Pending(Top) \subseteq Held
  BY JumpingLemma
<1>2. breaks' = breaks /\ status' = "gen"
  BY DEF LoopExpr_gen, LoopExpr_end, LoopExpr_abandon, Steady, SameStacks, Jumping
<1>3. CASE LoopExpr_gen
  <2>. DEFINE f == [Top EXCEPT !.at = "body", !.head = n + 1]
              c == NewBlock(cir, "loop_infinite")
              d == AddBasicBlock(c, n + 1)
              T == Current \union {n + 1}
              G == H \union {n + 1}
  <2>1. Top.node.kind = "loop" /\ Pending(Top) = {}
    <3>1. At({"loop"}, "start")
      BY <1>3 DEF LoopExpr_gen
    <3>. QED
      BY <3>1, LoopFinds
  <2>2. LastBlock(c) = n + 1 /\ Enclosed(c, Current, G)
    BY <1>1, EnclosedNewBlock
  <2>3. cir' = SetInsertPoint(CreateGoto(d, n + 1), n + 1) /\ Stay(f)
    BY <1>3, <2>2 DEF LoopExpr_gen
  <2>4. /\ f.node = Top.node /\ f.head = n + 1 /\ f.body = Top.body /\ f.alt = Top.alt
        /\ f.after = Top.after
    BY <1>1 DEF FrameType
  <2>5. /\ n + 1 \in T /\ n + 1 \in G /\ Current \subseteq T /\ Held \subseteq G
        /\ G \subseteq T \union Held /\ H \subseteq G
    OBVIOUS
  <2>. HIDE DEF f, c, n, H, G
  <2>6. Enclosed(d, T, G)
    BY <2>2, <2>5, EnclosedAdd
  <2>7. Pending(f) = {}
    BY <2>1, <2>4 DEF Pending
  <2>8. Uses(f, T)
    BY <1>1, <2>1, <2>4, <2>5 DEF Uses
  <2>. HIDE DEF d, T
  <2>9. Enclosed(CreateGoto(d, n + 1), T, G)
    BY <2>5, <2>6, EnclosedLemma
  <2>10. Enclosed(cir', T, G)
    BY <2>3, <2>5, <2>9, EnclosedLemma
  <2>11. ToSet(breaks') \subseteq G
    BY <1>1, <1>2, <2>5
  <2>. QED
    BY <1>2, <2>1, <2>3, <2>5, <2>7, <2>8, <2>10, <2>11, GoOnEnclosed
<1>4. CASE LoopExpr_end
  <2>1. EmitAndLeave(CreateGoto(cir, Top.head), Instr("ConstNever", "never", << >>))
    BY <1>4 DEF LoopExpr_end
  <2>2. Top.head \in Current /\ Pending(Top) = {}
    <3>1. At({"loop"}, "endScope")
      BY <1>4 DEF LoopExpr_end, CloseScope
    <3>. QED
      BY <3>1, LoopFinds
  <2>3. Enclosed(CreateGoto(cir, Top.head), Current, H)
    BY <1>1, <2>2, EnclosedLemma
  <2>4. Enclosed(cir', Current, H) /\ frames' = Front(frames)
    BY <2>1, <2>3, EnclosedLemma, QuietLemma DEF EmitAndLeave, Leave
  <2>. QED
    BY <1>2, <2>2, <2>4, LeaveQuiet
<1>5. CASE LoopExpr_abandon
  <2>1. cir' = cir /\ frames' = Front(frames)
    BY <1>5 DEF LoopExpr_abandon, Leave
  <2>2. Pending(Top) = {}
    <3>1. At({"loop"}, "body")
      BY <1>5 DEF LoopExpr_abandon
    <3>. QED
      BY <3>1, LoopFinds
  <2>. QED
    BY <1>1, <1>2, <2>1, <2>2, LeaveQuiet
<1>. QED
  BY <1>3, <1>4, <1>5

\* The blocks of a while, added as they are made; a break goes to the last.
LEMMA WhileEnclosed ==
    ASSUME Jumping,
           WhileExpr_gen \/ WhileExpr_body \/ WhileExpr_abandon \/ WhileExpr_end
    PROVE  BranchesEnclosed'
<1>. DEFINE n == Len(cir.blk)
            H == Current \union Held
<1>1. /\ Enclosed(cir, Current, H) /\ ToSet(breaks) \subseteq H /\ Top \in FrameType(n)
      /\ Uses(Top, Current) /\ Pending(Top) \subseteq Held /\ n \in Nat
  BY JumpingLemma
<1>2. status' = "gen"
  BY DEF WhileExpr_gen, WhileExpr_body, WhileExpr_abandon, WhileExpr_end, Steady, Jumping
<1>3. CASE WhileExpr_gen
  <2>. DEFINE c == Added(cir, "while")
              g == CreateGoto(c, n + 1)
              d == SetInsertPoint(g, n + 1)
              e == Added(d, "loop_while")
              k == Len(d.blk)
              f == [Top EXCEPT !.at = "cond", !.head = n + 1, !.body = k + 1]
              T1 == Current \union {n + 1}
              G1 == H \union {n + 1}
              T == T1 \union {k + 1}
              G == G1 \union {k + 1}
  <2>1. Top.node.kind = "while" /\ Pending(Top) = {}
    <3>1. At({"while"}, "start")
      BY <1>3 DEF WhileExpr_gen
    <3>. QED
      BY <3>1, LoopFinds
  <2>2. LastBlock(c) = n + 1 /\ Enclosed(c, T1, G1)
    BY <1>1, EnclosedAdded
  <2>3. /\ cir' = e /\ breaks' = breaks
        /\ Enter([Top EXCEPT !.at = "cond", !.head = n + 1, !.body = LastBlock(e)],
                 Top.node.kids[1])
    BY <1>3, <2>2 DEF WhileExpr_gen, SameStacks
  <2>4. /\ f.node = Top.node /\ f.head = n + 1 /\ f.body = k + 1 /\ f.alt = Top.alt
        /\ f.after = Top.after
    BY <1>1 DEF FrameType
  <2>5. /\ n + 1 \in T1 /\ n + 1 \in G1 /\ n + 1 \in T /\ k + 1 \in T /\ Current \subseteq T
        /\ Held \subseteq G /\ G \subseteq T \union Held /\ H \subseteq G
    OBVIOUS
  <2>6. Enter(f, Top.node.kids[1]) <=>
           Enter([Top EXCEPT !.at = "cond", !.head = n + 1, !.body = k + 1], Top.node.kids[1])
    OBVIOUS
  <2>7. Enclosed(d, T1, G1) => Enclosed(e, T, G) /\ LastBlock(e) = k + 1
    <3>. HIDE DEF d, T1, G1
    <3>. QED
      BY EnclosedAdded
  <2>. HIDE DEF f, c, n, H, e, k, T, G, T1, G1
  <2>8. Enclosed(g, T1, G1)
    BY <2>2, <2>5, EnclosedLemma
  <2>. HIDE DEF g
  <2>9. Enclosed(d, T1, G1)
    BY <2>5, <2>8, EnclosedLemma
  <2>10. Enclosed(cir', T, G) /\ Enter(f, Top.node.kids[1])
    BY <2>3, <2>6, <2>7, <2>9
  <2>11. Pending(f) = {}
    BY <2>1, <2>4 DEF Pending
  <2>12. Uses(f, T)
    BY <1>1, <2>1, <2>4, <2>5 DEF Uses
  <2>13. ToSet(breaks') \subseteq G
    BY <1>1, <2>3, <2>5
  <2>. QED
    BY <1>2, <2>1, <2>5, <2>10, <2>11, <2>12, <2>13, GoOnEnclosed
<1>4. CASE WhileExpr_body
  <2>. DEFINE c == Added(cir, "afterloop_while")
              f == [Top EXCEPT !.at = "body", !.after = n + 1]
              T == Current \union {n + 1}
              G == H \union {n + 1}
  <2>1. /\ Top.node.kind = "while" /\ Pending(Top) = {} /\ Top.body \in Current
        /\ breaks \in Seq(1..n)
    <3>1. At({"while"}, "cond")
      BY <1>4 DEF WhileExpr_body
    <3>. QED
      BY <3>1, LoopFinds
  <2>2. LastBlock(c) = n + 1 /\ Enclosed(c, T, G)
    BY <1>1, EnclosedAdded
  <2>3. /\ cir' = SetInsertPoint(CreateGotoIf(c, ret, Top.body, n + 1), Top.body)
        /\ Enter(f, Top.node.kids[2]) /\ breaks' = Append(breaks, n + 1)
    BY <1>4, <2>2 DEF WhileExpr_body
  <2>4. /\ f.node = Top.node /\ f.head = Top.head /\ f.body = Top.body /\ f.alt = Top.alt
        /\ f.after = n + 1
    BY <1>1 DEF FrameType
  <2>5. /\ n + 1 \in T /\ n + 1 \in G /\ Current \subseteq T /\ Held \subseteq G
        /\ G \subseteq T \union Held /\ H \subseteq G /\ Top.body \in G /\ Top.body \in T
    BY <2>1
  <2>6. ToSet(breaks') \subseteq G
    <3>1. n + 1 \in Nat
      BY <1>1
    <3>2. ToSet(breaks') = ToSet(breaks) \union {n + 1}
      <4>. HIDE DEF n
      <4>. QED
        BY <1>1, <2>1, <2>3, <3>1, BreaksSetLemma
    <3>. QED
      BY <1>1, <2>5, <3>2
  <2>. HIDE DEF f, c, n, H, G
  <2>7. Enclosed(CreateGotoIf(c, ret, Top.body, n + 1), T, G)
    BY <2>2, <2>5, EnclosedLemma
  <2>8. Enclosed(cir', T, G)
    BY <2>3, <2>5, <2>7, EnclosedLemma
  <2>9. Pending(f) = {}
    BY <2>1, <2>4 DEF Pending
  <2>10. Uses(f, T)
    BY <1>1, <2>1, <2>4, <2>5 DEF Uses
  <2>. HIDE DEF T
  <2>. QED
    BY <1>2, <2>1, <2>3, <2>5, <2>6, <2>8, <2>9, <2>10, GoOnEnclosed
<1>5. CASE WhileExpr_abandon
  <2>1. cir' = cir /\ frames' = Front(frames) /\ breaks' = breaks
    BY <1>5 DEF WhileExpr_abandon, Leave, SameStacks
  <2>2. Pending(Top) = {}
    <3>1. At({"while"}, "cond")
      BY <1>5 DEF WhileExpr_abandon
    <3>. QED
      BY <3>1, LoopFinds
  <2>. QED
    BY <1>1, <1>2, <2>1, <2>2, LeaveQuiet
<1>6. CASE WhileExpr_end
  <2>1. /\ EmitAndLeave(SetInsertPoint(CreateGoto(cir, Top.head), Top.after),
                        Instr("ConstNever", "never", << >>))
        /\ breaks' = Front(breaks)
    BY <1>6 DEF WhileExpr_end
  <2>2. Top.head \in Current /\ Top.after \in Current /\ Pending(Top) = {} /\ breaks \in Seq(1..n)
    <3>1. At({"while"}, "endScope")
      BY <1>6 DEF WhileExpr_end, CloseScope
    <3>. QED
      BY <3>1, LoopFinds
  <2>3. ToSet(breaks') \subseteq ToSet(breaks)
    <3>. HIDE DEF n
    <3>. QED
      BY <1>1, <2>1, <2>2, BreaksSetLemma
  <2>4. Enclosed(CreateGoto(cir, Top.head), Current, H)
    BY <1>1, <2>2, EnclosedLemma
  <2>5. Enclosed(SetInsertPoint(CreateGoto(cir, Top.head), Top.after), Current, H)
    BY <2>2, <2>4, EnclosedLemma
  <2>6. Enclosed(cir', Current, H) /\ frames' = Front(frames)
    BY <2>1, <2>5, EnclosedLemma, QuietLemma DEF EmitAndLeave, Leave
  <2>. QED
    BY <1>2, <2>2, <2>3, <2>6, LeaveQuiet
<1>. QED
  BY <1>3, <1>4, <1>5, <1>6

\* The block of the condition of a for.
LEMMA ForCondEnclosed ==
    ASSUME Jumping, ForExpr_cond
    PROVE  BranchesEnclosed'
<1>. DEFINE start == Convert(cir, ret, Top.node.kids[1].ty, "val")
            i == Instr("VarInit", "val", <<start.r>>)
            var == Emit(start.c, i)
            n == Len(var.c.blk)
            c == Added(var.c, "loop_for_cond")
            ref == var.r
            f == [Top EXCEPT !.at = "cond", !.keep = ref, !.head = n + 1]
            g == Top.node.kids[2]
            H == Current \union Held
            T == Current \union {n + 1}
            G == H \union {n + 1}
<1>1. /\ Enclosed(cir, Current, H) /\ ToSet(breaks) \subseteq H /\ Top \in FrameType(Len(cir.blk))
      /\ Uses(Top, Current)
  BY JumpingLemma
<1>2. Top.node.kind = "for" /\ Pending(Top) = {}
  <2>1. At({"for"}, "init")
    BY DEF ForExpr_cond
  <2>. QED
    BY <2>1, LoopFinds
<1>3. status' = "gen" /\ breaks' = breaks
  BY DEF ForExpr_cond, Steady, SameStacks, Jumping
<1>4. Enclosed(start.c, Current, H) /\ ~Branches(i)
  BY <1>1, EnclosedLemma, QuietLemma
<1>5. /\ cir' = SetInsertPoint(CreateGoto(c, LastBlock(c)), LastBlock(c))
      /\ Enter([Top EXCEPT !.at = "cond", !.keep = ref, !.head = LastBlock(c)], g)
  BY DEF ForExpr_cond
<1>6. /\ f.node = Top.node /\ f.at = "cond" /\ f.head = n + 1 /\ f.body = Top.body /\ f.alt = Top.alt
      /\ f.after = Top.after
  BY <1>1 DEF FrameType
<1>7. Enter([Top EXCEPT !.at = "cond", !.keep = ref, !.head = n + 1], g) <=> Enter(f, g)
  OBVIOUS
<1>8. /\ n + 1 \in T /\ n + 1 \in G /\ Current \subseteq T /\ Held \subseteq G /\ H \subseteq G
      /\ G \subseteq T \union Held
  OBVIOUS
<1>. HIDE DEF start, i, g, f, H, ref
<1>9. Enclosed(var.c, Current, H)
  BY <1>4, EnclosedLemma
<1>. HIDE DEF var
<1>10. LastBlock(c) = n + 1 /\ Enclosed(c, T, G)
  BY <1>9, EnclosedAdded
<1>. HIDE DEF c, n, G
<1>11. Enclosed(CreateGoto(c, n + 1), T, G)
  BY <1>8, <1>10, EnclosedLemma
<1>12. Enclosed(cir', T, G) /\ Enter(f, g)
  BY <1>5, <1>7, <1>8, <1>10, <1>11, EnclosedLemma
<1>13. Pending(f) = {}
  BY <1>2, <1>6 DEF Pending
<1>14. Uses(f, T)
  BY <1>1, <1>2, <1>6, <1>8 DEF Uses
<1>15. ToSet(breaks') \subseteq G
  BY <1>1, <1>3, <1>8
<1>. HIDE DEF T
<1>. QED
  BY <1>2, <1>3, <1>8, <1>12, <1>13, <1>14, <1>15, GoOnEnclosed

\* The body of a for: a break goes to a block that the for holds.
LEMMA ForBodyEnclosed ==
    ASSUME Jumping, ForExpr_body
    PROVE  BranchesEnclosed'
<1>. DEFINE n == Len(cir.blk)
            c == Added(cir, "loop_for")
            d == NewBlock(c, "afterloop")
            f == [Top EXCEPT !.at = "body", !.after = n + 2]
            g == Top.node.kids[3]
            H == Current \union Held
            T == Current \union {n + 1}
            G1 == H \union {n + 1}
            G == G1 \union {n + 2}
<1>1. /\ Enclosed(cir, Current, H) /\ ToSet(breaks) \subseteq H /\ Top \in FrameType(n)
      /\ Uses(Top, Current) /\ n \in Nat
  BY JumpingLemma
<1>2. Top.node.kind = "for" /\ Pending(Top) = {} /\ breaks \in Seq(1..n)
  <2>1. At({"for"}, "cond")
    BY DEF ForExpr_body
  <2>. QED
    BY <2>1, LoopFinds
<1>3. status' = "gen"
  BY DEF ForExpr_body, Steady, Jumping
<1>4. LastBlock(c) = n + 1 /\ Enclosed(c, T, G1) /\ Len(c.blk) = n + 1
  BY <1>1, EnclosedAdded
<1>5. /\ cir' = SetInsertPoint(CreateGotoIf(d, ret, n + 1, LastBlock(d)), n + 1)
      /\ Enter([Top EXCEPT !.at = "body", !.after = LastBlock(d)], g)
      /\ breaks' = Append(breaks, LastBlock(d))
  BY <1>4 DEF ForExpr_body
<1>6. /\ f.node = Top.node /\ f.at = "body" /\ f.head = Top.head /\ f.body = Top.body
      /\ f.alt = Top.alt /\ f.after = n + 2
  BY <1>1 DEF FrameType
<1>7. Enter([Top EXCEPT !.at = "body", !.after = n + 2], g) <=> Enter(f, g)
  OBVIOUS
<1>8. /\ n + 1 \in T /\ n + 1 \in G /\ n + 2 \in G /\ Current \subseteq T /\ Held \subseteq G
      /\ H \subseteq G /\ G \subseteq T \union Held \union {n + 2}
  OBVIOUS
<1>9. ToSet(Append(breaks, n + 2)) \subseteq H \union {n + 2}
  <2>1. n + 2 \in Nat
    BY <1>1
  <2>2. ToSet(Append(breaks, n + 2)) = ToSet(breaks) \union {n + 2}
    <3>. HIDE DEF n
    <3>. QED
      BY <1>1, <1>2, <2>1, BreaksSetLemma
  <2>. QED
    BY <1>1, <2>2
<1>10. n + 2 = (n + 1) + 1
  BY <1>1
<1>. HIDE DEF c, f, g, H, G1, T
<1>11. LastBlock(d) = n + 2 /\ Enclosed(d, T, G)
  <2>. HIDE DEF n
  <2>1. PICK m : m = n + 1 /\ m + 1 = n + 2
    BY <1>10
  <2>2. Enclosed(d, T, G1 \union {m + 1}) /\ LastBlock(d) = m + 1
    BY <1>4, <2>1, EnclosedNewBlock
  <2>. QED
    BY <2>1, <2>2
<1>. HIDE DEF d, n, G
<1>12. Enclosed(CreateGotoIf(d, ret, n + 1, n + 2), T, G)
  BY <1>8, <1>11, EnclosedLemma
<1>13. Enclosed(cir', T, G) /\ Enter(f, g)
  BY <1>5, <1>7, <1>8, <1>11, <1>12, EnclosedLemma
<1>14. Pending(f) = {n + 2}
  BY <1>2, <1>6 DEF Pending
<1>15. Uses(f, T)
  BY <1>1, <1>2, <1>6, <1>8, <1>14 DEF Uses
<1>16. ToSet(breaks') \subseteq G
  BY <1>5, <1>8, <1>9, <1>11
<1>. QED
  BY <1>2, <1>3, <1>8, <1>13, <1>14, <1>15, <1>16, GoOnEnclosed

\* The end of a for: the block after the loop is added.
LEMMA ForEndEnclosed ==
    ASSUME Jumping, ForExpr_end
    PROVE  BranchesEnclosed'
<1>. DEFINE H == Current \union Held
            T == Current \union {Top.after}
<1>1. /\ Enclosed(cir, Current, H) /\ ToSet(breaks) \subseteq H /\ Pending(Top) \subseteq H
      /\ Current \subseteq H /\ Held \subseteq H
  BY JumpingLemma
<1>2. Pending(Top) = {Top.after} /\ Top.head \in Current
  <2>1. At({"for"}, "step")
    BY DEF ForExpr_end
  <2>. QED
    BY <2>1, LoopFinds
<1>3. status' = "gen" /\ breaks' = breaks
  BY DEF ForExpr_end, Steady, SameStacks, Jumping
<1>4. Top.after \in H /\ Top.after \in T /\ Current \subseteq T /\ H \subseteq T \union Held
  BY <1>1, <1>2
<1>. HIDE DEF H
<1>5. PICK c : /\ Enclosed(c, Current, H)
               /\ EmitAndLeave(SetInsertPoint(AddBasicBlock(CreateGoto(c, Top.head), Top.after),
                                              Top.after), Instr("ConstVoid", "void", << >>))
  <2>. DEFINE step == Convert(cir, ret, Top.node.kids[4].ty, "val")
              curVar == Emit(step.c, Instr("LoadVar", "val", <<Top.keep>>))
              nextVar == Emit(curVar.c, Instr("Binary", "val", <<curVar.r, step.r>>))
              store == Emit(nextVar.c, Instr("StoreVar", "void", <<Top.keep, nextVar.r>>))
  <2>1. EmitAndLeave(SetInsertPoint(AddBasicBlock(CreateGoto(store.c, Top.head), Top.after),
                                    Top.after), Instr("ConstVoid", "void", << >>))
    BY DEF ForExpr_end
  <2>2. Enclosed(step.c, Current, H)
    BY <1>1, EnclosedLemma
  <2>. HIDE DEF step
  <2>3. Enclosed(curVar.c, Current, H)
    BY <2>2, EnclosedLemma, QuietLemma
  <2>. HIDE DEF curVar
  <2>4. Enclosed(nextVar.c, Current, H)
    BY <2>3, EnclosedLemma, QuietLemma
  <2>. HIDE DEF nextVar
  <2>5. Enclosed(store.c, Current, H)
    BY <2>4, EnclosedLemma, QuietLemma
  <2>. HIDE DEF store
  <2>. QED
    BY <2>1, <2>5
<1>6. Enclosed(CreateGoto(c, Top.head), Current, H)
  BY <1>1, <1>2, <1>5, EnclosedLemma
<1>7. Enclosed(AddBasicBlock(CreateGoto(c, Top.head), Top.after), T, H)
  BY <1>4, <1>6, EnclosedAdd
<1>8. Enclosed(SetInsertPoint(AddBasicBlock(CreateGoto(c, Top.head), Top.after), Top.after), T, H)
  BY <1>4, <1>7, EnclosedLemma
<1>9. Enclosed(cir', T, H) /\ frames' = Front(frames)
  BY <1>5, <1>8, EnclosedLemma, QuietLemma DEF EmitAndLeave, Leave
<1>10. Pending(Top) \subseteq T
  BY <1>2
<1>. HIDE DEF T
<1>. QED
  BY <1>1, <1>3, <1>4, <1>9, <1>10, LeaveEnclosed

\* The rest of a for; an early return from the body or the step frees a block.
LEMMA ForEnclosed ==
    ASSUME Jumping,
           \/ ForExpr_gen \/ ForExpr_cond \/ ForExpr_body \/ ForExpr_step
           \/ ForExpr_end \/ ForExpr_abandon
    PROVE  BranchesEnclosed'
<1>1. CASE ForExpr_cond \/ ForExpr_body \/ ForExpr_end
  BY <1>1, ForCondEnclosed, ForBodyEnclosed, ForEndEnclosed
<1>2. /\ Enclosed(cir, Current, Current \union Held) /\ Top \in FrameType(Len(cir.blk))
      /\ Len(cir.blk) \in Nat
  BY JumpingLemma
<1>3. CASE ForExpr_gen
  <2>. DEFINE f == [Top EXCEPT !.at = "init"]
  <2>1. /\ cir' = cir /\ breaks' = breaks /\ status' = "gen" /\ Enter(f, Top.node.kids[1])
    BY <1>3 DEF ForExpr_gen, SameStacks, Steady, Jumping
  <2>2. Top.node.kind = "for" /\ Pending(Top) = {}
    <3>1. At({"for"}, "start")
      BY <1>3 DEF ForExpr_gen
    <3>. QED
      BY <3>1, LoopFinds
  <2>3. /\ f.node = Top.node /\ f.at = "init" /\ f.head = Top.head /\ f.body = Top.body
        /\ f.alt = Top.alt /\ f.after = Top.after
    BY <1>2 DEF FrameType
  <2>. HIDE DEF f
  <2>4. Pending(f) = {}
    BY <2>2, <2>3 DEF Pending
  <2>. QED
    BY <1>2, <2>1, <2>2, <2>3, <2>4, GoOnQuiet
<1>4. CASE ForExpr_step
  <2>. DEFINE f == [Top EXCEPT !.at = "step"]
  <2>1. /\ cir' = cir /\ breaks' = Front(breaks) /\ status' = "gen" /\ Enter(f, Top.node.kids[4])
    BY <1>4 DEF ForExpr_step, Steady, Jumping
  <2>2. Top.node.kind = "for" /\ Pending(Top) = {Top.after} /\ breaks \in Seq(1..Len(cir.blk))
    <3>1. At({"for"}, "endScope")
      BY <1>4 DEF ForExpr_step, CloseScope
    <3>. QED
      BY <3>1, LoopFinds
  <2>3. /\ f.node = Top.node /\ f.at = "step" /\ f.head = Top.head /\ f.body = Top.body
        /\ f.alt = Top.alt /\ f.after = Top.after
    BY <1>2 DEF FrameType
  <2>. HIDE DEF f
  <2>4. Pending(f) = Pending(Top)
    BY <2>2, <2>3 DEF Pending
  <2>5. ToSet(breaks') \subseteq ToSet(breaks)
    BY <1>2, <2>1, <2>2, BreaksSetLemma
  <2>. QED
    BY <1>2, <2>1, <2>3, <2>4, <2>5, GoOnQuiet
<1>5. CASE ForExpr_abandon
  <2>1. SUFFICES ASSUME freed' = {}
                 PROVE  BranchesEnclosed'
    BY DEF BranchesEnclosed
  <2>2. PICK point \in {"init", "cond", "body", "step"} : At({"for"}, point)
    BY <1>5 DEF ForExpr_abandon
  <2>3. Top.at = point /\ (Pending(Top) = IF point \in {"body", "endScope", "step"} THEN {Top.after} ELSE {})
    BY <2>2, LoopFinds
  <2>4. point \notin {"body", "step"}
    BY <1>5, <2>1, <2>3 DEF ForExpr_abandon
  <2>5. Pending(Top) = {}
    BY <2>2, <2>3, <2>4
  <2>6. cir' = cir /\ frames' = Front(frames) /\ status' = "gen" /\ breaks' = breaks
    BY <1>5 DEF ForExpr_abandon, Leave, Steady, Jumping
  <2>. QED
    BY <1>2, <2>5, <2>6, LeaveQuiet
<1>. QED
  BY <1>1, <1>3, <1>4, <1>5

-----------------------------------------------------------------------------
(* Branches: functions and the file.                                       *)

\* A well formed file is shaped.
LEMMA GoodShaped ==
    ASSUME NEW c, Good(c)
    PROVE  Shaped(c) /\ Len(c.blk) \in Nat /\ DOMAIN c.fun = 1..Len(c.fun) /\ Len(c.fun) \in Nat
<1>. DEFINE m == Len(c.instr)
            n == Len(c.blk)
<1>1. m \in Nat /\ n \in Nat /\ c \in FileCIR(m, n)
  BY DEF Good, WellFormed, FileCIR
<1>2. \A b \in 1..n : "ins" \in DOMAIN c.blk[b] /\ c.blk[b].ins \in Seq(1..m)
  <2>1. ASSUME NEW b \in 1..n
        PROVE  c.blk[b] \in BasicBlock(m, n)
    <3>. DEFINE B == BasicBlock(m, n)
    <3>1. PICK s : s = c.blk
      OBVIOUS
    <3>2. s \in Seq(B) /\ b \in 1..Len(s)
      BY <1>1, <2>1, <3>1 DEF FileCIR
    <3>. HIDE DEF B
    <3>3. s[b] \in B
      BY <3>2
    <3>. QED
      BY <3>1, <3>3 DEF B
  <2>. QED
    BY <2>1 DEF BasicBlock
<1>3. /\ \E S : c.instr \in Seq(S)
      /\ \E S : c.blk \in Seq(S)
      /\ {"instr", "blk", "fun", "cur"} \subseteq DOMAIN c /\ c.fun \in Seq(Seq(1..n))
  BY <1>1 DEF FileCIR
<1>4. DOMAIN c.fun = 1..Len(c.fun) /\ Len(c.fun) \in Nat
  BY <1>3
<1>. QED
  BY <1>1, <1>2, <1>3, <1>4 DEF Shaped

\* Instructions are added from now on to a block of the function.
LEMMA FramedInsertPoint ==
    ASSUME NEW c, NEW T, NEW G, Framed(c, T, G), NEW b \in T
    PROVE  Enclosed(SetInsertPoint(c, b), T, G)
<1>1. PICK d : d = SetInsertPoint(c, b)
  OBVIOUS
<1>2. Shaped(c)
  BY DEF Framed
<1>3. /\ DOMAIN d = DOMAIN c /\ d.instr = c.instr /\ d.blk = c.blk /\ d.fun = c.fun /\ d.cur = b
  BY <1>1, <1>2 DEF SetInsertPoint, Shaped
<1>4. Shaped(d)
  BY <1>2, <1>3 DEF Shaped
<1>5. BlocksOf(d) = BlocksOf(c) /\ \A k : Successors(d, k) = Successors(c, k)
  BY <1>3 DEF BlocksOf, Successors
<1>6. Framed(d, T, G)
  BY <1>3, <1>4, <1>5 DEF Framed, Within, Blank
<1>. QED
  BY <1>1, <1>3, <1>6 DEF Enclosed

\* A new function has no block: the branches of the others stay inside.
LEMMA NewFunctionFramed ==
    ASSUME NEW c, Shaped(c), Blank(c), DOMAIN c.fun = 1..Len(c.fun), Len(c.fun) \in Nat,
           \A F \in DOMAIN c.fun : Within(c, F, ToSet(c.fun[F]))
    PROVE  Framed(AddFunction(c), {}, {}) /\ Len(AddFunction(c).blk) = Len(c.blk)
<1>. DEFINE n == Len(c.blk)
<1>1. PICK d : d = AddFunction(c)
  OBVIOUS
<1>2. PICK m : m = Len(c.fun)
  OBVIOUS
<1>3. /\ {"instr", "blk", "fun", "cur"} \subseteq DOMAIN c /\ c.fun \in Seq(Seq(1..n))
      /\ m \in Nat /\ \A F \in 1..m : Within(c, F, ToSet(c.fun[F]))
  BY <1>2 DEF Shaped
<1>4. /\ DOMAIN d = DOMAIN c /\ d.instr = c.instr /\ d.blk = c.blk
      /\ d.fun = Append(c.fun, << >>)
  BY <1>1, <1>3 DEF AddFunction
<1>5. /\ d.fun \in Seq(Seq(1..n)) /\ Len(d.fun) = m + 1 /\ d.fun[m + 1] = << >> /\ d.fun # << >>
      /\ DOMAIN d.fun = 1..(m + 1) /\ \A F \in 1..m : d.fun[F] = c.fun[F]
  <2>. DEFINE Q == Seq(1..n)
  <2>1. c.fun \in Seq(Q) /\ << >> \in Q
    BY <1>3
  <2>. HIDE DEF Q
  <2>2. /\ d.fun \in Seq(Q) /\ Len(d.fun) = m + 1 /\ d.fun[m + 1] = << >> /\ d.fun # << >>
        /\ DOMAIN d.fun = 1..(m + 1) /\ \A F \in 1..m : d.fun[F] = c.fun[F]
    BY <1>2, <1>4, <2>1
  <2>. QED
    BY <2>2 DEF Q
<1>6. Shaped(d)
  BY <1>3, <1>4, <1>5 DEF Shaped
<1>7. \A b \in BlocksOf(c) : b \in BlocksOf(d)
  <2>1. ASSUME NEW F \in 1..m, NEW b \in ToSet(c.fun[F])
        PROVE  b \in BlocksOf(d)
    <3>1. F \in DOMAIN d.fun /\ d.fun[F] = c.fun[F]
      BY <1>3, <1>5
    <3>. QED
      BY <2>1, <3>1 DEF BlocksOf
  <2>. QED
    BY <1>2, <2>1 DEF BlocksOf
<1>8. Blank(d)
  BY <1>4, <1>7 DEF Blank
<1>9. ToSet(d.fun[Len(d.fun)]) = {}
  BY <1>5 DEF ToSet
<1>10. ASSUME NEW F \in 1..(Len(d.fun) - 1)
       PROVE  Within(d, F, ToSet(d.fun[F]))
  <2>1. F \in 1..m /\ d.fun[F] = c.fun[F]
    BY <1>3, <1>5
  <2>2. Within(c, F, ToSet(c.fun[F])) /\ \A b : Successors(d, b) = Successors(c, b)
    BY <1>3, <1>4, <2>1 DEF Successors
  <2>. QED
    BY <2>1, <2>2 DEF Within
<1>11. Within(d, Len(d.fun), {})
  BY <1>9 DEF Within
<1>. QED
  BY <1>1, <1>4, <1>5, <1>6, <1>8, <1>9, <1>10, <1>11 DEF Framed

\* Between two functions no block is held.
LEMMA BetweenFunctions ==
    ASSUME IInv, BranchesEnclosed, freed = {}, frames = << >>
    PROVE  /\ Shaped(cir) /\ Blank(cir) /\ DOMAIN cir.fun = 1..Len(cir.fun) /\ Len(cir.fun) \in Nat
           /\ Len(cir.blk) \in Nat /\ Good(cir)
           /\ \A F \in DOMAIN cir.fun : Within(cir, F, ToSet(cir.fun[F]))
<1>1. Good(cir)
  BY IInvParts DEF RestOK
<1>2. Blank(cir) /\ BranchesStayInside
  BY DEF BranchesEnclosed
<1>3. \A F \in DOMAIN cir.fun : Within(cir, F, ToSet(cir.fun[F]))
  BY <1>2 DEF BranchesStayInside, Finished, Function, Within
<1>. QED
  BY <1>1, <1>2, <1>3, GoodShaped

\* The entry block of a function.
LEMMA FunctionGenEnclosed ==
    ASSUME IInv, BranchesEnclosed, BreaksMatchLoops, freed = {}, FunctionAST_gen
    PROVE  BranchesEnclosed'
<1>. DEFINE n == Len(cir.blk)
            a == AddFunction(cir)
            c == Added(a, "entry")
            f == [Activation(prog[fn'].node, breaks, Len(scopes)) EXCEPT !.at = "args"]
<1>1. /\ cir' = SetInsertPoint(c, LastBlock(c)) /\ frames' = <<f>> /\ status = "gen"
      /\ status' = "gen" /\ frames = << >> /\ breaks' = breaks
  BY DEF FunctionAST_gen
<1>2. breaks = << >>
  BY <1>1 DEF BreaksMatchLoops
<1>3. Framed(a, {}, {}) /\ Len(a.blk) = n
  BY <1>1, BetweenFunctions, NewFunctionFramed
<1>4. f.at = "args" /\ f.head = 0 /\ f.body = 0 /\ f.alt = 0 /\ f.after = 0
  BY DEF Activation
<1>. HIDE DEF a, f, n
<1>5. PICK T : T = {n + 1}
  OBVIOUS
<1>6. Framed(c, T, T) /\ LastBlock(c) = n + 1
  <2>1. /\ Framed(c, {} \union {n + 1}, {} \union {n + 1}) /\ LastBlock(c) = n + 1
    BY <1>3, FramedAdded
  <2>2. {} \union {n + 1} = T
    BY <1>5
  <2>. QED
    BY <2>1, <2>2
<1>. HIDE DEF c
<1>7. Enclosed(cir', T, T)
  BY <1>1, <1>5, <1>6, FramedInsertPoint
<1>8. Current' = T
  BY <1>7 DEF Current, Function, Enclosed, Framed
<1>9. DOMAIN frames' = {1} /\ frames'[1] = f
  BY <1>1
<1>10. Pending(f) = {} /\ Uses(f, T)
  BY <1>4 DEF Pending, Uses
<1>11. Held' = {}
  BY <1>9, <1>10 DEF Held
<1>12. ToSet(breaks') = {}
  BY <1>1, <1>2 DEF ToSet
<1>13. T \union {} = T
  OBVIOUS
<1>. QED
  BY <1>1, <1>7, <1>8, <1>9, <1>10, <1>11, <1>12, <1>13 DEF BranchesEnclosed

\* The rest of a function.
LEMMA FunctionEnclosed ==
    ASSUME Jumping, FunctionAST_arg \/ FunctionAST_body \/ FunctionAST_end
    PROVE  BranchesEnclosed'
<1>. DEFINE H == Current \union Held
<1>1. /\ Enclosed(cir, Current, H) /\ Top \in FrameType(Len(cir.blk))
  BY JumpingLemma
<1>2. Top.node.kind = "function" /\ status' = "gen" /\ breaks' = breaks
  BY DEF FunctionAST_arg, FunctionAST_body, FunctionAST_end, CloseScope, At, Steady, SameStacks, Jumping
<1>3. Pending(Top) = {}
  BY <1>2 DEF Pending
<1>. HIDE DEF H
<1>4. CASE FunctionAST_arg
  <2>. DEFINE f == [Top EXCEPT !.i = @ + 1]
  <2>1. cir' = Emit(cir, Instr("InitArg", "ptr", << >>)).c /\ Stay(f)
    BY <1>4 DEF FunctionAST_arg
  <2>2. /\ f.node = Top.node /\ f.head = Top.head /\ f.body = Top.body /\ f.alt = Top.alt
        /\ f.after = Top.after
    BY <1>1 DEF FrameType
  <2>. HIDE DEF f
  <2>3. Pending(f) = {}
    BY <1>2, <2>2 DEF Pending
  <2>4. Enclosed(cir', Current, H)
    BY <1>1, <2>1, EnclosedLemma, QuietLemma
  <2>. QED
    BY <1>2, <1>3, <2>1, <2>2, <2>3, <2>4, GoOnQuiet DEF H
<1>5. CASE FunctionAST_body
  <2>. DEFINE f == [Top EXCEPT !.at = "body", !.i = 0]
  <2>1. cir' = cir /\ Stay(f)
    BY <1>5 DEF FunctionAST_body
  <2>2. /\ f.node = Top.node /\ f.head = Top.head /\ f.body = Top.body /\ f.alt = Top.alt
        /\ f.after = Top.after
    BY <1>1 DEF FrameType
  <2>. HIDE DEF f
  <2>3. Pending(f) = {}
    BY <1>2, <2>2 DEF Pending
  <2>. QED
    BY <1>1, <1>2, <1>3, <2>1, <2>2, <2>3, GoOnQuiet DEF H
<1>6. CASE FunctionAST_end
  <2>. DEFINE e == Returned
              i == Instr("Cast", Top.node.ty, <<e.r>>)
  <2>1. cir' = Epilogue(e) /\ frames' = Front(frames)
    BY <1>6 DEF FunctionAST_end
  <2>2. Enclosed(e.c, Current, H)
    <3>1. \/ e.c = cir
          \/ \E op, ty, uses : op \notin {"Goto", "GotoIf"} /\ e.c = Emit(cir, Instr(op, ty, uses)).c
      BY DEF Returned
    <3>. QED
      BY <1>1, <3>1, EnclosedLemma, QuietLemma
  <2>3. ~Branches(i)
    BY QuietLemma
  <2>4. PICK v : v = IF TypeAt(e.c, e.r) = Top.node.ty THEN e ELSE Emit(e.c, i)
    OBVIOUS
  <2>. HIDE DEF e, i
  <2>5. Enclosed(v.c, Current, H)
    BY <2>2, <2>3, <2>4, EnclosedLemma
  <2>6. cir' \in {AddInstruction(e.c, Instr("ConstNever", "never", << >>)), e.c,
                  AddInstruction(v.c, Instr("Return", "never", <<v.r>>))}
    BY <2>1, <2>4 DEF Epilogue, i
  <2>7. Enclosed(cir', Current, H)
    BY <2>2, <2>5, <2>6, EnclosedLemma, QuietLemma
  <2>. QED
    BY <1>2, <1>3, <2>1, <2>7, LeaveQuiet DEF H
<1>. QED
  BY <1>4, <1>5, <1>6

\* What follows the generation adds no branch.
LEMMA FileEnclosed ==
    ASSUME IInv, BranchesEnclosed, freed = {},
           FunctionAST_noValue \/ FileAST_generated \/ fixFileCIR \/ checkFileCIR
    PROVE  BranchesEnclosed'
<1>1. CASE FunctionAST_noValue
  BY <1>1, SameEnclosed DEF FunctionAST_noValue
<1>2. CASE FileAST_generated
  BY <1>2, SameEnclosed DEF FileAST_generated
<1>3. CASE checkFileCIR
  <2>1. frames = << >>
    BY <1>3 DEF checkFileCIR, BranchesEnclosed
  <2>. QED
    BY <1>3, <2>1, SameEnclosed DEF checkFileCIR
<1>4. CASE fixFileCIR
  <2>1. frames = << >> /\ frames' = << >> /\ cir' = FixFile(cir)
    BY <1>4 DEF fixFileCIR, BranchesEnclosed
  <2>2. /\ Shaped(cir) /\ Blank(cir) /\ Good(cir) /\ Len(cir.blk) \in Nat
        /\ DOMAIN cir.fun = 1..Len(cir.fun)
        /\ \A F \in DOMAIN cir.fun : Within(cir, F, ToSet(cir.fun[F]))
    BY <2>1, BetweenFunctions
  <2>3. /\ {"instr", "blk", "fun", "cur"} \subseteq DOMAIN cir
        /\ DOMAIN cir.blk = 1..Len(cir.blk)
        /\ \A b \in 1..Len(cir.blk) : /\ "ins" \in DOMAIN cir.blk[b]
                                      /\ cir.blk[b].ins \in Seq(1..Len(cir.instr))
    BY <2>2 DEF Shaped
  <2>4. cir'.fun = cir.fun /\ cir'.instr = cir.instr /\ Len(cir'.blk) = Len(cir.blk)
    <3>1. Len(cir'.blk) = Len(cir.blk)
      BY <2>1, <2>2, FixFileLemma
    <3>. QED
      BY <2>1, <2>3, <3>1 DEF FixFile
  <2>5. BlocksOf(cir') = BlocksOf(cir)
    BY <2>4 DEF BlocksOf
  <2>6. ASSUME NEW b \in 1..Len(cir.blk)
        PROVE  /\ b \notin BlocksOf(cir) => cir'.blk[b].ins = cir.blk[b].ins
               /\ Successors(cir', b) \subseteq Successors(cir, b)
    <3>1. cir'.blk[b] = IF b \in BlocksOf(cir) THEN [cir.blk[b] EXCEPT !.ins = UpToNever(cir, @)]
                        ELSE cir.blk[b]
      BY <2>1, <2>3 DEF FixFile
    <3>2. ToSet(UpToNever(cir, cir.blk[b].ins)) \subseteq ToSet(cir.blk[b].ins)
      <4>1. Len(cir.instr) \in Nat
        BY <2>2 DEF Good, WellFormed, FileCIR
      <4>. QED
        BY <2>3, <4>1, UpToNeverLemma
    <3>3. b \in BlocksOf(cir) => cir'.blk[b].ins = UpToNever(cir, cir.blk[b].ins)
      BY <2>3, <3>1
    <3>4. ToSet(cir'.blk[b].ins) \subseteq ToSet(cir.blk[b].ins)
      BY <3>1, <3>2, <3>3
    <3>. QED
      BY <2>4, <3>1, <3>4 DEF Successors
  <2>7. Blank(cir')
    BY <2>2, <2>4, <2>5, <2>6 DEF Blank
  <2>8. BranchesStayInside'
    <3>1. ASSUME NEW F \in DOMAIN cir.fun, NEW b \in ToSet(cir.fun[F])
          PROVE  Successors(cir', b) \subseteq ToSet(cir.fun[F])
      <4>1. b \in 1..Len(cir.blk)
        <5>1. cir.fun \in Seq(Seq(1..Len(cir.blk)))
          BY <2>2 DEF Shaped
        <5>2. cir.fun[F] \in Seq(1..Len(cir.blk))
          BY <5>1
        <5>. QED
          BY <3>1, <5>2 DEF ToSet
      <4>. QED
        BY <2>2, <2>6, <3>1, <4>1 DEF Within
    <3>. QED
      BY <2>4, <3>1 DEF BranchesStayInside, Function
  <2>. QED
    BY <2>1, <2>7, <2>8 DEF BranchesEnclosed
<1>. QED
  BY <1>1, <1>2, <1>3, <1>4

\* Whatever the file, as long as no early return has destroyed a block, every
\* branch of a finished function goes to one of its own blocks: to none that
\* was never added, and to none of another function (create_goto,
\* create_goto_if and blocksForBreak).
THEOREM BranchesAlwaysStayInside == Spec => [](freed = {} => BranchesStayInside)
<1>1. Init => BranchesEnclosed
  <2>1. ASSUME Init
        PROVE  BranchesEnclosed
    <3>1. /\ frames = << >> /\ status = "gen" /\ cir.blk = << >> /\ cir.fun = << >>
      BY <2>1 DEF Init, EmptyFile
    <3>2. Blank(cir) /\ BranchesStayInside
      BY <3>1 DEF Blank, BranchesStayInside
    <3>. QED
      BY <3>1, <3>2 DEF BranchesEnclosed
  <2>. QED
    BY <2>1
<1>2. IInv /\ BreaksMatchLoops /\ BranchesEnclosed /\ [Next]_vars => BranchesEnclosed'
  <2>1. SUFFICES ASSUME IInv, BreaksMatchLoops, BranchesEnclosed, [Next]_vars, freed' = {}
                 PROVE  BranchesEnclosed'
    BY DEF BranchesEnclosed
  <2>2. CASE UNCHANGED vars
    <3>1. UNCHANGED <<cir, frames, breaks, freed>> /\ status' = status
      BY <2>2 DEF vars
    <3>2. Current' = Current /\ Held' = Held /\ (BranchesStayInside => BranchesStayInside')
      BY <3>1 DEF Current, Held, Function, BranchesStayInside, Finished
    <3>. QED
      BY <2>1, <3>1, <3>2 DEF BranchesEnclosed
  <2>3. CASE Simple \/ Memory \/ Control
    <3>1. freed \subseteq freed' /\ status = "gen" /\ frames # << >>
      BY <2>3, FreedGrows
    <3>2. Jumping
      BY <2>1, <3>1 DEF Jumping
    <3>. QED
      BY <2>3, <3>2, SimpleEnclosed, LabelEnclosed, MemoryEnclosed, ScopeEnclosed, IfEnclosed,
         LoopEnclosed, WhileEnclosed, ForEnclosed DEF Control
  <2>4. CASE File
    <3>1. freed = {}
      BY <2>1, <2>4 DEF File, FunctionAST_gen, FunctionAST_arg, FunctionAST_body, FunctionAST_end,
         FunctionAST_noValue, FileAST_generated, fixFileCIR, checkFileCIR, SameStacks
    <3>2. FunctionAST_arg \/ FunctionAST_body \/ FunctionAST_end => Jumping
      BY <2>1, <3>1 DEF FunctionAST_arg, FunctionAST_body, FunctionAST_end, CloseScope, At, Jumping
    <3>. QED
      BY <2>1, <2>4, <3>1, <3>2, FunctionGenEnclosed, FunctionEnclosed, FileEnclosed DEF File
  <2>. QED
    BY <2>1, <2>2, <2>3, <2>4 DEF Next, Done
<1>3. BranchesEnclosed => (freed = {} => BranchesStayInside)
  <2>1. ASSUME BranchesEnclosed, freed = {}, frames # << >>
        PROVE  BranchesStayInside
    <3>1. Framed(cir, Current, Current \union Held)
      BY <2>1 DEF BranchesEnclosed, Enclosed
    <3>2. ASSUME NEW F \in DOMAIN cir.fun, Finished(F)
          PROVE  Within(cir, F, ToSet(cir.fun[F]))
      <4>1. F \in 1..(Len(cir.fun) - 1)
        BY <2>1, <3>1, <3>2, FramedShape DEF Finished
      <4>. QED
        BY <3>1, <4>1 DEF Framed
    <3>. QED
      BY <3>2 DEF BranchesStayInside, Within, Function
  <2>. QED
    BY <2>1 DEF BranchesEnclosed
<1>. QED
  BY <1>1, <1>2, <1>3, Invariance, BreaksAlwaysMatchLoops, PTL DEF Spec
=============================================================================
