------------------------- MODULE LLVMBackend_proofs -------------------------
(***************************************************************************)
(* Proofs about the LLVM backend.  For every file: the variables of a      *)
(* function are allocated once, in its entry block and before anything     *)
(* that uses them, and every operand was made before the instruction that  *)
(* takes it.  Both are proved of each operation on an LLVM function, and   *)
(* then of the steps of the backend.                                       *)
(*                                                                         *)
(* For every file whose instructions the backend translates as promised:   *)
(* the code that codegenFile generates is, instruction by instruction, the *)
(* translation that module Lowering promises.  The invariant says of the   *)
(* function that is generated that the values on functionValues mean what  *)
(* the instructions at their positions mean, that the allocas are found by *)
(* the names of the source and no other, and how many instructions have    *)
(* been translated.  A step is then followed in three moves: what its code *)
(* is decoded to, what that does to the tables, and what step of the       *)
(* promise it is, if any.                                                  *)
(***************************************************************************)
EXTENDS LLVMBackendProperties, Sequences_proofs

IsSeq(s) == \E S : s \in Seq(S)

\* v is an instruction among the first m of the function, or none at all.
IsValue(v, m) == v.k = "inst" => v.p \in 1..m

\* A function of nb blocks.
GoodFunction(f, nb) ==
    /\ IsSeq(f.made)
    /\ nb \in Nat \ {0}
    /\ f.blocks \in [1..nb -> Seq(1..Len(f.made))]
    /\ MadeBefore(f)
    /\ Dominated(f)

-----------------------------------------------------------------------------
(* Sequences and values.                                                   *)

\* What Append does to a sequence of anything.
LEMMA AppendLemma ==
    ASSUME NEW s, IsSeq(s), NEW e
    PROVE  /\ IsSeq(Append(s, e))
           /\ Len(s) \in Nat /\ DOMAIN s = 1..Len(s)
           /\ Len(Append(s, e)) = Len(s) + 1
           /\ DOMAIN Append(s, e) = 1..(Len(s) + 1)
           /\ \A k \in 1..Len(s) : Append(s, e)[k] = s[k]
           /\ Append(s, e)[Len(s) + 1] = e
<1>1. PICK S : s \in Seq(S)
  BY DEF IsSeq
<1>2. s \in Seq(S \union {e})
  BY <1>1
<1>3. Append(s, e) \in Seq(S \union {e})
  BY <1>2
<1>. QED
  BY <1>2, <1>3 DEF IsSeq

\* A value stays one when the function grows.
LEMMA IsValueGrows ==
    ASSUME NEW v, NEW m \in Nat, NEW p \in Nat, m <= p, IsValue(v, m)
    PROVE  IsValue(v, p)
BY DEF IsValue

-----------------------------------------------------------------------------
(* Operations on functions.                                                *)

\* An instruction at the end of a block keeps a function good.
LEMMA CreateLemma ==
    ASSUME NEW f, NEW nb, GoodFunction(f, nb), NEW b \in 1..nb,
           NEW li, li.op # "alloca", \A v \in ToSet(li.args) : IsValue(v, Len(f.made))
    PROVE  LET g == Create(f, b, li)
           IN  /\ GoodFunction(g, nb)
               /\ Len(f.made) \in Nat /\ Len(g.made) = Len(f.made) + 1
               /\ IsValue(Made(g), Len(g.made))
<1>. DEFINE m == Len(f.made)
            g == Create(f, b, li)
<1>1. /\ IsSeq(g.made) /\ m \in Nat /\ DOMAIN f.made = 1..m
      /\ Len(g.made) = m + 1 /\ DOMAIN g.made = 1..(m + 1)
      /\ \A k \in 1..m : g.made[k] = f.made[k]
      /\ g.made[m + 1] = li
  BY AppendLemma DEF GoodFunction, Create
<1>2. /\ nb \in Nat \ {0} /\ f.blocks \in [1..nb -> Seq(1..m)] /\ 1 \in 1..nb
      /\ g.blocks = [f.blocks EXCEPT ![b] = Append(@, m + 1)]
  BY DEF GoodFunction, Create
<1>3. g.blocks \in [1..nb -> Seq(1..(m + 1))]
  <2>1. Seq(1..m) \subseteq Seq(1..(m + 1))
    BY <1>1
  <2>2. Append(f.blocks[b], m + 1) \in Seq(1..(m + 1))
    BY <1>1, <1>2, <2>1
  <2>. QED
    BY <1>2, <2>1, <2>2
<1>4. MadeBefore(g)
  <2>1. SUFFICES ASSUME NEW id \in 1..(m + 1), NEW v \in ToSet(g.made[id].args), v.k = "inst"
                 PROVE  v.p \in 1..(id - 1)
    BY <1>1 DEF MadeBefore
  <2>2. CASE id \in 1..m
    BY <1>1, <2>1, <2>2 DEF GoodFunction, MadeBefore
  <2>3. CASE id = m + 1
    BY <1>1, <2>1, <2>3 DEF IsValue
  <2>. QED
    BY <1>1, <2>2, <2>3
<1>5. Dominated(g)
  <2>1. SUFFICES ASSUME NEW id \in 1..(m + 1), g.made[id].op = "alloca"
                 PROVE  \E k \in DOMAIN g.blocks[1] :
                            /\ g.blocks[1][k] = id
                            /\ \A j \in 1..(k - 1) :
                                  Value("inst", "", id) \notin ToSet(g.made[g.blocks[1][j]].args)
    BY <1>1 DEF Dominated
  <2>2. id \in 1..m /\ f.made[id].op = "alloca"
    BY <1>1, <2>1
  <2>3. PICK k \in DOMAIN f.blocks[1] :
            /\ f.blocks[1][k] = id
            /\ \A j \in 1..(k - 1) : Value("inst", "", id) \notin ToSet(f.made[f.blocks[1][j]].args)
    BY <1>1, <2>2 DEF GoodFunction, Dominated
  <2>4. f.blocks[1] \in Seq(1..m) /\ Len(f.blocks[1]) \in Nat /\ k \in 1..Len(f.blocks[1])
    <3>1. f.blocks[1] \in Seq(1..m)
      BY <1>2
    <3>2. DOMAIN f.blocks[1] = 1..Len(f.blocks[1]) /\ Len(f.blocks[1]) \in Nat
      BY <3>1
    <3>. QED
      BY <2>3, <3>1, <3>2
  <2>5. /\ k \in DOMAIN g.blocks[1]
        /\ \A j \in 1..k : g.blocks[1][j] = f.blocks[1][j]
    <3>1. CASE b = 1
      <4>1. g.blocks[1] = Append(f.blocks[1], m + 1)
        BY <1>2, <3>1
      <4>2. IsSeq(f.blocks[1])
        BY <2>4 DEF IsSeq
      <4>3. /\ DOMAIN g.blocks[1] = 1..(Len(f.blocks[1]) + 1)
            /\ \A j \in 1..Len(f.blocks[1]) : g.blocks[1][j] = f.blocks[1][j]
        BY <4>1, <4>2, AppendLemma
      <4>4. k \in 1..(Len(f.blocks[1]) + 1) /\ \A j \in 1..k : j \in 1..Len(f.blocks[1])
        BY <2>4
      <4>. QED
        BY <4>3, <4>4
    <3>2. CASE b # 1
      BY <1>2, <2>4, <3>2
    <3>. QED
      BY <3>1, <3>2
  <2>6. \A j \in 1..(k - 1) : f.blocks[1][j] \in 1..m /\ g.made[g.blocks[1][j]] = f.made[f.blocks[1][j]]
    <3>1. SUFFICES ASSUME NEW j \in 1..(k - 1)
                   PROVE  f.blocks[1][j] \in 1..m /\ g.made[g.blocks[1][j]] = f.made[f.blocks[1][j]]
      OBVIOUS
    <3>2. j \in 1..Len(f.blocks[1]) /\ j \in 1..k
      BY <2>4
    <3>3. f.blocks[1][j] \in 1..m
      BY <2>4, <3>2, ElementOfSeq
    <3>. QED
      BY <1>1, <2>5, <3>2, <3>3
  <2>7. \A j \in 1..(k - 1) : Value("inst", "", id) \notin ToSet(g.made[g.blocks[1][j]].args)
    BY <2>3, <2>6
  <2>8. g.blocks[1][k] = id
    <3>1. k \in 1..k
      BY <2>4
    <3>2. g.blocks[1][k] = f.blocks[1][k]
      BY <2>5, <3>1
    <3>. QED
      BY <2>3, <3>2
  <2>. QED
    BY <2>5, <2>7, <2>8, Zenon
<1>6. IsValue(Made(g), Len(g.made))
  BY <1>1 DEF IsValue, Made, Value
<1>. QED
  BY <1>1, <1>2, <1>3, <1>4, <1>5, <1>6 DEF GoodFunction

\* An alloca goes in front of the entry block, whatever block is generated.
LEMMA AllocaLemma ==
    ASSUME NEW f, NEW nb, GoodFunction(f, nb), NEW x, NEW at
    PROVE  LET g == CreateEntryBlockAlloca(f, x, at)
           IN  /\ GoodFunction(g, nb)
               /\ Len(f.made) \in Nat /\ Len(g.made) = Len(f.made) + 1
               /\ IsValue(Made(g), Len(g.made))
<1>. DEFINE m == Len(f.made)
            g == CreateEntryBlockAlloca(f, x, at)
            li == LI("alloca", x, << >>, << >>, at)
            before == f.blocks[1]
            entry == g.blocks[1]
<1>1. /\ IsSeq(g.made) /\ m \in Nat /\ DOMAIN f.made = 1..m
      /\ Len(g.made) = m + 1 /\ DOMAIN g.made = 1..(m + 1)
      /\ \A k \in 1..m : g.made[k] = f.made[k]
      /\ g.made[m + 1] = li
  BY AppendLemma DEF GoodFunction, CreateEntryBlockAlloca
<1>2. /\ nb \in Nat \ {0} /\ f.blocks \in [1..nb -> Seq(1..m)] /\ 1 \in 1..nb
      /\ g.blocks = [f.blocks EXCEPT ![1] = <<m + 1>> \o @]
  BY DEF GoodFunction, CreateEntryBlockAlloca
<1>3. before \in Seq(1..m)
  BY <1>2
<1>4. ToSet(li.args) = {}
  BY DEF LI, ToSet
<1>5. /\ entry = <<m + 1>> \o before
      /\ entry \in Seq(1..(m + 1))
      /\ Len(before) \in Nat /\ DOMAIN before = 1..Len(before)
      /\ DOMAIN entry = 1..(Len(before) + 1)
      /\ entry[1] = m + 1
      /\ \A k \in 1..Len(before) : entry[k + 1] = before[k]
  <2>1. before \in Seq(1..(m + 1)) /\ <<m + 1>> \in Seq(1..(m + 1))
    BY <1>1, <1>3
  <2>2. entry = <<m + 1>> \o before
    BY <1>2
  <2>. QED
    BY <2>1, <2>2
<1>6. g.blocks \in [1..nb -> Seq(1..(m + 1))]
  <2>1. Seq(1..m) \subseteq Seq(1..(m + 1))
    BY <1>1
  <2>. QED
    BY <1>2, <1>5, <2>1
<1>7. MadeBefore(g)
  <2>1. SUFFICES ASSUME NEW id \in 1..(m + 1), NEW v \in ToSet(g.made[id].args), v.k = "inst"
                 PROVE  v.p \in 1..(id - 1)
    BY <1>1 DEF MadeBefore
  <2>2. id \in 1..m
    BY <1>1, <1>4, <2>1
  <2>. QED
    BY <1>1, <2>1, <2>2 DEF GoodFunction, MadeBefore
<1>8. Dominated(g)
  <2>1. SUFFICES ASSUME NEW id \in 1..(m + 1), g.made[id].op = "alloca"
                 PROVE  \E k \in DOMAIN entry :
                            /\ entry[k] = id
                            /\ \A j \in 1..(k - 1) :
                                  Value("inst", "", id) \notin ToSet(g.made[entry[j]].args)
    BY <1>1 DEF Dominated
  <2>2. CASE id = m + 1
    <3>1. 1 \in DOMAIN entry /\ entry[1] = id /\ 1..(1 - 1) = {}
      BY <1>5, <2>2
    <3>. QED
      BY <3>1, Zenon
  <2>3. CASE id \in 1..m
    <3>1. PICK k \in DOMAIN before :
              /\ before[k] = id
              /\ \A j \in 1..(k - 1) : Value("inst", "", id) \notin ToSet(f.made[before[j]].args)
      BY <1>1, <2>1, <2>3 DEF GoodFunction, Dominated
    <3>2. k \in 1..Len(before) /\ k \in Nat /\ k + 1 \in DOMAIN entry /\ entry[k + 1] = id
      <4>1. Len(before) \in Nat /\ k \in 1..Len(before)
        BY <1>5, <3>1
      <4>2. k \in Nat /\ k + 1 \in 1..(Len(before) + 1)
        BY <4>1
      <4>3. entry[k + 1] = before[k]
        BY <1>5, <4>1
      <4>. QED
        BY <1>5, <3>1, <4>1, <4>2, <4>3
    <3>3. ASSUME NEW j \in 1..((k + 1) - 1)
          PROVE  Value("inst", "", id) \notin ToSet(g.made[entry[j]].args)
      <4>1. CASE j = 1
        BY <1>1, <1>4, <1>5, <4>1
      <4>2. CASE j # 1
        <5>. Len(before) \in Nat
          BY <1>5
        <5>1. j - 1 \in 1..(k - 1) /\ j - 1 \in 1..Len(before) /\ (j - 1) + 1 = j
          BY <3>2, <4>2
        <5>2. entry[j] = before[j - 1]
          BY <1>5, <5>1
        <5>3. before[j - 1] \in 1..m
          BY <1>3, <5>1, ElementOfSeq
        <5>. QED
          BY <1>1, <3>1, <5>1, <5>2, <5>3
      <4>. QED
        BY <4>1, <4>2
    <3>. QED
      BY <3>2, <3>3, Zenon
  <2>4. id = m + 1 \/ id \in 1..m
    BY <1>1
  <2>. QED
    BY <2>2, <2>3, <2>4
<1>9. IsValue(Made(g), Len(g.made))
  BY <1>1 DEF IsValue, Made, Value
<1>. QED
  BY <1>1, <1>2, <1>6, <1>7, <1>8, <1>9 DEF GoodFunction

-----------------------------------------------------------------------------
(* Translations of an instruction.                                         *)

AllMade(args, m) == IsSeq(args) /\ \A k \in DOMAIN args : IsValue(args[k], m)
AllocasMade(table, m) == \A e \in table : IsValue(e[2], m)

\* A translation [f, v, allocas] that made more than the first m instructions.
Translated(r, m, nb) ==
    /\ r = [f |-> r.f, v |-> r.v, allocas |-> r.allocas]
    /\ GoodFunction(r.f, nb)
    /\ Len(r.f.made) \in Nat /\ m <= Len(r.f.made)
    /\ IsValue(r.v, Len(r.f.made))
    /\ AllocasMade(r.allocas, Len(r.f.made))

LEMMA AllocasGrow ==
    ASSUME NEW table, NEW m \in Nat, NEW p \in Nat, m <= p, AllocasMade(table, m)
    PROVE  AllocasMade(table, p)
BY IsValueGrows DEF AllocasMade

LEMMA AllMadeGrows ==
    ASSUME NEW args, NEW m \in Nat, NEW p \in Nat, m <= p, AllMade(args, m)
    PROVE  AllMade(args, p)
BY IsValueGrows DEF AllMade

\* The operands of a call, and those of a call whose result goes through memory.
LEMMA SameOperands ==
    ASSUME NEW args, NEW m, AllMade(args, m)
    PROVE  /\ \A w \in ToSet(args) : IsValue(w, m)
           /\ << >> \o args = args
BY DEF AllMade, IsSeq, ToSet

LEMMA OneMore ==
    ASSUME NEW args, NEW m, AllMade(args, m), NEW v, IsValue(v, m)
    PROVE  \A w \in ToSet(<<v>> \o args) : IsValue(w, m)
<1>1. PICK S : args \in Seq(S)
  BY DEF AllMade, IsSeq
<1>2. args \in Seq(S \union {v}) /\ <<v>> \in Seq(S \union {v})
  BY <1>1
<1>3. SUFFICES ASSUME NEW w \in ToSet(<<v>> \o args)
               PROVE  IsValue(w, m)
  OBVIOUS
<1>4. PICK k \in DOMAIN (<<v>> \o args) : w = (<<v>> \o args)[k]
  BY DEF ToSet
<1>5. Len(args) \in Nat /\ DOMAIN args = 1..Len(args) /\ k \in 1..(Len(args) + 1)
  BY <1>2, <1>4
<1>6. w = IF k = 1 THEN v ELSE args[k - 1]
  BY <1>2, <1>4, <1>5
<1>. QED
  BY <1>5, <1>6 DEF AllMade

\* One instruction at the end of the block.
LEMMA PlainLemma ==
    ASSUME NEW f, NEW nb, GoodFunction(f, nb), NEW b \in 1..nb, NEW c, NEW op, op # "alloca", NEW x,
           NEW args, \A v \in ToSet(args) : IsValue(v, Len(f.made)),
           AllocasMade(functionVarsAllocas, Len(f.made))
    PROVE  LET r == Plain(f, b, c, op, x, args)
           IN  /\ Translated(r, Len(f.made), nb)
               /\ r.v = Made(r.f)
               /\ Len(r.f.made) = Len(f.made) + 1
<1>. DEFINE li == LI(op, x, args, [k \in DOMAIN c.bbs |-> get_function_BB(c.bbs[k])], Len(functionValues))
            g == Create(f, b, li)
<1>1. li.op # "alloca" /\ \A v \in ToSet(li.args) : IsValue(v, Len(f.made))
  BY DEF LI
<1>2. /\ GoodFunction(g, nb) /\ Len(f.made) \in Nat /\ Len(g.made) = Len(f.made) + 1
      /\ IsValue(Made(g), Len(g.made))
  BY <1>1, CreateLemma
<1>3. Plain(f, b, c, op, x, args) = [f |-> g, v |-> Made(g), allocas |-> functionVarsAllocas]
  BY DEF Plain
<1>4. AllocasMade(functionVarsAllocas, Len(g.made))
  BY <1>2, AllocasGrow
<1>. QED
  BY <1>2, <1>3, <1>4 DEF Translated

\* A value without code.
LEMMA NoCodeLemma ==
    ASSUME NEW f, NEW nb, GoodFunction(f, nb), NEW v, IsValue(v, Len(f.made)),
           AllocasMade(functionVarsAllocas, Len(f.made))
    PROVE  Translated(NoCode(f, v), Len(f.made), nb)
BY AppendLemma DEF NoCode, Translated, GoodFunction

LEMMA PushingLemma ==
    ASSUME NEW r, NEW m, NEW nb, Translated(r, m, nb), NEW v, v.k # "inst"
    PROVE  Translated(Pushing(r, v), m, nb)
<1>1. Pushing(r, v) = [f |-> r.f, v |-> v, allocas |-> r.allocas]
  BY DEF Pushing, Translated
<1>. QED
  BY <1>1 DEF Translated, IsValue

\* A translation after a translation.
LEMMA TranslatedAfter ==
    ASSUME NEW r, NEW m \in Nat, NEW p \in Nat, m <= p, NEW nb, Translated(r, p, nb)
    PROVE  Translated(r, m, nb)
BY DEF Translated

\* An alloca and what came before it.
LEMMA PlaceLemma ==
    ASSUME NEW f, NEW nb, GoodFunction(f, nb), NEW x, NEW at,
           AllocasMade(functionVarsAllocas, Len(f.made))
    PROVE  LET g == CreateEntryBlockAlloca(f, x, at)
           IN  /\ GoodFunction(g, nb)
               /\ Len(f.made) \in Nat /\ Len(g.made) \in Nat /\ Len(f.made) <= Len(g.made)
               /\ IsValue(Made(g), Len(g.made))
               /\ AllocasMade(functionVarsAllocas, Len(g.made))
<1>. DEFINE g == CreateEntryBlockAlloca(f, x, at)
<1>1. /\ GoodFunction(g, nb)
      /\ Len(f.made) \in Nat /\ Len(g.made) = Len(f.made) + 1
      /\ IsValue(Made(g), Len(g.made))
  BY AllocaLemma
<1>. HIDE DEF g
<1>2. Len(g.made) \in Nat /\ Len(f.made) <= Len(g.made)
  BY <1>1
<1>. QED
  BY <1>1, <1>2, AllocasGrow DEF g

LEMMA CallLemma ==
    ASSUME NEW f, NEW nb, GoodFunction(f, nb), NEW b \in 1..nb, NEW c, NEW args, AllMade(args, Len(f.made)),
           AllocasMade(functionVarsAllocas, Len(f.made))
    PROVE  Translated(CallInstruction(f, b, c, args), Len(f.made), nb)
<1>. DEFINE sret == has_sret(c.ty)
            at == Len(functionValues)
            g == IF sret THEN CreateEntryBlockAlloca(f, "sret", at) ELSE f
            all == (IF sret THEN <<Made(g)>> ELSE << >>) \o args
            called == Plain(g, b, c, "call", c.x, all)
            loaded == IF sret THEN Plain(called.f, b, c, "load", "sret", <<Made(g)>>) ELSE called
            left == Create(loaded.f, b, LI("unreachable", "", << >>, << >>, at))
<1>. HIDE DEF sret
<1>1. /\ GoodFunction(g, nb)
      /\ Len(f.made) \in Nat /\ Len(g.made) \in Nat /\ Len(f.made) <= Len(g.made)
      /\ sret => IsValue(Made(g), Len(g.made))
      /\ AllocasMade(functionVarsAllocas, Len(g.made))
  <2>1. CASE sret
    BY <2>1, PlaceLemma
  <2>2. CASE ~sret
    BY <2>2, AppendLemma DEF GoodFunction
  <2>. QED
    BY <2>1, <2>2
<1>. HIDE DEF g
<1>2. \A v \in ToSet(all) : IsValue(v, Len(g.made))
  <2>1. AllMade(args, Len(g.made))
    BY <1>1, AllMadeGrows
  <2>2. CASE sret
    BY <1>1, <2>1, <2>2, OneMore
  <2>3. CASE ~sret
    BY <2>1, <2>3, SameOperands
  <2>. QED
    BY <2>2, <2>3
<1>. HIDE DEF all
<1>3. Translated(called, Len(g.made), nb) /\ Len(called.f.made) = Len(g.made) + 1
  BY <1>1, <1>2, PlainLemma
<1>. HIDE DEF called
<1>4. Translated(loaded, Len(g.made), nb)
  <2>1. CASE ~sret
    BY <1>3, <2>1
  <2>2. CASE sret
    <3>1. /\ GoodFunction(called.f, nb) /\ Len(called.f.made) \in Nat /\ Len(g.made) <= Len(called.f.made)
      BY <1>1, <1>3 DEF Translated
    <3>2. IsValue(Made(g), Len(called.f.made)) /\ AllocasMade(functionVarsAllocas, Len(called.f.made))
      BY <1>1, <2>2, <3>1, IsValueGrows, AllocasGrow
    <3>3. \A v \in ToSet(<<Made(g)>>) : IsValue(v, Len(called.f.made))
      BY <3>2 DEF ToSet
    <3>4. Translated(loaded, Len(called.f.made), nb)
      BY <2>2, <3>1, <3>2, <3>3, PlainLemma
    <3>. QED
      BY <1>1, <3>1, <3>4, TranslatedAfter
  <2>. QED
    BY <2>1, <2>2
<1>. HIDE DEF loaded
<1>5. Translated(loaded, Len(f.made), nb)
  BY <1>1, <1>4, TranslatedAfter
<1>6. Translated([loaded EXCEPT !.f = left], Len(f.made), nb)
  <2>. DEFINE li == LI("unreachable", "", << >>, << >>, at)
  <2>1. li.op # "alloca" /\ ToSet(li.args) = {}
    BY DEF LI, ToSet
  <2>2. GoodFunction(loaded.f, nb) /\ Len(loaded.f.made) \in Nat
    BY <1>5 DEF Translated
  <2>3. GoodFunction(left, nb) /\ Len(left.made) = Len(loaded.f.made) + 1
    BY <2>1, <2>2, CreateLemma
  <2>. HIDE DEF left
  <2>4. Len(left.made) \in Nat /\ Len(loaded.f.made) <= Len(left.made) /\ Len(f.made) <= Len(left.made)
    BY <1>1, <1>5, <2>2, <2>3 DEF Translated
  <2>5. IsValue(loaded.v, Len(left.made)) /\ AllocasMade(loaded.allocas, Len(left.made))
    BY <1>5, <2>2, <2>4, IsValueGrows, AllocasGrow DEF Translated
  <2>6. [loaded EXCEPT !.f = left] = [f |-> left, v |-> loaded.v, allocas |-> loaded.allocas]
    BY <1>5 DEF Translated
  <2>. QED
    BY <2>3, <2>4, <2>5, <2>6 DEF Translated
<1>7. CallInstruction(f, b, c, args) = IF c.ty # "never" THEN loaded ELSE [loaded EXCEPT !.f = left]
  BY DEF CallInstruction, sret, g, all, called, loaded, left
<1>. QED
  BY <1>5, <1>6, <1>7

\* The entry of a table is a value of it, or null.
LEMMA PutLemma ==
    ASSUME NEW table, NEW m, AllocasMade(table, m), NEW x, NEW v, IsValue(v, m)
    PROVE  AllocasMade(Put(table, x, v), m)
BY DEF AllocasMade, Put

LEMMA GetLemma ==
    ASSUME NEW table, NEW m, AllocasMade(table, m), NEW x
    PROVE  IsValue(Get(table, x), m)
<1>1. CASE Has(table, x)
  <2>1. PICK e \in table : e = CHOOSE d \in table : d[1] = x
    BY <1>1 DEF Has
  <2>. QED
    BY <1>1, <2>1 DEF Get, AllocasMade
<1>2. CASE ~Has(table, x)
  BY <1>2 DEF Get, null, Value, IsValue
<1>. QED
  BY <1>1, <1>2

LEMMA VarInitLemma ==
    ASSUME NEW f, NEW nb, GoodFunction(f, nb), NEW b \in 1..nb, NEW c, NEW args, AllMade(args, Len(f.made)),
           AllocasMade(functionVarsAllocas, Len(f.made))
    PROVE  Translated(VarInit(f, b, c, args), Len(f.made), nb)
<1>. DEFINE g == CreateEntryBlockAlloca(f, c.x, Len(functionValues))
            li == LI("store", "", <<args[1], Made(g)>>, << >>, Len(functionValues))
            h == IF args = << >> THEN g ELSE Create(g, b, li)
<1>1. /\ GoodFunction(g, nb)
      /\ Len(f.made) \in Nat /\ Len(g.made) \in Nat /\ Len(f.made) <= Len(g.made)
      /\ IsValue(Made(g), Len(g.made))
      /\ AllocasMade(functionVarsAllocas, Len(g.made))
  BY PlaceLemma
<1>. HIDE DEF g
<1>2. GoodFunction(h, nb) /\ Len(h.made) \in Nat /\ Len(g.made) <= Len(h.made)
  <2>1. CASE args = << >>
    BY <1>1, <2>1
  <2>2. CASE args # << >>
    <3>1. 1 \in DOMAIN args
      BY <2>2 DEF AllMade, IsSeq
    <3>2. IsValue(args[1], Len(g.made))
      BY <1>1, <3>1, IsValueGrows DEF AllMade
    <3>3. li.op # "alloca" /\ ToSet(li.args) = {args[1], Made(g)}
      BY DEF LI, ToSet
    <3>4. \A v \in ToSet(li.args) : IsValue(v, Len(g.made))
      BY <1>1, <3>2, <3>3
    <3>. HIDE DEF li
    <3>5. GoodFunction(Create(g, b, li), nb) /\ Len(Create(g, b, li).made) = Len(g.made) + 1
      BY <1>1, <3>3, <3>4, CreateLemma
    <3>. QED
      BY <1>1, <2>2, <3>5
  <2>. QED
    BY <2>1, <2>2
<1>. HIDE DEF h
<1>3. IsValue(Made(g), Len(h.made)) /\ AllocasMade(functionVarsAllocas, Len(h.made))
  BY <1>1, <1>2, IsValueGrows, AllocasGrow
<1>4. AllocasMade(Put(functionVarsAllocas, c.x, Made(g)), Len(h.made))
  BY <1>3, PutLemma
<1>5. VarInit(f, b, c, args) = [f |-> h, v |-> Made(g), allocas |-> Put(functionVarsAllocas, c.x, Made(g))]
  BY DEF VarInit, g, h, li
<1>6. Len(f.made) <= Len(h.made)
  BY <1>1, <1>2
<1>. QED
  BY <1>2, <1>3, <1>4, <1>5, <1>6 DEF Translated

\* A conversion makes no alloca.
LEMMA ConversionLemma ==
    ASSUME NEW from, NEW to
    PROVE  ConvertOp(from, to) # "alloca"
<1>1. CASE to = "void"
  BY <1>1 DEF ConvertOp
<1>2. CASE to # "void" /\ (is_just_struct(from) \/ is_just_struct(to))
  BY <1>2 DEF ConvertOp
<1>3. CASE to # "void" /\ ~is_just_struct(from) /\ ~is_just_struct(to)
  BY <1>3 DEF ConvertOp
<1>. QED
  BY <1>1, <1>2, <1>3

LEMMA CastLemma ==
    ASSUME NEW f, NEW nb, GoodFunction(f, nb), NEW b \in 1..nb, NEW c, NEW val, IsValue(val, Len(f.made)),
           AllocasMade(functionVarsAllocas, Len(f.made))
    PROVE  Translated(Cast(f, b, c, val), Len(f.made), nb)
<1>. DEFINE op == ConvertOp(c.from, c.ty)
            whole == Plain(f, b, c, "fptoui", "", <<val>>)
<1>1. op # "alloca"
  BY ConversionLemma
<1>2. ToSet(<<val>>) = {val}
  BY DEF ToSet
<1>3. Translated(Plain(f, b, c, op, "", <<val>>), Len(f.made), nb)
  BY <1>1, <1>2, PlainLemma
<1>4. Translated(Plain(whole.f, b, c, op, "", <<whole.v>>), Len(f.made), nb)
  <2>1. /\ Translated(whole, Len(f.made), nb)
        /\ Len(f.made) \in Nat /\ Len(whole.f.made) \in Nat /\ Len(f.made) <= Len(whole.f.made)
    <3>1. Translated(whole, Len(f.made), nb)
      BY <1>2, PlainLemma
    <3>2. Len(f.made) \in Nat
      BY AppendLemma DEF GoodFunction
    <3>. QED
      BY <3>1, <3>2 DEF Translated
  <2>. HIDE DEF whole
  <2>2. /\ GoodFunction(whole.f, nb)
        /\ AllocasMade(functionVarsAllocas, Len(whole.f.made))
    BY <2>1, AllocasGrow DEF Translated
  <2>3. \A v \in ToSet(<<whole.v>>) : IsValue(v, Len(whole.f.made))
    BY <2>1 DEF Translated, ToSet
  <2>4. Translated(Plain(whole.f, b, c, op, "", <<whole.v>>), Len(whole.f.made), nb)
    BY <1>1, <2>2, <2>3, PlainLemma
  <2>. QED
    BY <2>1, <2>4, TranslatedAfter
<1>5. Translated(NoCode(f, val), Len(f.made), nb) /\ Translated(NoCode(f, null), Len(f.made), nb)
  BY NoCodeLemma DEF null, Value, IsValue
<1>. HIDE DEF op, whole
<1>6. Cast(f, b, c, val) =
        CASE op = "void" -> NoCode(f, null)
          [] op = "none" -> NoCode(f, val)
          [] op = "inttoptr" /\ Decimal(c.from) -> Plain(whole.f, b, c, op, "", <<whole.v>>)
          [] OTHER -> Plain(f, b, c, op, "", <<val>>)
  BY DEF Cast, op, whole
<1>. QED
  BY <1>3, <1>4, <1>5, <1>6

\* What a generation of an instruction starts from: values and variables are of
\* instructions made, global variables of none.
Tables(m) ==
    /\ AllMade(functionValues, m)
    /\ AllocasMade(functionVarsAllocas, m)
    /\ \A e \in module.globals : e[2].k # "inst"

Operands(c) == [k \in DOMAIN c.uses |-> At(c.uses[k])]

\* The operands of an instruction that is generated are values made.
LEMMA OperandsLemma ==
    ASSUME NEW m, AllMade(functionValues, m), NEW c \in CIRInstruction, ~Impossible(c)
    PROVE  /\ AllMade(Operands(c), m)
           /\ DOMAIN Operands(c) = 1..Len(c.uses) /\ Len(c.uses) \in Nat
<1>1. c.uses \in Seq(Int)
  BY DEF CIRInstruction
<1>2. Len(c.uses) \in Nat /\ DOMAIN c.uses = 1..Len(c.uses) /\ DOMAIN Operands(c) = DOMAIN c.uses
  BY <1>1 DEF Operands
<1>3. Operands(c) \in Seq({Operands(c)[k] : k \in DOMAIN c.uses})
  BY <1>2 DEF Operands
<1>4. ASSUME NEW k \in DOMAIN c.uses
      PROVE  IsValue(Operands(c)[k], m)
  <2>1. c.uses[k] \in 0..(Len(functionValues) - 1)
    <3>1. c.uses[k] \in ToSet(c.uses)
      BY DEF ToSet
    <3>. QED
      BY <3>1 DEF Impossible, InRange
  <2>2. Len(functionValues) \in Nat /\ DOMAIN functionValues = 1..Len(functionValues)
    BY AppendLemma DEF AllMade
  <2>3. c.uses[k] + 1 \in DOMAIN functionValues
    BY <2>1, <2>2
  <2>. QED
    BY <2>3 DEF AllMade, Operands, At
<1>. QED
  BY <1>2, <1>3, <1>4 DEF AllMade, IsSeq

\* The value of a global variable is none of the function.
LEMMA GlobalLemma ==
    ASSUME NEW m, Tables(m), NEW x
    PROVE  IsValue(Get(module.globals, x), m)
<1>1. AllocasMade(module.globals, m)
  BY DEF Tables, AllocasMade, IsValue
<1>. QED
  BY <1>1, GetLemma

\* Every instruction.
LEMMA InstructionLemma ==
    ASSUME NEW f, NEW nb, GoodFunction(f, nb), NEW b \in 1..nb, Tables(Len(f.made)),
           NEW c \in CIRInstruction, Complete(c), ~Impossible(c)
    PROVE  Translated(codegenInstruction(f, b, c), Len(f.made), nb)
<1>. DEFINE m == Len(f.made)
            args == Operands(c)
            r == codegenInstruction(f, b, c)
<1>. SUFFICES Translated(r, m, nb)
  OBVIOUS
<1>1. AllMade(args, m) /\ DOMAIN args = 1..Len(c.uses) /\ Len(c.uses) \in Nat
  BY OperandsLemma DEF Tables
<1>2. AllocasMade(functionVarsAllocas, m)
  BY DEF Tables
<1>3. \A v \in ToSet(args) : IsValue(v, m)
  BY <1>1, SameOperands
<1>4. c.op \in Opcodes
  BY DEF CIRInstruction
<1>. HIDE DEF m, args, r
<1>5. ASSUME NEW op, op # "alloca", NEW x
      PROVE  Translated(Plain(f, b, c, op, x, args), m, nb)
  BY <1>2, <1>3, <1>5, PlainLemma DEF m
<1>6. ASSUME NEW k, NEW x, k # "inst"
      PROVE  Translated(NoCode(f, Value(k, x, 0)), m, nb)
  BY <1>2, <1>6, NoCodeLemma DEF m, Value, IsValue
<1>7. CASE c.op \in {"ConstNumber", "ConstBool", "ConstNull"}
  <2>1. r = NoCode(f, Literal(c.ty, c.x))
    BY <1>7 DEF r, codegenInstruction, Arithmetic, Compare
  <2>2. IsValue(Literal(c.ty, c.x), m)
    BY DEF Literal, IsValue
  <2>3. Translated(NoCode(f, Literal(c.ty, c.x)), m, nb)
    BY <1>2, <2>2, NoCodeLemma DEF m
  <2>. QED
    BY <2>1, <2>3
<1>8. CASE c.op \in {"ConstVoid", "LoadString"}
  <2>1. r = NoCode(f, null) \/ r = NoCode(f, Value("string", module.strings[c.pos + 1], 0))
    BY <1>8 DEF r, codegenInstruction, Arithmetic, Compare
  <2>. QED
    BY <1>6, <2>1 DEF null
<1>9. CASE c.op = "InitArg"
  <2>1. r = NoCode(f, Get(functionVarsAllocas, c.x))
    BY <1>9 DEF r, codegenInstruction, Arithmetic, Compare
  <2>. QED
    BY <1>2, <2>1, GetLemma, NoCodeLemma DEF m
<1>10. CASE c.op = "VarInit"
  <2>1. r = VarInit(f, b, c, args)
    BY <1>10 DEF r, codegenInstruction, args, Operands, Arithmetic, Compare
  <2>. QED
    BY <1>1, <1>2, <2>1, VarInitLemma DEF m
<1>11. CASE c.op \in {"LoadVar", "Deref", "Return", "Phi", "GepArray"}
  <2>1. \E op \in {"load", "ret", "phi", "element"} : r = Plain(f, b, c, op, "", args)
    BY <1>11 DEF r, codegenInstruction, args, Operands, Arithmetic, Compare
  <2>. QED
    BY <1>5, <2>1
<1>12. CASE c.op \in {"Sizeof", "GepStruct"}
  <2>1. \E op \in {"sizeof", "member"} : \E x \in {c.x, Members(c.from)[1][1]} : r = Plain(f, b, c, op, x, args)
    BY <1>12 DEF r, codegenInstruction, args, Operands, Arithmetic, Compare
  <2>. QED
    BY <1>5, <2>1
<1>13. CASE c.op \in Arithmetic \union Compare
  <2>1. \E x \in {ArithmeticForm(c.op, c.ty), CompareForm(c.op, c.from)} : r = Plain(f, b, c, c.op, x, args)
    BY <1>13 DEF r, codegenInstruction, args, Operands, Arithmetic, Compare
  <2>2. c.op # "alloca"
    BY <1>13 DEF Arithmetic, Compare
  <2>. QED
    BY <1>5, <2>1, <2>2
<1>14. CASE c.op \in {"Goto", "GotoIf"}
  <2>1. r = Pushing(Plain(f, b, c, "br", "", args), null)
    BY <1>14 DEF r, codegenInstruction, args, Operands, Arithmetic, Compare
  <2>. QED
    BY <1>5, <2>1, PushingLemma DEF null, Value
<1>15. CASE c.op = "ConstNever"
  <2>1. r = Plain(f, b, c, "unreachable", "", << >>)
    BY <1>15 DEF r, codegenInstruction, Arithmetic, Compare
  <2>2. \A v \in ToSet(<< >>) : IsValue(v, m)
    BY DEF ToSet
  <2>. QED
    BY <1>2, <2>1, <2>2, PlainLemma DEF m
<1>16. CASE c.op = "LoadGlobal"
  <2>1. r = Plain(f, b, c, "load", "", <<Get(module.globals, c.x)>>)
    BY <1>16 DEF r, codegenInstruction, Arithmetic, Compare
  <2>2. \A v \in ToSet(<<Get(module.globals, c.x)>>) : IsValue(v, m)
    BY GlobalLemma DEF ToSet, m
  <2>. QED
    BY <1>2, <2>1, <2>2, PlainLemma DEF m
<1>17. CASE c.op \in {"StoreVar", "StoreInPtr", "StoreGlobal"}
  <2>1. IsValue(args[1], m) /\ (c.op # "StoreGlobal" => IsValue(args[2], m))
    <3>1. 1 \in DOMAIN args /\ (c.op # "StoreGlobal" => 2 \in DOMAIN args)
      <4>1. Len(c.uses) = IF c.op = "StoreGlobal" THEN 1 ELSE 2
        BY <1>17 DEF Complete
      <4>. QED
        BY <1>1, <4>1
    <3>. QED
      BY <1>1, <3>1 DEF AllMade
  <2>2. IsValue(Get(module.globals, c.x), m)
    BY GlobalLemma DEF m
  <2>3. ASSUME NEW v, IsValue(v, m), NEW w, IsValue(w, m)
        PROVE  Translated(Pushing(Plain(f, b, c, "store", "", <<v, w>>), null), m, nb)
    <3>1. \A u \in ToSet(<<v, w>>) : IsValue(u, m)
      BY <2>3 DEF ToSet
    <3>2. Translated(Plain(f, b, c, "store", "", <<v, w>>), m, nb)
      BY <1>2, <3>1, PlainLemma DEF m
    <3>. QED
      BY <3>2, PushingLemma DEF null, Value
  <2>4. CASE c.op = "StoreVar"
    <3>1. r = Pushing(Plain(f, b, c, "store", "", <<args[2], args[1]>>), null)
      BY <2>4 DEF r, codegenInstruction, args, Operands, Arithmetic, Compare
    <3>. QED
      BY <2>1, <2>3, <2>4, <3>1
  <2>5. CASE c.op = "StoreInPtr"
    <3>1. r = Pushing(Plain(f, b, c, "store", "", <<args[1], args[1]>>), null)
      BY <2>5 DEF r, codegenInstruction, args, Operands, Arithmetic, Compare
    <3>. QED
      BY <2>1, <2>3, <3>1
  <2>6. CASE c.op = "StoreGlobal"
    <3>1. r = Pushing(Plain(f, b, c, "store", "", <<args[1], Get(module.globals, c.x)>>), null)
      BY <2>6 DEF r, codegenInstruction, args, Operands, Arithmetic, Compare
    <3>. QED
      BY <2>1, <2>2, <2>3, <3>1
  <2>. QED
    BY <1>17, <2>4, <2>5, <2>6
<1>18. CASE c.op = "Cast"
  <2>1. r = Cast(f, b, c, args[1])
    BY <1>18, SMTT(20) DEF r, codegenInstruction, args, Operands, Arithmetic, Compare
  <2>2. IsValue(args[1], m)
    BY <1>1, <1>18 DEF Complete, AllMade
  <2>. QED
    BY <1>2, <2>1, <2>2, CastLemma DEF m
<1>19. CASE c.op = "Call"
  <2>1. r = CallInstruction(f, b, c, args)
    BY <1>19 DEF r, codegenInstruction, args, Operands, Arithmetic, Compare
  <2>. QED
    BY <1>1, <1>2, <2>1, CallLemma DEF m
<1>20. c.op \notin {"Shift", "InlineAsm"}
  BY DEF Impossible
<1>. QED
  BY <1>4, <1>7, <1>8, <1>9, <1>10, <1>11, <1>12, <1>13, <1>14, <1>15, <1>16, <1>17, <1>18, <1>19, <1>20
     DEF Opcodes

\* The return of a struct through memory: no value is pushed.
LEMMA SretReturnLemma ==
    ASSUME NEW f, NEW nb, GoodFunction(f, nb), NEW b \in 1..nb, Tables(Len(f.made)),
           NEW c \in CIRInstruction, Complete(c), ~Impossible(c), c.op = "Return"
    PROVE  LET g == handleSretReturn(f, b, c)
           IN  /\ GoodFunction(g, nb)
               /\ Len(f.made) \in Nat /\ Len(g.made) \in Nat /\ Len(f.made) <= Len(g.made)
<1>. DEFINE at == Len(functionValues)
            val == At(c.uses[1])
            address == Get(functionVarsAllocas, "sret_arg")
            g == CreateEntryBlockAlloca(f, "temp_retvar_sret", at)
            store == LI("store", "", <<val, Made(g)>>, << >>, at)
            stored == Create(g, b, store)
            copy == LI("memcpy", "", <<Made(g), address>>, << >>, at)
            copied == Create(stored, b, copy)
            end == LI("ret", "", << >>, << >>, at)
            left == Create(copied, b, end)
<1>1. IsValue(val, Len(f.made)) /\ IsValue(address, Len(f.made))
  <2>1. AllMade(Operands(c), Len(f.made)) /\ 1 \in DOMAIN Operands(c)
    BY OperandsLemma DEF Tables, Complete
  <2>2. Operands(c)[1] = val
    BY <2>1 DEF Operands
  <2>. QED
    BY <2>1, <2>2, GetLemma DEF AllMade, Tables
<1>. HIDE DEF val, address
<1>2. /\ GoodFunction(g, nb)
      /\ Len(f.made) \in Nat /\ Len(g.made) \in Nat /\ Len(f.made) <= Len(g.made)
      /\ IsValue(Made(g), Len(g.made))
  BY PlaceLemma DEF Tables
<1>. HIDE DEF g
<1>3. IsValue(val, Len(g.made)) /\ IsValue(address, Len(g.made))
  BY <1>1, <1>2, IsValueGrows
<1>4. GoodFunction(stored, nb) /\ Len(stored.made) = Len(g.made) + 1
  <2>1. store.op # "alloca" /\ \A v \in ToSet(store.args) : IsValue(v, Len(g.made))
    BY <1>2, <1>3 DEF LI, ToSet
  <2>. HIDE DEF store
  <2>. QED
    BY <1>2, <2>1, CreateLemma
<1>. HIDE DEF stored
<1>5. GoodFunction(copied, nb) /\ Len(copied.made) = Len(g.made) + 2
  <2>1. Len(stored.made) \in Nat /\ Len(g.made) <= Len(stored.made)
    BY <1>2, <1>4
  <2>2. IsValue(Made(g), Len(stored.made)) /\ IsValue(address, Len(stored.made))
    BY <1>2, <1>3, <2>1, IsValueGrows
  <2>3. copy.op # "alloca" /\ \A v \in ToSet(copy.args) : IsValue(v, Len(stored.made))
    BY <2>2 DEF LI, ToSet
  <2>. HIDE DEF copy
  <2>4. GoodFunction(copied, nb) /\ Len(copied.made) = Len(stored.made) + 1
    BY <1>4, <2>3, CreateLemma
  <2>. QED
    BY <1>2, <1>4, <2>4
<1>. HIDE DEF copied
<1>6. GoodFunction(left, nb) /\ Len(left.made) = Len(g.made) + 3
  <2>1. end.op # "alloca" /\ \A v \in ToSet(end.args) : IsValue(v, Len(copied.made))
    BY DEF LI, ToSet
  <2>. HIDE DEF end
  <2>2. GoodFunction(left, nb) /\ Len(left.made) = Len(copied.made) + 1
    BY <1>5, <2>1, CreateLemma
  <2>. QED
    BY <1>2, <1>5, <2>2
<1>7. handleSretReturn(f, b, c) = left
  BY DEF handleSretReturn, left, end, copied, copy, stored, store, g, address, val
<1>. HIDE DEF left
<1>. QED
  BY <1>2, <1>6, <1>7

-----------------------------------------------------------------------------
(* The steps.                                                              *)

\* The functions made so far are good, and the tables are of the last of them.
BackendInvariant ==
    /\ file \in Files
    /\ module = [strings |-> module.strings, globals |-> module.globals, structs |-> module.structs,
                 functions |-> module.functions]
    /\ n \in Nat
    /\ IsSeq(module.functions)
    /\ \A F \in DOMAIN module.functions :
          GoodFunction(module.functions[F], Len(file.functions[F].blocks))
    /\ \A e \in module.globals : e[2].k # "inst"
    /\ phase \in {"strings", "init", "globals", "structs"} => module.functions = << >>
    /\ phase = "functions" =>
          /\ Len(module.functions) \in {n, n + 1}
          /\ Len(module.functions) <= Len(file.functions)
    /\ Generating =>
          /\ AllMade(functionValues, Len(Current.made))
          /\ AllocasMade(functionVarsAllocas, Len(Current.made))
          /\ bb_codegen_number \in Nat /\ i \in Nat

\* A function of a file has blocks, of instructions with their operands.
LEMMA FunctionLemma ==
    ASSUME file \in Files, NEW F \in DOMAIN file.functions
    PROVE  LET blocks == file.functions[F].blocks
           IN  /\ blocks \in Seq(Seq(CIRInstruction)) /\ blocks # << >>
               /\ \A b \in DOMAIN blocks : \A k \in DOMAIN blocks[b] : Complete(blocks[b][k])
<1>. DEFINE R == [x : STRING, blocks : Seq(Seq(CIRInstruction))]
<1>1. file.functions \in Seq(R)
  BY FilesWellFormed DEF FilesAssumption
<1>2. /\ file.functions[F].blocks # << >>
      /\ \A b \in DOMAIN file.functions[F].blocks :
            \A k \in DOMAIN file.functions[F].blocks[b] : Complete(file.functions[F].blocks[b][k])
  BY FilesWellFormed, Zenon DEF FilesAssumption
<1>. HIDE DEF R
<1>3. file.functions[F] \in R
  BY <1>1
<1>4. file.functions[F].blocks \in Seq(Seq(CIRInstruction))
  <2>. HIDE DEF CIRInstruction
  <2>. QED
    BY <1>3 DEF R
<1>. QED
  BY <1>2, <1>4

\* The function that is generated.
LEMMA GeneratingLemma ==
    ASSUME BackendInvariant, Generating
    PROVE  /\ Current = module.functions[n + 1]
           /\ GoodFunction(Current, Len(Function.blocks))
           /\ Tables(Len(Current.made))
           /\ Function.blocks \in Seq(Seq(CIRInstruction))
           /\ \A b \in DOMAIN Function.blocks : \A k \in DOMAIN Function.blocks[b] : Complete(Function.blocks[b][k])
<1>1. Len(module.functions) = n + 1 /\ n + 1 \in DOMAIN module.functions
  BY AppendLemma DEF BackendInvariant, Generating
<1>2. Current = module.functions[n + 1]
  BY <1>1 DEF Current, Last
<1>3. n + 1 \in DOMAIN file.functions
  BY <1>1, FilesWellFormed DEF FilesAssumption, BackendInvariant, Generating
<1>4. /\ Function.blocks \in Seq(Seq(CIRInstruction))
      /\ \A b \in DOMAIN Function.blocks : \A k \in DOMAIN Function.blocks[b] : Complete(Function.blocks[b][k])
  BY <1>3, FunctionLemma DEF BackendInvariant, Function
<1>. QED
  BY <1>1, <1>2, <1>4 DEF BackendInvariant, Function, Tables

\* A step that puts a good function in place of the one generated.
LEMMA UpdateLemma ==
    ASSUME BackendInvariant, Generating, NEW g, GoodFunction(g, Len(Function.blocks)),
           module' = [module EXCEPT !.functions[n + 1] = g],
           UNCHANGED <<file, phase, n>>,
           AllMade(functionValues', Len(g.made)), AllocasMade(functionVarsAllocas', Len(g.made)),
           bb_codegen_number' \in Nat, i' \in Nat
    PROVE  BackendInvariant'
<1>1. PICK S : module.functions \in Seq(S)
  BY DEF BackendInvariant, IsSeq
<1>2. n \in Nat /\ Len(module.functions) = n + 1 /\ n + 1 \in DOMAIN module.functions
  BY <1>1 DEF BackendInvariant, Generating
<1>3. module' = [strings |-> module.strings, globals |-> module.globals, structs |-> module.structs,
                 functions |-> [module.functions EXCEPT ![n + 1] = g]]
  BY DEF BackendInvariant
<1>4. module.functions \in Seq(S \union {g}) /\ module'.functions \in Seq(S \union {g})
  BY <1>1, <1>2, <1>3
<1>5. /\ Len(module'.functions) = n + 1
      /\ DOMAIN module'.functions = DOMAIN module.functions
      /\ module'.functions[n + 1] = g
      /\ \A F \in DOMAIN module.functions : F # n + 1 => module'.functions[F] = module.functions[F]
  BY <1>1, <1>2, <1>3
<1>6. Current' = g
  BY <1>2, <1>5 DEF Current, Last
<1>7. \A F \in DOMAIN module'.functions : GoodFunction(module'.functions[F], Len(file'.functions[F].blocks))
  <2>1. SUFFICES ASSUME NEW F \in DOMAIN module.functions
                 PROVE  GoodFunction(module'.functions[F], Len(file.functions[F].blocks))
    BY <1>5
  <2>2. CASE F = n + 1
    BY <1>5, <2>2 DEF Function
  <2>3. CASE F # n + 1
    BY <1>5, <2>3 DEF BackendInvariant
  <2>. QED
    BY <2>2, <2>3
<1>8. module'.globals = module.globals
  BY <1>3
<1>9. module' = [strings |-> module'.strings, globals |-> module'.globals, structs |-> module'.structs,
                 functions |-> module'.functions]
  BY <1>3
<1>10. IsSeq(module'.functions)
  BY <1>4 DEF IsSeq
<1>. QED
  BY <1>2, <1>5, <1>6, <1>7, <1>8, <1>9, <1>10 DEF BackendInvariant, Generating

\* A step of another phase, which leaves the functions alone.
LEMMA OtherPhaseLemma ==
    ASSUME BackendInvariant, UNCHANGED file,
           module' = [strings |-> module'.strings, globals |-> module'.globals, structs |-> module'.structs,
                      functions |-> module.functions],
           \A e \in module'.globals : e[2].k # "inst",
           n' \in Nat,
           phase' \in {"strings", "init", "globals", "structs"} => phase \in {"strings", "init", "globals", "structs"},
           phase' # "functions" \/ (module.functions = << >> /\ n' = 0)
    PROVE  BackendInvariant'
<1>1. module'.functions = module.functions
  OBVIOUS
<1>2. CASE phase' = "functions"
  <2>1. Len(module'.functions) = 0 /\ Len(file.functions) \in Nat
    BY <1>1, <1>2, FilesWellFormed DEF FilesAssumption, BackendInvariant
  <2>2. ~Generating'
    BY <1>2, <2>1 DEF Generating
  <2>. QED
    BY <1>1, <1>2, <2>1, <2>2 DEF BackendInvariant
<1>3. CASE phase' # "functions"
  BY <1>1, <1>3 DEF BackendInvariant, Generating
<1>. QED
  BY <1>2, <1>3

\* An argument is stored in a place of its own.
LEMMA StoreArgumentLemma ==
    ASSUME BackendInvariant, StoreArgument
    PROVE  BackendInvariant' \/ Stop
<1>. DEFINE args == Proto(Function.x).args
            name == IF Hidden = 1 /\ args_stored = 0 THEN "sret_arg" ELSE args[args_stored + 1][1]
            f == CreateEntryBlockAlloca(Current, name, -1)
            li == LI("store", "", <<Value("param", "", args_stored + 1), Made(f)>>, << >>, -1)
            g == Create(f, 1, li)
            nb == Len(Function.blocks)
<1>. HIDE DEF name
<1>1. Generating /\ GoodFunction(Current, nb) /\ Tables(Len(Current.made))
  BY GeneratingLemma DEF StoreArgument
<1>2. CASE ~Stop
  <2>1. /\ module' = [module EXCEPT !.functions[n + 1] = g]
        /\ functionVarsAllocas' = Put(functionVarsAllocas, name, Made(f))
        /\ UNCHANGED <<file, phase, n, functionValues, bb_codegen_number, i>>
    BY <1>2 DEF StoreArgument, name
  <2>2. /\ GoodFunction(f, nb)
        /\ Len(Current.made) \in Nat /\ Len(f.made) \in Nat /\ Len(Current.made) <= Len(f.made)
        /\ IsValue(Made(f), Len(f.made))
        /\ AllocasMade(functionVarsAllocas, Len(f.made))
    BY <1>1, PlaceLemma DEF Tables
  <2>. HIDE DEF f
  <2>3. li.op # "alloca" /\ \A v \in ToSet(li.args) : IsValue(v, Len(f.made))
    <3>1. ToSet(li.args) = {Value("param", "", args_stored + 1), Made(f)}
      <4>1. \A v, w : ToSet(<<v, w>>) = {v, w}
        BY DEF ToSet
      <4>2. li.args = <<Value("param", "", args_stored + 1), Made(f)>>
        BY DEF LI
      <4>. QED
        BY <4>1, <4>2
    <3>2. IsValue(Value("param", "", args_stored + 1), Len(f.made))
      BY DEF Value, IsValue
    <3>. QED
      BY <2>2, <3>1, <3>2 DEF LI
  <2>. HIDE DEF li
  <2>4. 1 \in 1..nb
    BY <2>2 DEF GoodFunction
  <2>5. GoodFunction(g, nb) /\ Len(g.made) = Len(f.made) + 1
    BY <2>2, <2>3, <2>4, CreateLemma
  <2>. HIDE DEF g
  <2>6. Len(g.made) \in Nat /\ Len(f.made) <= Len(g.made) /\ Len(Current.made) <= Len(g.made)
    BY <2>2, <2>5
  <2>7. AllMade(functionValues', Len(g.made))
    BY <1>1, <2>1, <2>2, <2>6, AllMadeGrows DEF Tables
  <2>8. AllocasMade(functionVarsAllocas', Len(g.made))
    BY <2>1, <2>2, <2>6, IsValueGrows, AllocasGrow, PutLemma
  <2>9. bb_codegen_number' \in Nat /\ i' \in Nat
    BY <1>1, <2>1 DEF BackendInvariant
  <2>. QED
    BY <1>1, <2>1, <2>5, <2>7, <2>8, <2>9, UpdateLemma
<1>. QED
  BY <1>2

\* An instruction of a block.
LEMMA NextInstructionLemma ==
    ASSUME BackendInvariant, NextInstruction, ~Stop
    PROVE  BackendInvariant'
<1>. DEFINE c == Block[i + 1]
            b == bb_codegen_number + 1
            nb == Len(Function.blocks)
            m == Len(Current.made)
            r == codegenInstruction(Current, b, c)
            g == IF IsSretReturn(c) THEN handleSretReturn(Current, b, c) ELSE r.f
<1>1. /\ Generating
      /\ GoodFunction(Current, nb) /\ Tables(m)
      /\ Function.blocks \in Seq(Seq(CIRInstruction))
      /\ bb_codegen_number \in Nat /\ bb_codegen_number < nb
      /\ i \in Nat /\ i < Len(Block)
      /\ ~Impossible(c)
  BY GeneratingLemma DEF NextInstruction, InBody, BackendInvariant
<1>2. b \in 1..nb /\ Block = Function.blocks[b] /\ Block \in Seq(CIRInstruction)
  BY <1>1 DEF Block
<1>3. i + 1 \in DOMAIN Block /\ c \in CIRInstruction
  BY <1>1, <1>2
<1>4. Complete(c)
  <2>1. b \in DOMAIN Function.blocks
    BY <1>1, <1>2
  <2>. QED
    BY <1>1, <1>2, <1>3, <2>1, GeneratingLemma
<1>5. CASE IsSretReturn(c)
  <2>. DEFINE h == handleSretReturn(Current, b, c)
  <2>1. /\ module' = [module EXCEPT !.functions[n + 1] = h]
        /\ UNCHANGED <<functionValues, functionVarsAllocas, file, phase, n, bb_codegen_number>>
        /\ i' = i + 1
    BY <1>1, <1>5 DEF NextInstruction
  <2>2. c.op = "Return"
    BY <1>5 DEF IsSretReturn
  <2>3. GoodFunction(h, nb) /\ m \in Nat /\ Len(h.made) \in Nat /\ m <= Len(h.made)
    BY <1>1, <1>2, <1>3, <1>4, <2>2, SretReturnLemma
  <2>. HIDE DEF h
  <2>4. AllMade(functionValues', Len(h.made)) /\ AllocasMade(functionVarsAllocas', Len(h.made))
    BY <1>1, <2>1, <2>3, AllMadeGrows, AllocasGrow DEF Tables
  <2>. QED
    BY <1>1, <2>1, <2>3, <2>4, UpdateLemma
<1>6. CASE ~IsSretReturn(c)
  <2>1. /\ module' = [module EXCEPT !.functions[n + 1] = r.f]
        /\ functionValues' = Append(functionValues, r.v)
        /\ functionVarsAllocas' = r.allocas
        /\ UNCHANGED <<file, phase, n, bb_codegen_number>>
        /\ i' = i + 1
    BY <1>1, <1>6 DEF NextInstruction, PushValue
  <2>2. Translated(r, m, nb) /\ m \in Nat
    BY <1>1, <1>2, <1>3, <1>4, InstructionLemma, AppendLemma DEF GoodFunction
  <2>. HIDE DEF r
  <2>3. AllMade(functionValues, Len(r.f.made))
    BY <1>1, <2>2, AllMadeGrows DEF Tables, Translated
  <2>4. AllMade(functionValues', Len(r.f.made))
    <3>1. IsSeq(functionValues) /\ IsValue(r.v, Len(r.f.made))
      BY <2>2, <2>3 DEF AllMade, Translated
    <3>2. /\ IsSeq(Append(functionValues, r.v))
          /\ Len(functionValues) \in Nat /\ DOMAIN functionValues = 1..Len(functionValues)
          /\ DOMAIN Append(functionValues, r.v) = 1..(Len(functionValues) + 1)
          /\ \A k \in 1..Len(functionValues) : Append(functionValues, r.v)[k] = functionValues[k]
          /\ Append(functionValues, r.v)[Len(functionValues) + 1] = r.v
      BY <3>1, AppendLemma
    <3>. QED
      BY <2>1, <2>3, <3>1, <3>2 DEF AllMade
  <2>5. GoodFunction(r.f, nb) /\ AllocasMade(functionVarsAllocas', Len(r.f.made))
    BY <2>1, <2>2 DEF Translated
  <2>. QED
    <3>1. bb_codegen_number' \in Nat /\ i' \in Nat
      BY <1>1, <2>1
    <3>. QED
      BY <1>1, <2>1, <2>4, <2>5, <3>1, UpdateLemma
<1>. QED
  BY <1>5, <1>6

\* The first function begins, or the next: it has a block and no instruction.
LEMMA BeginFunctionLemma ==
    ASSUME BackendInvariant, BeginFunction, ~Stop
    PROVE  BackendInvariant'
<1>. DEFINE f == [made |-> << >>, blocks |-> [b \in DOMAIN Function.blocks |-> << >>]]
<1>1. /\ phase = "functions" /\ n < Len(file.functions) /\ Len(module.functions) = n
      /\ module' = [module EXCEPT !.functions = Append(@, f)]
      /\ functionVarsAllocas' = {} /\ functionValues' = << >>
      /\ bb_codegen_number' = 0 /\ i' = 0
      /\ UNCHANGED <<file, phase, n>>
  BY DEF BeginFunction
<1>2. n + 1 \in DOMAIN file.functions /\ n \in Nat /\ Len(file.functions) \in Nat
  BY <1>1, FilesWellFormed DEF FilesAssumption, BackendInvariant
<1>3. Function.blocks \in Seq(Seq(CIRInstruction)) /\ Function.blocks # << >>
  BY <1>2, FunctionLemma DEF BackendInvariant, Function
<1>4. GoodFunction(f, Len(Function.blocks))
  <2>1. Len(Function.blocks) \in Nat \ {0} /\ DOMAIN Function.blocks = 1..Len(Function.blocks)
    BY <1>3
  <2>2. IsSeq(f.made) /\ Len(f.made) = 0 /\ DOMAIN f.made = {}
    <3>1. << >> \in Seq({})
      OBVIOUS
    <3>. QED
      BY <3>1 DEF IsSeq
  <2>3. f.blocks \in [1..Len(Function.blocks) -> Seq(1..Len(f.made))]
    BY <2>1
  <2>. QED
    BY <2>1, <2>2, <2>3 DEF GoodFunction, MadeBefore, Dominated
<1>. HIDE DEF f
<1>5. /\ IsSeq(Append(module.functions, f))
      /\ DOMAIN module.functions = 1..n
      /\ Len(Append(module.functions, f)) = n + 1
      /\ DOMAIN Append(module.functions, f) = 1..(n + 1)
      /\ \A F \in 1..n : Append(module.functions, f)[F] = module.functions[F]
      /\ Append(module.functions, f)[n + 1] = f
  BY <1>1, AppendLemma DEF BackendInvariant
<1>6. module' = [strings |-> module.strings, globals |-> module.globals, structs |-> module.structs,
                 functions |-> Append(module.functions, f)]
  BY <1>1 DEF BackendInvariant
<1>7. \A F \in DOMAIN module'.functions : GoodFunction(module'.functions[F], Len(file'.functions[F].blocks))
  <2>1. SUFFICES ASSUME NEW F \in 1..(n + 1)
                 PROVE  GoodFunction(Append(module.functions, f)[F], Len(file.functions[F].blocks))
    BY <1>1, <1>5, <1>6
  <2>2. CASE F = n + 1
    BY <1>4, <1>5, <2>2 DEF Function
  <2>3. CASE F # n + 1
    <3>1. F \in 1..n
      BY <1>2, <2>3
    <3>. QED
      BY <1>5, <3>1 DEF BackendInvariant
  <2>. QED
    BY <2>2, <2>3
<1>8. AllMade(functionValues', Len(Current'.made)) /\ AllocasMade(functionVarsAllocas', Len(Current'.made))
  <2>1. functionValues' \in Seq({}) /\ DOMAIN functionValues' = {}
    BY <1>1
  <2>. QED
    BY <1>1, <2>1 DEF AllMade, AllocasMade, IsSeq
<1>9. /\ module'.functions = Append(module.functions, f) /\ module'.globals = module.globals
      /\ module' = [strings |-> module'.strings, globals |-> module'.globals, structs |-> module'.structs,
                    functions |-> module'.functions]
  BY <1>6
<1>10. Len(module'.functions) = n' + 1 /\ Len(module'.functions) <= Len(file'.functions)
  BY <1>1, <1>2, <1>5, <1>9
<1>11. bb_codegen_number' \in Nat /\ i' \in Nat
  BY <1>1
<1>. QED
  BY <1>1, <1>2, <1>5, <1>7, <1>8, <1>9, <1>10, <1>11 DEF BackendInvariant

\* Strings, initial values, global variables and structs.
LEMMA GlobalDataLemma ==
    ASSUME BackendInvariant, NEW g, NEW s,
           CodegenString \/ GlobalInstruction \/ codegenGlobalVar(g) \/ GlobalVarsDone
             \/ codegenStruct(s) \/ StructsDone,
           ~Stop
    PROVE  BackendInvariant'
<1>1. /\ n \in Nat
      /\ module = [strings |-> module.strings, globals |-> module.globals, structs |-> module.structs,
                   functions |-> module.functions]
      /\ \A e \in module.globals : e[2].k # "inst"
      /\ phase \in {"strings", "init", "globals", "structs"} => module.functions = << >>
  BY DEF BackendInvariant
<1>2. CASE CodegenString
  <2>1. module' = [module EXCEPT !.strings = module'.strings] \/ module' = module
    BY <1>1, <1>2 DEF CodegenString
  <2>2. /\ module' = [strings |-> module'.strings, globals |-> module'.globals, structs |-> module'.structs,
                      functions |-> module.functions]
        /\ module'.globals = module.globals
    BY <1>1, <2>1
  <2>. QED
    BY <1>1, <1>2, <2>2, OtherPhaseLemma DEF CodegenString, Leave
<1>3. CASE GlobalInstruction
  <2>1. module' = module /\ file' = file /\ n' \in Nat /\ phase = "init" /\ phase' \in {"init", "globals"}
    BY <1>1, <1>3 DEF GlobalInstruction, Leave
  <2>. QED
    BY <1>1, <2>1, OtherPhaseLemma
<1>4. CASE codegenGlobalVar(g)
  <2>1. /\ phase = "globals" /\ phase' = phase /\ n' = n /\ file' = file
        /\ \E v \in {null, Value("global", g.x, 0)} :
              module' = [module EXCEPT !.globals = Put(@, g.x, v)]
    BY <1>4 DEF codegenGlobalVar
  <2>2. PICK v \in {null, Value("global", g.x, 0)} :
              module' = [module EXCEPT !.globals = Put(@, g.x, v)]
    BY <2>1
  <2>3. v.k # "inst"
    <3>1. null.k = "null" /\ Value("global", g.x, 0).k = "global"
      BY DEF null, Value
    <3>2. v = null \/ v = Value("global", g.x, 0)
      BY <2>2
    <3>. QED
      BY <3>1, <3>2
  <2>4. /\ module'.globals = Put(module.globals, g.x, v)
        /\ module' = [strings |-> module'.strings, globals |-> module'.globals, structs |-> module'.structs,
                      functions |-> module.functions]
    BY <1>1, <2>2
  <2>5. \A e \in module'.globals : e[2].k # "inst"
    BY <1>1, <2>3, <2>4 DEF Put
  <2>. QED
    BY <1>1, <2>1, <2>4, <2>5, OtherPhaseLemma
<1>5. CASE GlobalVarsDone
  BY <1>1, <1>5, OtherPhaseLemma DEF GlobalVarsDone, Leave
<1>6. CASE codegenStruct(s)
  <2>1. /\ phase = "structs" /\ phase' = phase /\ n' = n /\ file' = file
        /\ module' = [module EXCEPT !.structs = @ \union {s.x}]
    BY <1>6 DEF codegenStruct
  <2>2. /\ module'.globals = module.globals
        /\ module' = [strings |-> module'.strings, globals |-> module'.globals, structs |-> module'.structs,
                      functions |-> module.functions]
    BY <1>1, <2>1
  <2>. QED
    BY <1>1, <2>1, <2>2, OtherPhaseLemma
<1>7. CASE StructsDone
  BY <1>1, <1>7, OtherPhaseLemma DEF StructsDone, Leave
<1>. QED
  BY <1>2, <1>3, <1>4, <1>5, <1>6, <1>7

\* Steps that only count, end a function or stop.
LEMMA CountingLemma ==
    ASSUME BackendInvariant, EndBlock \/ EndFunction \/ FunctionsDone \/ Stop \/ UNCHANGED vars
    PROVE  BackendInvariant'
<1>1. /\ n \in Nat
      /\ module = [strings |-> module.strings, globals |-> module.globals, structs |-> module.structs,
                   functions |-> module.functions]
      /\ \A e \in module.globals : e[2].k # "inst"
  BY DEF BackendInvariant
<1>2. CASE EndBlock
  <2>1. /\ UNCHANGED <<file, phase, n, module, functionValues, functionVarsAllocas>>
        /\ bb_codegen_number' = bb_codegen_number + 1 /\ i' = 0
        /\ Generating
    BY <1>2 DEF EndBlock, InBody
  <2>2. Current' = Current /\ (Generating' <=> Generating)
    BY <2>1 DEF Current, Generating
  <2>3. bb_codegen_number' \in Nat /\ i' \in Nat
    BY <2>1 DEF BackendInvariant
  <2>. QED
    BY <2>1, <2>2, <2>3 DEF BackendInvariant
<1>3. CASE EndFunction
  <2>1. UNCHANGED <<file, phase, module>> /\ n' = n + 1 /\ phase = "functions" /\ Len(module.functions) = n + 1
    BY <1>3 DEF EndFunction, InBody, Generating
  <2>2. n' \in Nat /\ Len(module'.functions) \in {n', n' + 1} /\ ~Generating'
    BY <1>1, <2>1 DEF Generating
  <2>. QED
    BY <2>1, <2>2 DEF BackendInvariant
<1>4. CASE FunctionsDone
  BY <1>1, <1>4, OtherPhaseLemma DEF FunctionsDone, Leave
<1>5. CASE Stop
  BY <1>1, <1>5, OtherPhaseLemma DEF Stop
<1>6. CASE UNCHANGED vars
  BY <1>6 DEF vars, BackendInvariant, Generating, Current
<1>. QED
  BY <1>2, <1>3, <1>4, <1>5, <1>6

LEMMA NextLemma ==
    ASSUME BackendInvariant, [Next]_vars
    PROVE  BackendInvariant'
<1>1. CASE Stop
  BY <1>1, CountingLemma
<1>2. CASE ~Stop
  <2>1. ASSUME CodegenString \/ GlobalInstruction \/ (\E g \in file.globals : codegenGlobalVar(g))
                 \/ GlobalVarsDone \/ (\E s \in file.structs : codegenStruct(s)) \/ StructsDone
        PROVE  BackendInvariant'
    BY <1>2, <2>1, GlobalDataLemma
  <2>2. CASE BeginFunction
    BY <1>2, <2>2, BeginFunctionLemma
  <2>3. CASE StoreArgument
    BY <1>2, <2>3, StoreArgumentLemma
  <2>4. CASE NextInstruction
    BY <1>2, <2>4, NextInstructionLemma
  <2>5. CASE EndBlock \/ EndFunction \/ FunctionsDone
    BY <2>5, CountingLemma
  <2>6. CASE Ended \/ UNCHANGED vars
    BY <2>6, CountingLemma DEF Ended
  <2>. QED
    BY <2>1, <2>2, <2>3, <2>4, <2>5, <2>6 DEF Next, codegenFile
<1>. QED
  BY <1>1, <1>2

LEMMA InitLemma ==
    ASSUME Init
    PROVE  BackendInvariant
<1>1. /\ module.functions = << >> /\ module.globals = {}
      /\ module = [strings |-> module.strings, globals |-> module.globals, structs |-> module.structs,
                   functions |-> module.functions]
      /\ file \in Files /\ n = 0 /\ phase = "strings"
  BY DEF Init
<1>2. << >> \in Seq({})
  OBVIOUS
<1>. QED
  BY <1>1, <1>2 DEF BackendInvariant, IsSeq, Generating

-----------------------------------------------------------------------------
\* The functions made so far are good at every step, for every file.
THEOREM BackendInvariance == Spec => []BackendInvariant
<1>1. Init => BackendInvariant
  BY InitLemma
<1>2. BackendInvariant /\ [Next]_vars => BackendInvariant'
  BY NextLemma
<1>. QED
  BY <1>1, <1>2, PTL DEF Spec

\* Variables, those of loops and branches included, and the places of arguments
\* and of results are allocated before they are used, in the entry block.
THEOREM AllocasAlwaysDominate == Spec => []AllocasDominate
<1>1. BackendInvariant => AllocasDominate
  BY DEF BackendInvariant, AllocasDominate, GoodFunction
<1>. QED
  BY <1>1, BackendInvariance, PTL

\* No operand is taken of an instruction that is yet to be made, although
\* operands are found by position and values are pushed one by one.
THEOREM OperandsAlwaysMadeBefore == Spec => []OperandsMadeBefore
<1>1. BackendInvariant => OperandsMadeBefore
  BY DEF BackendInvariant, OperandsMadeBefore, GoodFunction
<1>. QED
  BY <1>1, BackendInvariance, PTL

-----------------------------------------------------------------------------
(* Its invariant.                                                           *)

\* A store has operands.
StoresSomething(li) == IsSeq(li.args) /\ (li.op = "store" => li.args # << >>)
Operates(f) == \A id \in DOMAIN f.made : StoresSomething(f.made[id])

Arguments == Proto(Function.x).args
CirOf == Promise!Cir(n + 1)

\* values are those of the first instructions of cir, whose positions mean d.
Meant(f, values, cir, d) ==
    /\ Len(values) <= Len(cir)
    /\ \A p \in DOMAIN values :
          /\ Meaning(f, values[p]) = d[p - 1]
          /\ \A x \in Reserved : ~PlaceOf(f, values[p], x)

\* The table has the places of arguments, and of variables among the first m
\* instructions of cir, by their names.
Found(f, table, cir, m) ==
    \A e \in table :
        /\ PlaceOf(f, e[2], e[1]) /\ e[1] \notin Reserved
        /\ \/ f.made[e[2].p].at = -1
           \/ \E q \in 1..m : cir[q].op = "VarInit" /\ cir[q].x = e[1]

\* The values of the function that is generated mean what their positions mean,
\* and its table has the places of its names.
ValuesMeant(f) == Meant(f, functionValues, CirOf, Promise!Denotation(CirOf))
AllocasFound(f) == Found(f, functionVarsAllocas, CirOf, Len(functionValues))

\* The arguments stored so far are in the table, unless the function has a hidden
\* one; no instruction is generated before they are all stored.
ArgumentsFound ==
    /\ Function.x \in DOMAIN file.protos /\ args_stored \in Nat
    /\ Hidden = 0 => /\ args_stored <= Len(Arguments)
                     /\ \A j \in 1..args_stored : Has(functionVarsAllocas, Arguments[j][1])
    /\ Hidden = 1 => \/ args_stored <= Len(Arguments)
                     \/ Len(Arguments) = 0 /\ args_stored = 1
    /\ ~ArgumentsStored => bb_codegen_number = 0 /\ i = 0 /\ functionValues = << >>

\* There are as many values as instructions generated.  Only the last block may
\* end with one that has no value, the return of a struct through memory.
Progress ==
    LET nb == Len(Function.blocks)
    IN  /\ bb_codegen_number \in 0..nb
        /\ bb_codegen_number < nb =>
              /\ i \in 0..Len(Block)
              /\ i < Len(Block) \/ bb_codegen_number < nb - 1 =>
                    Len(functionValues) = Promise!Position(Function.blocks, bb_codegen_number + 1, i + 1)

\* Strings and global variables are those of the file; the blocks of a function
\* that is ended are all generated; and the tables mean what is promised.
PromiseInvariant ==
    /\ Translatable
    /\ phase = "strings" => n \in 0..Len(file.strings) /\ module.strings = SubSeq(file.strings, 1, n)
    /\ phase \notin {"strings", "stopped"} => module.strings = file.strings
    /\ \A e \in module.globals : e[2] \in {null, Value("global", e[1], 0)}
    /\ phase = "functions" /\ Len(module.functions) = n /\ n > 0 =>
          bb_codegen_number = Len(file.functions[n].blocks)
    /\ \A F \in DOMAIN module.functions : Operates(module.functions[F])
    /\ Generating => Progress /\ ValuesMeant(Current) /\ AllocasFound(Current) /\ ArgumentsFound

-----------------------------------------------------------------------------
(* What positions mean.                                                    *)

\* The meaning of a position depends on those before it only.
LEMMA MeaningAtLemma ==
    ASSUME NEW c, NEW p \in Nat, NEW g, NEW h, \A q \in 0..(p - 1) : g[q] = h[q]
    PROVE  Promise!MeaningAt(g, c, p) = Promise!MeaningAt(h, c, p)
<1>1. CASE /\ c.op = "Cast" /\ Promise!Conversion(c.from, c.ty) = "none"
           /\ c.uses[1] \in 0..(p - 1)
  BY <1>1 DEF Promise!MeaningAt, Promise!Constants, Promise!Effects
<1>2. CASE ~(/\ c.op = "Cast" /\ Promise!Conversion(c.from, c.ty) = "none"
             /\ c.uses[1] \in 0..(p - 1))
  BY <1>2 DEF Promise!MeaningAt, Promise!Constants, Promise!Effects
<1>. QED
  BY <1>1, <1>2

\* The recursive function of Denotation has the values it is defined to have.
LEMMA DenotationLemma ==
    ASSUME NEW cir, Len(cir) \in Nat, NEW p \in 0..(Len(cir) - 1)
    PROVE  LET d == Promise!Denotation(cir)
           IN  d[p] = Promise!MeaningAt(d, cir[p + 1], p)
<1>. DEFINE Denotes(g, m) ==
                /\ g = [q \in 0..(m - 1) |-> g[q]]
                /\ \A q \in 0..(m - 1) : g[q] = Promise!MeaningAt(g, cir[q + 1], q)
            S == {m \in Nat : \E g : Denotes(g, m)}
<1>1. 0 \in S
  <2>. DEFINE g == [q \in 0..(0 - 1) |-> 0]
  <2>1. Denotes(g, 0)
    OBVIOUS
  <2>. QED
    BY <2>1
<1>2. ASSUME NEW m \in Nat, m \in S
      PROVE  m + 1 \in S
  <2>1. PICK g : Denotes(g, m)
    BY <1>2
  <2>. DEFINE h == [q \in 0..((m + 1) - 1) |-> IF q = m THEN Promise!MeaningAt(g, cir[m + 1], m) ELSE g[q]]
  <2>2. \A q \in 0..(m - 1) : q \in 0..((m + 1) - 1) /\ q # m /\ h[q] = g[q]
    OBVIOUS
  <2>3. ASSUME NEW q \in 0..((m + 1) - 1)
        PROVE  h[q] = Promise!MeaningAt(h, cir[q + 1], q)
    <3>1. q \in Nat /\ \A r \in 0..(q - 1) : r \in 0..(m - 1)
      OBVIOUS
    <3>2. \A r \in 0..(q - 1) : g[r] = h[r]
      BY <2>2, <3>1
    <3>3. h[q] = Promise!MeaningAt(g, cir[q + 1], q)
      <4>1. CASE q = m
        BY <4>1
      <4>2. CASE q # m
        <5>1. q \in 0..(m - 1)
          BY <4>2
        <5>. QED
          BY <2>1, <2>2, <5>1
      <4>. QED
        BY <4>1, <4>2
    <3>. HIDE DEF h
    <3>. QED
      BY <3>1, <3>2, <3>3, MeaningAtLemma
  <2>4. h = [q \in 0..((m + 1) - 1) |-> h[q]]
    OBVIOUS
  <2>. HIDE DEF h
  <2>. QED
    BY <2>3, <2>4
<1>. HIDE DEF S
<1>3. Len(cir) \in S
  BY <1>1, <1>2, SetInduction
<1>4. PICK g : Denotes(g, Len(cir))
  BY <1>3 DEF S
<1>. DEFINE d == CHOOSE d : d = [q \in 0..(Len(cir) - 1) |-> Promise!MeaningAt(d, cir[q + 1], q)]
<1>5. g = [q \in 0..(Len(cir) - 1) |-> Promise!MeaningAt(g, cir[q + 1], q)]
  BY <1>4
<1>6. d = [q \in 0..(Len(cir) - 1) |-> Promise!MeaningAt(d, cir[q + 1], q)]
  BY <1>5
<1>7. Promise!Denotation(cir) = d
  BY DEF Promise!Denotation
<1>. HIDE DEF d
<1>. QED
  BY <1>6, <1>7

-----------------------------------------------------------------------------
(* What instructions stand for.                                            *)

\* g has the instructions of f, and perhaps more.
Begins(f, g) ==
    /\ Len(f.made) \in Nat /\ Len(g.made) \in Nat /\ Len(f.made) <= Len(g.made)
    /\ \A id \in 1..Len(f.made) : g.made[id] = f.made[id]

\* What a value denotes does not change as instructions are made.
LEMMA MeaningGrows ==
    ASSUME NEW f, NEW g, Begins(f, g), NEW v, IsValue(v, Len(f.made))
    PROVE  Meaning(g, v) = Meaning(f, v) /\ \A x : PlaceOf(g, v, x) <=> PlaceOf(f, v, x)
BY DEF Meaning, PlaceOf, IsValue, Begins

\* The ends of a sequence of anything.
LEMMA EndsLemma ==
    ASSUME NEW s, IsSeq(s), s # << >>
    PROVE  /\ 1 \in 1..Len(s) /\ Len(s) \in 1..Len(s)
           /\ Head(s) = s[1] /\ Last(s) = s[Len(s)]
           /\ Len(Tail(s)) = Len(s) - 1 /\ Len(Front(s)) = Len(s) - 1
           /\ DOMAIN Tail(s) = 1..(Len(s) - 1)
           /\ DOMAIN Front(s) = 1..(Len(s) - 1)
           /\ \A k \in 1..(Len(s) - 1) : Tail(s)[k] = s[k + 1] /\ Front(s)[k] = s[k]
<1>1. PICK S : s \in Seq(S)
  BY DEF IsSeq
<1>2. Len(s) \in Nat /\ Len(s) # 0 /\ DOMAIN s = 1..Len(s)
  BY <1>1
<1>3. /\ Head(s) = s[1] /\ Last(s) = s[Len(s)]
      /\ 1 \in 1..Len(s) /\ Len(s) \in 1..Len(s)
  BY <1>1, <1>2 DEF Last
<1>4. /\ Tail(s) \in Seq(S) /\ Len(Tail(s)) = Len(s) - 1
      /\ \A k \in 1..(Len(s) - 1) : Tail(s)[k] = s[k + 1]
  BY <1>1, <1>2
<1>5. /\ Front(s) \in Seq(S) /\ Len(Front(s)) = Len(s) - 1
      /\ \A k \in 1..(Len(s) - 1) : Front(s)[k] = s[k]
  BY <1>1, <1>2 DEF Front
<1>6. DOMAIN Tail(s) = 1..(Len(s) - 1) /\ DOMAIN Front(s) = 1..(Len(s) - 1)
  BY <1>4, <1>5
<1>. QED
  BY <1>3, <1>4, <1>5, <1>6

\* The operands of an instruction.
LEMMA StoredOperandsLemma ==
    ASSUME NEW args, IsSeq(args), NEW m, \A v \in ToSet(args) : IsValue(v, m)
    PROVE  /\ Len(args) \in Nat /\ DOMAIN args = 1..Len(args)
           /\ \A k \in 1..Len(args) : IsValue(args[k], m)
<1>1. Len(args) \in Nat /\ DOMAIN args = 1..Len(args)
  BY AppendLemma
<1>. QED
  BY <1>1 DEF ToSet

\* Nor does what an instruction stands for.
LEMMA DecodedGrows ==
    ASSUME NEW f, NEW g, Begins(f, g), NEW li, StoresSomething(li),
           \A v \in ToSet(li.args) : IsValue(v, Len(f.made))
    PROVE  DecodedInstruction(g, li) = DecodedInstruction(f, li)
<1>0. IsSeq(li.args)
  BY DEF StoresSomething
<1>1. /\ Len(li.args) \in Nat /\ DOMAIN li.args = 1..Len(li.args)
      /\ \A k \in 1..Len(li.args) : IsValue(li.args[k], Len(f.made))
      /\ li.args # << >> => /\ 1 \in 1..Len(li.args) /\ Len(li.args) \in 1..Len(li.args)
                            /\ Head(li.args) = li.args[1] /\ Last(li.args) = li.args[Len(li.args)]
                            /\ DOMAIN Tail(li.args) = 1..(Len(li.args) - 1)
                            /\ DOMAIN Front(li.args) = 1..(Len(li.args) - 1)
                            /\ \A k \in 1..(Len(li.args) - 1) :
                                  Tail(li.args)[k] = li.args[k + 1] /\ Front(li.args)[k] = li.args[k]
  BY <1>0, StoredOperandsLemma, EndsLemma
<1>2. \A k \in 1..Len(li.args) :
         /\ Meaning(g, li.args[k]) = Meaning(f, li.args[k])
         /\ \A x : PlaceOf(g, li.args[k], x) <=> PlaceOf(f, li.args[k], x)
  BY <1>1, MeaningGrows
<1>3. ReturnsThroughMemory(g, li) <=> ReturnsThroughMemory(f, li)
  BY <1>1, <1>2 DEF ReturnsThroughMemory, StoresSomething
<1>4. TakesPlace(g, li) <=> TakesPlace(f, li)
  BY <1>1, <1>2 DEF TakesPlace
<1>. DEFINE args == IF ReturnsThroughMemory(f, li) THEN Front(li.args)
                    ELSE IF TakesPlace(f, li) THEN Tail(li.args) ELSE li.args
<1>5. \A k \in DOMAIN args : \E j \in 1..Len(li.args) : args[k] = li.args[j]
  <2>1. CASE ReturnsThroughMemory(f, li)
    <3>1. li.args # << >> /\ args = Front(li.args)
      BY <2>1 DEF ReturnsThroughMemory, StoresSomething
    <3>2. \A k \in 1..(Len(li.args) - 1) : k \in 1..Len(li.args)
      BY <1>1
    <3>. QED
      BY <1>1, <3>1, <3>2
  <2>2. CASE ~ReturnsThroughMemory(f, li) /\ TakesPlace(f, li)
    <3>1. li.args # << >> /\ args = Tail(li.args)
      BY <2>2 DEF TakesPlace
    <3>2. \A k \in 1..(Len(li.args) - 1) : k + 1 \in 1..Len(li.args)
      BY <1>1
    <3>. QED
      BY <1>1, <3>1, <3>2
  <2>3. CASE ~ReturnsThroughMemory(f, li) /\ ~TakesPlace(f, li)
    BY <1>1, <2>3
  <2>. QED
    BY <2>1, <2>2, <2>3
<1>. HIDE DEF args
<1>6. [j \in DOMAIN args |-> Meaning(g, args[j])] = [j \in DOMAIN args |-> Meaning(f, args[j])]
  BY <1>2, <1>5
<1>. DEFINE Target(memory, meanings) ==
                [op |-> IF memory THEN "ret" ELSE li.op, x |-> li.x, args |-> meanings, bbs |-> li.bbs]
<1>7. DecodedInstruction(f, li) =
         IF Artefact(li) THEN << >>
         ELSE <<Target(ReturnsThroughMemory(f, li), [j \in DOMAIN args |-> Meaning(f, args[j])])>>
  BY DEF DecodedInstruction, args
<1>8. DecodedInstruction(g, li) =
         IF Artefact(li) THEN << >>
         ELSE <<Target(ReturnsThroughMemory(f, li), [j \in DOMAIN args |-> Meaning(g, args[j])])>>
  BY <1>3, <1>4 DEF DecodedInstruction, args
<1>. QED
  BY <1>6, <1>7, <1>8

-----------------------------------------------------------------------------
(* What a block stands for.                                                *)

Pieces(f, b) == [k \in DOMAIN f.blocks[b] |-> DecodedInstruction(f, f.made[f.blocks[b][k]])]

\* A block is a sequence, and so is what its instructions stand for.
LEMMA PiecesLemma ==
    ASSUME NEW f, NEW b, NEW m, f.blocks[b] \in Seq(1..m)
    PROVE  /\ Len(f.blocks[b]) \in Nat /\ DOMAIN f.blocks[b] = 1..Len(f.blocks[b])
           /\ \A k \in 1..Len(f.blocks[b]) : f.blocks[b][k] \in 1..m
           /\ \E X : Pieces(f, b) \in Seq(Seq(X))
<1>. DEFINE X == {DecodedInstruction(f, f.made[f.blocks[b][k]])[1] : k \in DOMAIN f.blocks[b]}
<1>1. /\ Len(f.blocks[b]) \in Nat /\ DOMAIN f.blocks[b] = 1..Len(f.blocks[b])
      /\ \A k \in 1..Len(f.blocks[b]) : f.blocks[b][k] \in 1..m
  <2>1. ASSUME NEW Y, NEW s \in Seq(Y)
        PROVE  Len(s) \in Nat /\ DOMAIN s = 1..Len(s) /\ \A k \in 1..Len(s) : s[k] \in Y
    OBVIOUS
  <2>. QED
    BY <2>1
<1>2. ASSUME NEW k \in 1..Len(f.blocks[b])
      PROVE  DecodedInstruction(f, f.made[f.blocks[b][k]]) \in Seq(X)
  <2>1. PICK e : e = DecodedInstruction(f, f.made[f.blocks[b][k]])
    OBVIOUS
  <2>2. e = << >> \/ \E t : e = <<t>>
    BY <2>1 DEF DecodedInstruction
  <2>3. e[1] \in X
    BY <1>1, <2>1
  <2>4. CASE e = << >>
    BY <2>1, <2>4
  <2>5. CASE \E t : e = <<t>>
    <3>1. PICK t : e = <<t>>
      BY <2>5
    <3>2. t \in X
      BY <2>3, <3>1
    <3>. HIDE DEF X
    <3>. QED
      BY <2>1, <3>1, <3>2
  <2>. QED
    BY <2>2, <2>4, <2>5
<1>. HIDE DEF X
<1>3. Pieces(f, b) \in [1..Len(f.blocks[b]) -> Seq(X)]
  BY <1>1, <1>2 DEF Pieces
<1>4. Pieces(f, b) \in Seq(Seq(X))
  BY <1>1, <1>3
<1>. QED
  BY <1>1, <1>4

\* g is f after what stands for code in block b.
Writes(f, g, b, code, nb) ==
    /\ GoodFunction(g, nb) /\ Operates(g) /\ Begins(f, g)
    /\ IsSeq(code)
    /\ \A a \in 1..nb : Decoded(g, a) = IF a = b THEN Decoded(f, a) \o code ELSE Decoded(f, a)

\* What a block stands for is a sequence.
LEMMA DecodedIsSeq ==
    ASSUME NEW f, NEW nb, GoodFunction(f, nb), NEW a \in 1..nb
    PROVE  IsSeq(Decoded(f, a))
<1>1. f.blocks[a] \in Seq(1..Len(f.made))
  BY DEF GoodFunction
<1>2. PICK X : Pieces(f, a) \in Seq(Seq(X))
  BY <1>1, PiecesLemma
<1>3. FlattenSeq(Pieces(f, a)) \in Seq(X)
  <2>1. << >> \in Seq(X)
    OBVIOUS
  <2>. QED
    BY <1>2, <2>1, FlattenAppend
<1>. QED
  BY <1>3 DEF IsSeq, Decoded, Pieces

\* The concatenation of sequences of anything.
LEMMA ConcatLemma ==
    ASSUME NEW r, NEW s, NEW t, IsSeq(r), IsSeq(s), IsSeq(t)
    PROVE  /\ IsSeq(r \o s) /\ (r \o s) \o t = r \o (s \o t)
           /\ r \o << >> = r /\ << >> \o r = r
<1>1. PICK R, S, T : r \in Seq(R) /\ s \in Seq(S) /\ t \in Seq(T)
  BY DEF IsSeq
<1>2. r \in Seq(R \union S \union T) /\ s \in Seq(R \union S \union T) /\ t \in Seq(R \union S \union T)
  BY <1>1
<1>3. PICK U : r \in Seq(U) /\ s \in Seq(U) /\ t \in Seq(U)
  BY <1>2
<1>4. r \o s \in Seq(U)
  BY <1>3
<1>5. (r \o s) \o t = r \o (s \o t)
  BY <1>3
<1>6. r \o << >> = r /\ << >> \o r = r
  BY <1>3
<1>. QED
  BY <1>4, <1>5, <1>6 DEF IsSeq

\* Code after code.
LEMMA WritesAfter ==
    ASSUME NEW nb, NEW f, GoodFunction(f, nb), NEW g, NEW h, NEW b, NEW first, NEW second,
           Writes(f, g, b, first, nb), Writes(g, h, b, second, nb)
    PROVE  Writes(f, h, b, first \o second, nb)
<1>1. Begins(f, h)
  BY DEF Writes, Begins
<1>2. IsSeq(first) /\ IsSeq(second) /\ IsSeq(first \o second)
  BY ConcatLemma DEF Writes
<1>3. ASSUME NEW a \in 1..nb
      PROVE  Decoded(h, a) = IF a = b THEN Decoded(f, a) \o (first \o second) ELSE Decoded(f, a)
  <2>1. (Decoded(f, a) \o first) \o second = Decoded(f, a) \o (first \o second)
    BY <1>2, DecodedIsSeq, ConcatLemma
  <2>. QED
    BY <2>1 DEF Writes
<1>. QED
  BY <1>1, <1>2, <1>3 DEF Writes

\* No code.
LEMMA WritesNothing ==
    ASSUME NEW nb, NEW f, GoodFunction(f, nb), Operates(f), NEW b
    PROVE  Writes(f, f, b, << >>, nb)
<1>1. Begins(f, f)
  BY AppendLemma DEF Begins, GoodFunction
<1>2. IsSeq(<< >>)
  <2>1. << >> \in Seq({})
    OBVIOUS
  <2>. QED
    BY <2>1 DEF IsSeq
<1>3. \A a \in 1..nb : Decoded(f, a) \o << >> = Decoded(f, a)
  BY <1>2, DecodedIsSeq, ConcatLemma
<1>. QED
  BY <1>1, <1>2, <1>3 DEF Writes

\* Sequences of the elements of a set.
LEMMA SeqGrows ==
    ASSUME NEW A, NEW B, A \subseteq B, NEW s \in Seq(A)
    PROVE  s \in Seq(B)
OBVIOUS

\* The elements of a sequence.
LEMMA SeqFacts ==
    ASSUME NEW Y, NEW s \in Seq(Y)
    PROVE  Len(s) \in Nat /\ DOMAIN s = 1..Len(s) /\ \A k \in 1..Len(s) : s[k] \in Y
OBVIOUS

\* What an instruction stands for is a sequence of at most one.
LEMMA DecodedIsOne ==
    ASSUME NEW f, NEW li
    PROVE  \E X : DecodedInstruction(f, li) \in Seq(X)
<1>1. PICK e : e = DecodedInstruction(f, li)
  OBVIOUS
<1>2. e = << >> \/ \E t : e = <<t>>
  BY <1>1 DEF DecodedInstruction
<1>3. CASE e = << >>
  <2>1. << >> \in Seq({})
    OBVIOUS
  <2>. QED
    BY <1>1, <1>3, <2>1
<1>4. CASE \E t : e = <<t>>
  <2>1. PICK t : e = <<t>>
    BY <1>4
  <2>2. <<t>> \in Seq({t})
    OBVIOUS
  <2>. QED
    BY <1>1, <2>1, <2>2
<1>. QED
  BY <1>2, <1>3, <1>4

\* What an instruction stands for does not change as the function grows.
LEMMA DecodedKept ==
    ASSUME NEW f, NEW nb, GoodFunction(f, nb), Operates(f), NEW g, Begins(f, g), NEW id \in 1..Len(f.made)
    PROVE  DecodedInstruction(g, g.made[id]) = DecodedInstruction(f, f.made[id])
<1>1. id \in DOMAIN f.made /\ Len(f.made) \in Nat
  BY AppendLemma DEF GoodFunction
<1>2. StoresSomething(f.made[id]) /\ g.made[id] = f.made[id]
  BY <1>1 DEF Operates, Begins
<1>3. \A v \in ToSet(f.made[id].args) : IsValue(v, Len(f.made))
  BY <1>1 DEF GoodFunction, MadeBefore, IsValue
<1>. QED
  BY <1>2, <1>3, DecodedGrows

\* A block that holds the same instructions stands for the same code.
LEMMA SameBlock ==
    ASSUME NEW f, NEW nb, GoodFunction(f, nb), Operates(f), NEW g, Begins(f, g), NEW a \in 1..nb,
           g.blocks[a] = f.blocks[a]
    PROVE  Decoded(g, a) = Decoded(f, a)
<1>1. f.blocks[a] \in Seq(1..Len(f.made))
  BY DEF GoodFunction
<1>2. \A k \in DOMAIN f.blocks[a] : f.blocks[a][k] \in 1..Len(f.made)
  BY <1>1, SeqFacts
<1>3. Pieces(g, a) = Pieces(f, a)
  BY <1>2, DecodedKept DEF Pieces
<1>. QED
  BY <1>3 DEF Decoded, Pieces

\* An instruction at the end of a block.
LEMMA CreateDecoded ==
    ASSUME NEW f, NEW nb, GoodFunction(f, nb), Operates(f), NEW b \in 1..nb,
           NEW li, li.op # "alloca", StoresSomething(li), \A v \in ToSet(li.args) : IsValue(v, Len(f.made))
    PROVE  Writes(f, Create(f, b, li), b, DecodedInstruction(f, li), nb)
<1>. DEFINE m == Len(f.made)
            g == Create(f, b, li)
            code == f.blocks[b]
<1>1. /\ IsSeq(f.made) /\ m \in Nat /\ DOMAIN f.made = 1..m
      /\ Len(g.made) = m + 1 /\ DOMAIN g.made = 1..(m + 1)
      /\ \A k \in 1..m : g.made[k] = f.made[k]
      /\ g.made[m + 1] = li
  BY AppendLemma DEF GoodFunction, Create
<1>2. /\ f.blocks \in [1..nb -> Seq(1..m)]
      /\ g.blocks = [f.blocks EXCEPT ![b] = Append(@, m + 1)]
  BY DEF GoodFunction, Create
<1>3. GoodFunction(g, nb)
  BY CreateLemma
<1>4. Begins(f, g)
  BY <1>1 DEF Begins
<1>5. Operates(g)
  <2>1. SUFFICES ASSUME NEW id \in 1..(m + 1)
                 PROVE  StoresSomething(g.made[id])
    BY <1>1 DEF Operates
  <2>2. id \in 1..m \/ id = m + 1
    BY <1>1
  <2>. QED
    BY <1>1, <2>2 DEF Operates
<1>. HIDE DEF g
<1>6. DecodedInstruction(g, li) = DecodedInstruction(f, li)
  BY <1>4, DecodedGrows
<1>7. code \in Seq(1..m)
  BY <1>2
<1>8. /\ Len(code) \in Nat /\ DOMAIN code = 1..Len(code)
      /\ \A k \in 1..Len(code) : code[k] \in 1..m
  BY <1>7, SeqFacts
<1>9. /\ g.blocks[b] = Append(code, m + 1)
      /\ \A a \in 1..nb : a # b => g.blocks[a] = f.blocks[a]
  BY <1>2
<1>. HIDE DEF code
<1>10. /\ Len(Append(code, m + 1)) = Len(code) + 1 /\ DOMAIN Append(code, m + 1) = 1..(Len(code) + 1)
       /\ \A k \in 1..Len(code) : Append(code, m + 1)[k] = code[k]
       /\ Append(code, m + 1)[Len(code) + 1] = m + 1
  <2>1. IsSeq(code)
    BY <1>7 DEF IsSeq
  <2>. QED
    BY <2>1, AppendLemma
<1>. DEFINE di == DecodedInstruction(f, li)
<1>11. PICK X : Pieces(f, b) \in Seq(Seq(X)) /\ di \in Seq(X)
  <2>1. PICK X1 : Pieces(f, b) \in Seq(Seq(X1))
    BY <1>7, PiecesLemma DEF code
  <2>2. PICK X2 : di \in Seq(X2)
    BY DecodedIsOne
  <2>3. X1 \subseteq X1 \union X2 /\ X2 \subseteq X1 \union X2
    OBVIOUS
  <2>4. di \in Seq(X1 \union X2)
    BY <2>2, <2>3, SeqGrows
  <2>5. Seq(X1) \subseteq Seq(X1 \union X2)
    BY <2>3, SeqGrows
  <2>6. Pieces(f, b) \in Seq(Seq(X1 \union X2))
    BY <2>1, <2>5, SeqGrows
  <2>. QED
    BY <2>4, <2>6
<1>12. Pieces(g, b) = Append(Pieces(f, b), di)
  <2>1. Pieces(f, b) = [k \in 1..Len(code) |-> DecodedInstruction(f, f.made[code[k]])]
    BY <1>8 DEF Pieces, code
  <2>2. Pieces(g, b) = [k \in 1..(Len(code) + 1) |-> DecodedInstruction(g, g.made[g.blocks[b][k]])]
    BY <1>9, <1>10 DEF Pieces
  <2>3. \A k \in 1..Len(code) :
            DecodedInstruction(g, g.made[g.blocks[b][k]]) = DecodedInstruction(f, f.made[code[k]])
    BY <1>4, <1>8, <1>9, <1>10, DecodedKept
  <2>4. DecodedInstruction(g, g.made[g.blocks[b][Len(code) + 1]]) = di
    BY <1>1, <1>6, <1>9, <1>10 DEF g
  <2>. DEFINE P == Pieces(f, b)
              Q == Pieces(g, b)
  <2>5. /\ P \in Seq(Seq(X)) /\ di \in Seq(X)
        /\ DOMAIN P = 1..Len(code) /\ \A k \in 1..Len(code) : P[k] = DecodedInstruction(f, f.made[code[k]])
        /\ Q = [k \in 1..(Len(code) + 1) |-> Q[k]]
        /\ \A k \in 1..Len(code) : Q[k] = P[k]
        /\ Q[Len(code) + 1] = di
    <3>1. \A k \in 1..Len(code) : k \in 1..(Len(code) + 1)
      BY <1>8
    <3>2. Len(code) + 1 \in 1..(Len(code) + 1)
      BY <1>8
    <3>. QED
      BY <1>11, <2>1, <2>2, <2>3, <2>4, <3>1, <3>2
  <2>. HIDE DEF P, Q, di
  <2>6. Len(P) = Len(code)
    <3>1. Len(P) \in Nat /\ DOMAIN P = 1..Len(P)
      BY <2>5, SeqFacts
    <3>. QED
      BY <1>8, <2>5, <3>1
  <2>7. Append(P, di) = [k \in 1..(Len(P) + 1) |-> IF k = Len(P) + 1 THEN di ELSE P[k]]
    <3>1. Append(P, di) \in Seq(Seq(X)) /\ Len(Append(P, di)) = Len(P) + 1 /\ Len(P) \in Nat
          /\ Append(P, di)[Len(P) + 1] = di /\ \A k \in 1..Len(P) : Append(P, di)[k] = P[k]
      BY <2>5, AppendFacts
    <3>2. PICK R : R = Append(P, di)
      OBVIOUS
    <3>3. R \in Seq(Seq(X)) /\ Len(R) = Len(P) + 1
      BY <3>1, <3>2
    <3>4. R = [k \in 1..(Len(P) + 1) |-> R[k]]
      BY <3>3
    <3>5. \A k \in 1..(Len(P) + 1) : R[k] = IF k = Len(P) + 1 THEN di ELSE P[k]
      BY <3>1, <3>2
    <3>. QED
      BY <3>2, <3>4, <3>5
  <2>8. ASSUME NEW k \in 1..(Len(P) + 1)
        PROVE  Q[k] = IF k = Len(P) + 1 THEN di ELSE P[k]
    <3>1. k = Len(P) + 1 \/ k \in 1..Len(code)
      BY <1>8, <2>6
    <3>2. k \in 1..Len(code) => k # Len(P) + 1
      BY <1>8, <2>6
    <3>. QED
      BY <2>5, <2>6, <3>1, <3>2
  <2>9. Q = Append(P, di)
    BY <2>5, <2>6, <2>7, <2>8
  <2>. QED
    BY <2>9 DEF P, Q
<1>13. Decoded(g, b) = Decoded(f, b) \o di
  <2>. HIDE DEF di
  <2>1. FlattenSeq(Append(Pieces(f, b), di)) = FlattenSeq(Pieces(f, b)) \o di
    BY <1>11, FlattenAppend
  <2>. QED
    BY <1>12, <2>1 DEF Decoded, Pieces
<1>14. \A a \in 1..nb : a # b => Decoded(g, a) = Decoded(f, a)
  BY <1>4, <1>9, SameBlock
<1>15. IsSeq(di)
  BY <1>11 DEF IsSeq
<1>. QED
  BY <1>3, <1>4, <1>5, <1>13, <1>14, <1>15 DEF Writes, g

\* The place of a variable at the front of the first block.
LEMMA AllocaDecoded ==
    ASSUME NEW f, NEW nb, GoodFunction(f, nb), Operates(f), NEW b, NEW x, NEW at
    PROVE  Writes(f, CreateEntryBlockAlloca(f, x, at), b, << >>, nb)
<1>. DEFINE m == Len(f.made)
            li == LI("alloca", x, << >>, << >>, at)
            g == CreateEntryBlockAlloca(f, x, at)
            code == f.blocks[1]
<1>1. /\ IsSeq(f.made) /\ m \in Nat /\ DOMAIN f.made = 1..m
      /\ Len(g.made) = m + 1 /\ DOMAIN g.made = 1..(m + 1)
      /\ \A k \in 1..m : g.made[k] = f.made[k]
      /\ g.made[m + 1] = li
  BY AppendLemma DEF GoodFunction, CreateEntryBlockAlloca
<1>2. /\ f.blocks \in [1..nb -> Seq(1..m)] /\ 1 \in 1..nb
      /\ g.blocks = [f.blocks EXCEPT ![1] = <<m + 1>> \o @]
  BY DEF GoodFunction, CreateEntryBlockAlloca
<1>3. GoodFunction(g, nb)
  BY AllocaLemma
<1>4. Begins(f, g)
  BY <1>1 DEF Begins
<1>0. IsSeq(<< >>)
  <2>1. << >> \in Seq({})
    OBVIOUS
  <2>. QED
    BY <2>1 DEF IsSeq
<1>5. Operates(g)
  <2>1. SUFFICES ASSUME NEW id \in 1..(m + 1)
                 PROVE  StoresSomething(g.made[id])
    BY <1>1 DEF Operates
  <2>2. id \in 1..m \/ id = m + 1
    BY <1>1
  <2>3. StoresSomething(li)
    BY <1>0 DEF StoresSomething, LI
  <2>. QED
    BY <1>1, <2>2, <2>3 DEF Operates
<1>. HIDE DEF g
<1>6. DecodedInstruction(g, g.made[m + 1]) = << >>
  BY <1>1 DEF DecodedInstruction, Artefact, LI
<1>7. code \in Seq(1..m)
  BY <1>2
<1>8. /\ Len(code) \in Nat /\ DOMAIN code = 1..Len(code)
      /\ \A k \in 1..Len(code) : code[k] \in 1..m
  BY <1>7, SeqFacts
<1>9. /\ g.blocks[1] = <<m + 1>> \o code
      /\ \A a \in 1..nb : a # 1 => g.blocks[a] = f.blocks[a]
  BY <1>2
<1>. HIDE DEF code
<1>10. /\ <<m + 1>> \o code \in Seq(Nat)
       /\ Len(<<m + 1>> \o code) = Len(code) + 1
       /\ (<<m + 1>> \o code)[1] = m + 1
       /\ \A k \in 1..Len(code) : (<<m + 1>> \o code)[k + 1] = code[k]
  <2>1. 1..m \subseteq Nat /\ m + 1 \in Nat
    BY <1>1
  <2>2. code \in Seq(Nat)
    BY <1>7, <2>1, SeqGrows
  <2>. QED
    BY <2>1, <2>2, FrontFacts
<1>11. PICK X : Pieces(f, 1) \in Seq(Seq(X))
  BY <1>7, PiecesLemma DEF code
<1>12. Pieces(g, 1) = << << >> >> \o Pieces(f, 1)
  <2>. DEFINE P == Pieces(f, 1)
              Q == Pieces(g, 1)
              R == << << >> >> \o P
  <2>1. /\ P = [k \in 1..Len(code) |-> DecodedInstruction(f, f.made[code[k]])]
    BY <1>8 DEF Pieces, code
  <2>2. DOMAIN g.blocks[1] = 1..(Len(code) + 1)
    <3>1. PICK s : s = <<m + 1>> \o code
      OBVIOUS
    <3>2. s \in Seq(Nat) /\ Len(s) = Len(code) + 1
      BY <1>10, <3>1
    <3>3. DOMAIN s = 1..(Len(code) + 1)
      BY <3>2, SeqFacts
    <3>. QED
      BY <1>9, <3>1, <3>3
  <2>3. Q = [k \in 1..(Len(code) + 1) |-> DecodedInstruction(g, g.made[g.blocks[1][k]])]
    BY <2>2 DEF Pieces
  <2>4. Q[1] = << >>
    <3>1. 1 \in 1..(Len(code) + 1) /\ g.blocks[1][1] = m + 1
      BY <1>8, <1>9, <1>10
    <3>. QED
      BY <1>6, <2>3, <3>1
  <2>5. \A k \in 1..Len(code) : Q[k + 1] = P[k]
    <3>1. SUFFICES ASSUME NEW k \in 1..Len(code)
                   PROVE  Q[k + 1] = P[k]
      OBVIOUS
    <3>2. k + 1 \in 1..(Len(code) + 1) /\ g.blocks[1][k + 1] = code[k] /\ code[k] \in 1..m
      BY <1>8, <1>9, <1>10
    <3>3. DecodedInstruction(g, g.made[code[k]]) = DecodedInstruction(f, f.made[code[k]])
      BY <1>4, <3>2, DecodedKept
    <3>4. Q[k + 1] = DecodedInstruction(g, g.made[g.blocks[1][k + 1]])
      BY <2>3, <3>2
    <3>. QED
      BY <2>1, <3>2, <3>3, <3>4
  <2>6. P \in Seq(Seq(X)) /\ Len(P) = Len(code)
    <3>1. P \in Seq(Seq(X))
      BY <1>11
    <3>2. Len(P) \in Nat /\ DOMAIN P = 1..Len(P)
      BY <3>1, SeqFacts
    <3>3. DOMAIN P = 1..Len(code)
      BY <2>1
    <3>. QED
      BY <1>8, <3>1, <3>2, <3>3
  <2>7. /\ R \in Seq(Seq(X)) /\ Len(R) = Len(P) + 1
        /\ R[1] = << >> /\ \A k \in 1..Len(P) : R[k + 1] = P[k]
    <3>1. << >> \in Seq(X)
      OBVIOUS
    <3>. HIDE DEF P
    <3>. QED
      BY <2>6, <3>1, FrontFacts
  <2>8. Q = [k \in 1..(Len(code) + 1) |-> Q[k]]
    BY <2>3
  <2>. HIDE DEF P, Q, R
  <2>9. R = [k \in 1..(Len(code) + 1) |-> R[k]]
    BY <2>6, <2>7
  <2>10. ASSUME NEW k \in 1..(Len(code) + 1)
         PROVE  Q[k] = R[k]
    <3>1. CASE k = 1
      BY <2>4, <2>7, <3>1
    <3>2. CASE k # 1
      <4>1. k - 1 \in 1..Len(code) /\ (k - 1) + 1 = k
        BY <1>8, <3>2
      <4>. QED
        BY <2>5, <2>6, <2>7, <4>1
    <3>. QED
      BY <3>1, <3>2
  <2>11. Q = R
    BY <2>8, <2>9, <2>10
  <2>. QED
    BY <2>11 DEF P, Q, R
<1>13. Decoded(g, 1) = Decoded(f, 1)
  <2>1. FlattenSeq(<< << >> >> \o Pieces(f, 1)) = FlattenSeq(Pieces(f, 1))
    BY <1>11, FlattenEmptyFront
  <2>. QED
    BY <1>12, <2>1 DEF Decoded, Pieces
<1>14. \A a \in 1..nb : Decoded(g, a) = Decoded(f, a)
  BY <1>4, <1>9, <1>13, SameBlock
<1>15. \A a \in 1..nb : Decoded(f, a) \o << >> = Decoded(f, a)
  BY <1>0, DecodedIsSeq, ConcatLemma
<1>. QED
  BY <1>0, <1>3, <1>4, <1>5, <1>14, <1>15 DEF Writes, g

\* The empty sequence.
LEMMA EmptyIsSeq == IsSeq(<< >>)
<1>1. << >> \in Seq({})
  OBVIOUS
<1>. QED
  BY <1>1 DEF IsSeq

\* No operand is a place that the backend makes for itself.
Ordinary(f, v) == \A x \in Reserved : ~PlaceOf(f, v, x)

\* The value of an instruction of f, generated for the CIR instruction at p.
LEMMA MadeMeans ==
    ASSUME NEW f, NEW nb, GoodFunction(f, nb), NEW b, NEW li
    PROVE  LET g == Create(f, b, li)
           IN  /\ \A p \in Nat : li.at = p => Meaning(g, Made(g)) = Promise!Result(p)
               /\ \A x : PlaceOf(g, Made(g), x) <=> li.op = "alloca" /\ li.x = x
<1>. DEFINE g == Create(f, b, li)
<1>1. Len(g.made) = Len(f.made) + 1 /\ g.made[Len(f.made) + 1] = li
  BY AppendLemma DEF GoodFunction, Create
<1>2. Made(g) = Value("inst", "", Len(g.made)) /\ g.made[Made(g).p] = li /\ Made(g).k = "inst"
  BY <1>1 DEF Made, Value
<1>3. Made(g) # null
  <2>1. null.k = "null"
    BY DEF null, Value
  <2>. HIDE DEF g
  <2>. QED
    BY <1>2, <2>1
<1>4. \A p \in Nat : p # -1
  OBVIOUS
<1>. HIDE DEF g
<1>5. ASSUME NEW p \in Nat, li.at = p
      PROVE  Meaning(g, Made(g)) = Promise!Result(p)
  BY <1>2, <1>3, <1>4, <1>5 DEF Meaning, Promise!Result
<1>6. \A x : PlaceOf(g, Made(g), x) <=> li.op = "alloca" /\ li.x = x
  BY <1>2 DEF PlaceOf
<1>. QED
  BY <1>5, <1>6 DEF g

\* The same of an alloca.
LEMMA PlaceMeans ==
    ASSUME NEW f, NEW nb, GoodFunction(f, nb), NEW y, NEW at
    PROVE  LET g == CreateEntryBlockAlloca(f, y, at)
           IN  /\ Made(g).p = Len(g.made) /\ g.made[Made(g).p].at = at
               /\ at \in Nat => Meaning(g, Made(g)) = Promise!Result(at)
               /\ \A x : PlaceOf(g, Made(g), x) <=> x = y
<1>. DEFINE g == CreateEntryBlockAlloca(f, y, at)
            li == LI("alloca", y, << >>, << >>, at)
<1>1. Len(g.made) = Len(f.made) + 1 /\ g.made[Len(f.made) + 1] = li
  BY AppendLemma DEF GoodFunction, CreateEntryBlockAlloca
<1>2. /\ Made(g) = Value("inst", "", Len(g.made)) /\ Made(g).p = Len(g.made)
      /\ g.made[Made(g).p] = li /\ Made(g).k = "inst"
  BY <1>1 DEF Made, Value
<1>3. Made(g) # null
  <2>1. null.k = "null"
    BY DEF null, Value
  <2>. HIDE DEF g
  <2>. QED
    BY <1>2, <2>1
<1>4. at \in Nat => at # -1
  OBVIOUS
<1>5. li.at = at /\ li.op = "alloca" /\ li.x = y
  BY DEF LI
<1>. HIDE DEF g, li
<1>6. ASSUME at \in Nat
      PROVE  Meaning(g, Made(g)) = Promise!Result(at)
  BY <1>2, <1>3, <1>4, <1>5, <1>6 DEF Meaning, Promise!Result
<1>7. \A x : PlaceOf(g, Made(g), x) <=> x = y
  BY <1>2, <1>5 DEF PlaceOf
<1>. QED
  BY <1>2, <1>5, <1>6, <1>7 DEF g

Meanings(f, args) == [k \in DOMAIN args |-> Meaning(f, args[k])]

\* What an instruction stands for when its operands are ordinary.
LEMMA OrdinaryDecoded ==
    ASSUME NEW f, NEW op, op \notin {"alloca", "memcpy"}, NEW x, op = "load" => x # "sret",
           NEW args, IsSeq(args), op \in {"store", "ret"} => args # << >>,
           \A k \in DOMAIN args : Ordinary(f, args[k]),
           NEW bbs, NEW at \in Nat
    PROVE  DecodedInstruction(f, LI(op, x, args, bbs, at)) =
               <<Promise!Target(op, x, Meanings(f, args), bbs)>>
<1>. DEFINE li == LI(op, x, args, bbs, at)
<1>1. li.op = op /\ li.x = x /\ li.args = args /\ li.bbs = bbs /\ li.at = at /\ at # -1
  BY DEF LI
<1>. HIDE DEF li
<1>2. ~Artefact(li)
  BY <1>1 DEF Artefact
<1>3. args # << >> => Ordinary(f, Head(args)) /\ Ordinary(f, Last(args))
  <2>1. DOMAIN args = 1..Len(args)
    BY AppendLemma
  <2>. QED
    BY <2>1, EndsLemma
<1>4. ~ReturnsThroughMemory(f, li) /\ ~TakesPlace(f, li)
  BY <1>1, <1>3 DEF ReturnsThroughMemory, TakesPlace, Ordinary, Reserved
<1>. QED
  BY <1>1, <1>2, <1>4 DEF DecodedInstruction, Promise!Target, li, Meanings

\* r is the translation of an instruction at position p: it writes code in block
\* b of f, and its value means meaning.
Lowers(f, r, b, code, meaning, nb) ==
    /\ Writes(f, r.f, b, code, nb)
    /\ Meaning(r.f, r.v) = meaning
    /\ Ordinary(r.f, r.v) /\ IsValue(r.v, Len(r.f.made))

Blocks(c) == [k \in DOMAIN c.bbs |-> get_function_BB(c.bbs[k])]

\* An instruction with ordinary operands.
LEMMA PlainDecoded ==
    ASSUME NEW f, NEW nb, GoodFunction(f, nb), Operates(f), NEW b \in 1..nb, NEW c,
           NEW op, op \notin {"alloca", "memcpy"}, NEW x, op = "load" => x # "sret",
           NEW args, AllMade(args, Len(f.made)), op \in {"store", "ret"} => args # << >>,
           \A k \in DOMAIN args : Ordinary(f, args[k]),
           Len(functionValues) \in Nat
    PROVE  Lowers(f, Plain(f, b, c, op, x, args), b, <<Promise!Target(op, x, Meanings(f, args), Blocks(c))>>,
                  Promise!Result(Len(functionValues)), nb)
<1>. DEFINE li == LI(op, x, args, Blocks(c), Len(functionValues))
            g == Create(f, b, li)
<1>0. Plain(f, b, c, op, x, args) = [f |-> g, v |-> Made(g), allocas |-> functionVarsAllocas]
  BY DEF Plain, Blocks
<1>1. li.op = op /\ li.x = x /\ li.args = args /\ li.at = Len(functionValues)
  BY DEF LI
<1>2. StoresSomething(li)
  BY <1>1 DEF StoresSomething, AllMade
<1>3. \A v \in ToSet(li.args) : IsValue(v, Len(f.made))
  BY <1>1, SameOperands
<1>4. DecodedInstruction(f, li) = <<Promise!Target(op, x, Meanings(f, args), Blocks(c))>>
  BY OrdinaryDecoded DEF AllMade
<1>. HIDE DEF li
<1>5. Writes(f, g, b, DecodedInstruction(f, li), nb)
  BY <1>1, <1>2, <1>3, CreateDecoded
<1>6. Meaning(g, Made(g)) = Promise!Result(Len(functionValues)) /\ \A y : ~PlaceOf(g, Made(g), y)
  BY <1>1, MadeMeans
<1>7. IsValue(Made(g), Len(g.made))
  BY <1>1, <1>3, CreateLemma
<1>. HIDE DEF g
<1>. QED
  BY <1>0, <1>4, <1>5, <1>6, <1>7 DEF Lowers, Ordinary

\* The tables of most translations.
LEMMA SameAllocas ==
    ASSUME NEW f, NEW b, NEW c
    PROVE  /\ \A op, x, args : Plain(f, b, c, op, x, args).allocas = functionVarsAllocas
           /\ \A v : NoCode(f, v).allocas = functionVarsAllocas
BY DEF Plain, NoCode

\* A value without code.
LEMMA NoCodeDecoded ==
    ASSUME NEW f, NEW nb, GoodFunction(f, nb), Operates(f), NEW b, NEW v, Ordinary(f, v), IsValue(v, Len(f.made))
    PROVE  Lowers(f, NoCode(f, v), b, << >>, Meaning(f, v), nb)
<1>1. Writes(f, f, b, << >>, nb)
  BY WritesNothing
<1>. QED
  BY <1>1 DEF Lowers, NoCode

\* What a value that is no instruction denotes.
LEMMA ValueMeans ==
    ASSUME NEW f, NEW k, NEW x, k # "inst", k # "null"
    PROVE  /\ Meaning(f, Value(k, x, 0)) = Promise!Named(k, x)
           /\ Ordinary(f, Value(k, x, 0)) /\ \A m : IsValue(Value(k, x, 0), m)
BY DEF IsValue, Meaning, Value, null, Promise!Named, Ordinary, PlaceOf

\* What a constant denotes.
LEMMA LiteralMeans ==
    ASSUME NEW f, NEW ty, NEW x
    PROVE  /\ Meaning(f, Literal(ty, x)) = Promise!Literal(ty, x)
           /\ Ordinary(f, Literal(ty, x)) /\ \A m : IsValue(Literal(ty, x), m)
<1>1. Literal(ty, x).k = "const" /\ null.k = "null"
  BY DEF Literal, null, Value
<1>2. Literal(ty, x) # null
  BY <1>1
<1>3. Meaning(f, Literal(ty, x)) = Literal(ty, x)
  BY <1>1, <1>2 DEF Meaning
<1>4. Literal(ty, x) = Promise!Literal(ty, x)
  BY DEF Literal, Promise!Literal
<1>. QED
  BY <1>1, <1>3, <1>4 DEF IsValue, Ordinary, PlaceOf

\* The null pointer denotes nothing.
LEMMA NullMeans ==
    ASSUME NEW f
    PROVE  Meaning(f, null) = Promise!Nothing /\ Ordinary(f, null) /\ \A m : IsValue(null, m)
BY DEF IsValue, Meaning, Value, null, Promise!Named, Promise!Nothing, Ordinary, PlaceOf

\* An instruction that has no value.
LEMMA PushingDecoded ==
    ASSUME NEW f, NEW r, NEW b, NEW code, NEW m, NEW nb, Lowers(f, r, b, code, m, nb),
           r = [f |-> r.f, v |-> r.v, allocas |-> r.allocas]
    PROVE  Lowers(f, Pushing(r, null), b, code, Promise!Nothing, nb)
<1>1. Pushing(r, null) = [f |-> r.f, v |-> null, allocas |-> r.allocas]
  BY DEF Pushing
<1>. QED
  BY <1>1, NullMeans DEF Lowers

\* The blocks an instruction names are blocks of the function.
LEMMA BlocksNamed ==
    ASSUME NEW c \in CIRInstruction, ~Impossible(c)
    PROVE  Blocks(c) = c.bbs
<1>1. c.bbs \in Seq(Int)
  BY DEF CIRInstruction
<1>2. \A k \in DOMAIN c.bbs : get_function_BB(c.bbs[k]) = c.bbs[k]
  BY DEF Impossible, get_function_BB, ToSet
<1>3. c.bbs = [k \in DOMAIN c.bbs |-> c.bbs[k]]
  BY <1>1
<1>. QED
  BY <1>2, <1>3 DEF Blocks

-----------------------------------------------------------------------------
(* Conversions.                                                            *)

\* The conversion of numbers and pointers is the one that is promised.
LEMMA ConvertOpLemma ==
    ASSUME NEW from, NEW to,
           to # "void" => /\ {from, to} \intersect Structs = {}
                          /\ Decimal(from) \/ Signed(from) \/ Unsigned(from) \/ from = "ptr"
    PROVE  ConvertOp(from, to) = Promise!Conversion(from, to)
<1>1. CASE to = "void"
  BY <1>1 DEF ConvertOp, Promise!Conversion
<1>2. CASE to # "void"
  <2>1. ~is_just_struct(from) /\ ~is_just_struct(to)
    BY <1>2 DEF is_just_struct
  <2>2. CASE from = "ptr"
    BY <1>2, <2>1, <2>2 DEF ConvertOp, Promise!Conversion
  <2>3. CASE from # "ptr" /\ to = "ptr"
    BY <1>2, <2>1, <2>3 DEF ConvertOp, Promise!Conversion
  <2>4. CASE from # "ptr" /\ to # "ptr" /\ Decimal(from)
    BY <1>2, <2>1, <2>4 DEF ConvertOp, Promise!Conversion, Decimal, Promise!Decimal, Signed, Promise!Signed,
         Unsigned, Promise!Unsigned
  <2>5. CASE from # "ptr" /\ to # "ptr" /\ ~Decimal(from) /\ Decimal(to)
    BY <1>2, <2>1, <2>5 DEF ConvertOp, Promise!Conversion, Decimal, Promise!Decimal, Signed, Promise!Signed
  <2>6. CASE from # "ptr" /\ to # "ptr" /\ ~Decimal(from) /\ ~Decimal(to)
    <3>1. Signed(from) \/ Unsigned(from)
      BY <1>2, <2>6
    <3>2. /\ get_number_of_bits(from) = Promise!Bits(from) /\ get_number_of_bits(to) = Promise!Bits(to)
          /\ Promise!Bits(from) \in {1, 8, 32, 64} /\ Promise!Bits(to) \in {-1, 1, 8, 32, 64}
      BY <3>1 DEF get_number_of_bits, Promise!Bits, Signed, Unsigned
    <3>. QED
      BY <1>2, <2>1, <2>6, <3>2 DEF ConvertOp, Promise!Conversion, Decimal, Promise!Decimal, Signed, Promise!Signed
  <2>. QED
    BY <2>2, <2>3, <2>4, <2>5, <2>6
<1>. QED
  BY <1>1, <1>2

\* One operand.
LEMMA OneMeaning ==
    ASSUME NEW f, NEW v, NEW args, args = <<v>>
    PROVE  /\ IsSeq(args) /\ args # << >>
           /\ Meanings(f, args) = <<Meaning(f, v)>>
           /\ \A m : IsValue(v, m) => AllMade(args, m)
           /\ Ordinary(f, v) => \A k \in DOMAIN args : Ordinary(f, args[k])
<1>1. <<v>> \in Seq({v})
  OBVIOUS
<1>2. DOMAIN <<v>> = {1} /\ <<v>>[1] = v /\ <<v>> # << >>
  OBVIOUS
<1>3. [k \in {1} |-> Meaning(f, <<v>>[k])] = <<Meaning(f, v)>>
  OBVIOUS
<1>. QED
  BY <1>1, <1>2, <1>3 DEF AllMade, IsSeq, Meanings

\* Two operands.
LEMMA TwoMeanings ==
    ASSUME NEW f, NEW v, NEW w, NEW args, args = <<v, w>>
    PROVE  /\ IsSeq(args) /\ args # << >> /\ Last(args) = w /\ Front(args) = <<v>>
           /\ Meanings(f, args) = <<Meaning(f, v), Meaning(f, w)>>
           /\ \A m : IsValue(v, m) /\ IsValue(w, m) => AllMade(args, m)
           /\ Ordinary(f, v) /\ Ordinary(f, w) => \A k \in DOMAIN args : Ordinary(f, args[k])
<1>1. <<v, w>> \in Seq({v, w})
  OBVIOUS
<1>2. DOMAIN <<v, w>> = {1, 2} /\ <<v, w>>[1] = v /\ <<v, w>>[2] = w
  OBVIOUS
<1>3. [k \in {1, 2} |-> Meaning(f, <<v, w>>[k])] = <<Meaning(f, v), Meaning(f, w)>>
  OBVIOUS
<1>4. args \in Seq({v, w}) /\ Len(args) = 2 /\ args[1] = v /\ args[2] = w
  BY <1>1, <1>2
<1>5. Last(args) = w
  BY <1>4 DEF Last
<1>6. Front(args) = <<v>>
  <2>1. Front(args) \in Seq({v, w}) /\ Len(Front(args)) = 1 /\ Front(args)[1] = v
    BY <1>4 DEF Front
  <2>2. <<v>> \in Seq({v, w}) /\ Len(<<v>>) = 1 /\ <<v>>[1] = v
    OBVIOUS
  <2>. QED
    BY <2>1, <2>2
<1>. QED
  BY <1>1, <1>2, <1>3, <1>4, <1>5, <1>6 DEF AllMade, IsSeq, Meanings

\* Two instructions one after the other.
LEMMA PairLemma ==
    ASSUME NEW t, NEW u
    PROVE  <<t>> \o <<u>> = <<t, u>>
<1>1. PICK r, s : r = <<t>> /\ s = <<u>>
  OBVIOUS
<1>2. r \in Seq({t, u}) /\ s \in Seq({t, u}) /\ Len(r) = 1 /\ Len(s) = 1 /\ r[1] = t /\ s[1] = u
  BY <1>1
<1>3. r \o s \in Seq({t, u}) /\ Len(r \o s) = 2 /\ (r \o s)[1] = t /\ (r \o s)[2] = u
  <2>1. t \in {t, u}
    OBVIOUS
  <2>2. PICK Y : r \in Seq(Y) /\ s \in Seq(Y) /\ Y = {t, u} /\ t \in Y
    BY <1>2, <2>1
  <2>3. /\ <<t>> \o s \in Seq(Y) /\ Len(s) \in Nat /\ Len(<<t>> \o s) = Len(s) + 1
        /\ (<<t>> \o s)[1] = t /\ \A k \in 1..Len(s) : (<<t>> \o s)[k + 1] = s[k]
    BY <2>2, FrontFacts
  <2>4. (r \o s)[1 + 1] = s[1]
    BY <1>1, <1>2, <2>3
  <2>. QED
    BY <1>1, <1>2, <2>2, <2>3, <2>4
<1>4. PICK p : p = <<t, u>>
  OBVIOUS
<1>5. p \in Seq({t, u}) /\ Len(p) = 2 /\ p[1] = t /\ p[2] = u
  BY <1>4
<1>6. r \o s = p
  BY <1>3, <1>5
<1>. QED
  BY <1>1, <1>4, <1>6

\* An instruction with one ordinary operand.
LEMMA PlainOneDecoded ==
    ASSUME NEW f, NEW nb, GoodFunction(f, nb), Operates(f), NEW b \in 1..nb, NEW c,
           NEW op, op \notin {"alloca", "memcpy"}, NEW x, op = "load" => x # "sret",
           NEW v, IsValue(v, Len(f.made)), Ordinary(f, v), Len(functionValues) \in Nat
    PROVE  Lowers(f, Plain(f, b, c, op, x, <<v>>), b, <<Promise!Target(op, x, <<Meaning(f, v)>>, Blocks(c))>>,
                  Promise!Result(Len(functionValues)), nb)
<1>1. PICK args : args = <<v>>
  OBVIOUS
<1>2. /\ args # << >> /\ AllMade(args, Len(f.made)) /\ \A k \in DOMAIN args : Ordinary(f, args[k])
      /\ Meanings(f, args) = <<Meaning(f, v)>>
  BY <1>1, OneMeaning
<1>3. Lowers(f, Plain(f, b, c, op, x, args), b, <<Promise!Target(op, x, Meanings(f, args), Blocks(c))>>,
             Promise!Result(Len(functionValues)), nb)
  BY <1>2, PlainDecoded
<1>. QED
  BY <1>1, <1>2, <1>3

\* A store.
LEMMA PlainTwoDecoded ==
    ASSUME NEW f, NEW nb, GoodFunction(f, nb), Operates(f), NEW b \in 1..nb, NEW c,
           NEW v, IsValue(v, Len(f.made)), Ordinary(f, v),
           NEW w, IsValue(w, Len(f.made)), Ordinary(f, w), Len(functionValues) \in Nat
    PROVE  Lowers(f, Plain(f, b, c, "store", "", <<v, w>>), b,
                  <<Promise!Target("store", "", <<Meaning(f, v), Meaning(f, w)>>, Blocks(c))>>,
                  Promise!Result(Len(functionValues)), nb)
<1>1. PICK args : args = <<v, w>>
  OBVIOUS
<1>2. /\ args # << >> /\ AllMade(args, Len(f.made)) /\ \A k \in DOMAIN args : Ordinary(f, args[k])
      /\ Meanings(f, args) = <<Meaning(f, v), Meaning(f, w)>>
  BY <1>1, TwoMeanings
<1>3. Lowers(f, Plain(f, b, c, "store", "", args), b, <<Promise!Target("store", "", Meanings(f, args), Blocks(c))>>,
             Promise!Result(Len(functionValues)), nb)
  BY <1>2, PlainDecoded
<1>. QED
  BY <1>1, <1>2, <1>3

\* Values keep their meaning as the function grows.
LEMMA OrdinaryGrows ==
    ASSUME NEW f, NEW g, Begins(f, g), NEW v, IsValue(v, Len(f.made)), Ordinary(f, v)
    PROVE  Ordinary(g, v) /\ Meaning(g, v) = Meaning(f, v) /\ IsValue(v, Len(g.made))
<1>1. Len(f.made) \in Nat /\ Len(g.made) \in Nat /\ Len(f.made) <= Len(g.made)
  BY DEF Begins
<1>. QED
  BY <1>1, MeaningGrows, IsValueGrows DEF Ordinary

\* A call that is given the place of its result first.
LEMMA CalledDecoded ==
    ASSUME NEW f, NEW x, NEW place, PlaceOf(f, place, "sret"), NEW args, IsSeq(args), NEW bbs, NEW at \in Nat
    PROVE  DecodedInstruction(f, LI("call", x, <<place>> \o args, bbs, at)) =
               <<Promise!Target("call", x, Meanings(f, args), bbs)>>
<1>1. PICK S : args \in Seq(S)
  BY DEF IsSeq
<1>2. args \in Seq(S \union {place}) /\ place \in S \union {place}
  <2>1. S \subseteq S \union {place}
    OBVIOUS
  <2>. QED
    BY <1>1, <2>1, SeqGrows
<1>3. PICK T : args \in Seq(T) /\ place \in T
  BY <1>2
<1>. DEFINE all == <<place>> \o args
            li == LI("call", x, all, bbs, at)
<1>4. all # << >> /\ Head(all) = place /\ Tail(all) = args
  <2>1. <<place>> \o args \in Seq(T) /\ Len(args) \in Nat /\ Len(<<place>> \o args) = Len(args) + 1
        /\ (<<place>> \o args)[1] = place /\ \A k \in 1..Len(args) : (<<place>> \o args)[k + 1] = args[k]
    BY <1>3, FrontFacts
  <2>2. PICK s : s = <<place>> \o args
    OBVIOUS
  <2>3. s \in Seq(T) /\ Len(s) = Len(args) + 1 /\ s[1] = place /\ \A k \in 1..Len(args) : s[k + 1] = args[k]
    BY <2>1, <2>2
  <2>4. s # << >> /\ Head(s) = place
    BY <2>1, <2>3
  <2>5. Tail(s) \in Seq(T) /\ Len(Tail(s)) = Len(args) /\ \A k \in 1..Len(args) : Tail(s)[k] = args[k]
    BY <2>1, <2>3
  <2>6. Tail(s) = args
    BY <1>3, <2>5
  <2>. QED
    BY <2>2, <2>4, <2>6
<1>5. li.op = "call" /\ li.x = x /\ li.args = all /\ li.bbs = bbs /\ li.at = at /\ at # -1
  BY DEF LI
<1>. HIDE DEF li, all
<1>6. ~Artefact(li) /\ ~ReturnsThroughMemory(f, li) /\ TakesPlace(f, li)
  BY <1>4, <1>5 DEF Artefact, ReturnsThroughMemory, TakesPlace
<1>. QED
  BY <1>4, <1>5, <1>6 DEF DecodedInstruction, Promise!Target, li, all, Meanings

\* A single instruction is a sequence.
LEMMA OneConcat ==
    ASSUME NEW t
    PROVE  IsSeq(<<t>>)
<1>1. <<t>> \in Seq({t})
  OBVIOUS
<1>. QED
  BY <1>1 DEF IsSeq

\* A call, through memory or not, and the unreachable after one that never returns.
LEMMA CallDecoded ==
    ASSUME NEW f, NEW nb, GoodFunction(f, nb), Operates(f), NEW b \in 1..nb, NEW c,
           NEW args, AllMade(args, Len(f.made)), \A k \in DOMAIN args : Ordinary(f, args[k]),
           AllocasMade(functionVarsAllocas, Len(f.made)), Len(functionValues) \in Nat
    PROVE  LET r == CallInstruction(f, b, c, args)
               means == Meanings(f, args)
           IN  /\ Lowers(f, r, b, <<Promise!Target("call", c.x, means, Blocks(c))>>
                                  \o IF c.ty = "never" THEN <<Promise!Target("unreachable", "", << >>, << >>)>> ELSE << >>,
                         Promise!Result(Len(functionValues)), nb)
               /\ r.allocas = functionVarsAllocas
<1>. DEFINE sret == has_sret(c.ty)
            at == Len(functionValues)
            g == IF sret THEN CreateEntryBlockAlloca(f, "sret", at) ELSE f
            all == (IF sret THEN <<Made(g)>> ELSE << >>) \o args
            called == Plain(g, b, c, "call", c.x, all)
            loaded == IF sret THEN Plain(called.f, b, c, "load", "sret", <<Made(g)>>) ELSE called
            left == Create(loaded.f, b, LI("unreachable", "", << >>, << >>, at))
            means == Meanings(f, args)
            call == <<Promise!Target("call", c.x, means, Blocks(c))>>
            end == <<Promise!Target("unreachable", "", << >>, << >>)>>
<1>0. IsSeq(args) /\ IsSeq(call) /\ IsSeq(end)
  BY OneConcat DEF AllMade
<1>1. CallInstruction(f, b, c, args) = IF c.ty # "never" THEN loaded ELSE [loaded EXCEPT !.f = left]
  BY DEF CallInstruction
<1>. HIDE DEF end
<1>2. /\ Lowers(f, loaded, b, call, Promise!Result(at), nb)
      /\ loaded = [f |-> loaded.f, v |-> loaded.v, allocas |-> functionVarsAllocas]
  <2>. HIDE DEF sret
  <2>1. CASE ~sret
    <3>1. all = args /\ g = f /\ loaded = called
      BY <1>0, <2>1, ConcatLemma, EmptyIsSeq
    <3>2. /\ Lowers(f, Plain(f, b, c, "call", c.x, args), b, call, Promise!Result(at), nb)
      BY PlainDecoded
    <3>3. Plain(f, b, c, "call", c.x, args) = [f |-> Plain(f, b, c, "call", c.x, args).f, v |-> Plain(f, b, c, "call", c.x, args).v,
                                              allocas |-> functionVarsAllocas]
      BY DEF Plain
    <3>. QED
      BY <3>1, <3>2, <3>3
  <2>2. CASE sret
    <3>1. g = CreateEntryBlockAlloca(f, "sret", at) /\ all = <<Made(g)>> \o args
          /\ loaded = Plain(called.f, b, c, "load", "sret", <<Made(g)>>)
      BY <2>2
    <3>2. Writes(f, g, b, << >>, nb) /\ IsValue(Made(g), Len(g.made)) /\ PlaceOf(g, Made(g), "sret")
      BY <3>1, AllocaDecoded, AllocaLemma, PlaceMeans
    <3>. DEFINE li == LI("call", c.x, all, Blocks(c), at)
                h == Create(g, b, li)
    <3>3. called = [f |-> h, v |-> Made(h), allocas |-> functionVarsAllocas]
      BY DEF Plain, Blocks
    <3>. HIDE DEF g
    <3>4. GoodFunction(g, nb) /\ Operates(g) /\ Begins(f, g) /\ Len(f.made) \in Nat /\ Len(g.made) \in Nat
      BY <3>2 DEF Writes, Begins
    <3>5. AllMade(args, Len(g.made))
      BY <3>4, AllMadeGrows DEF Begins
    <3>6. \A v \in ToSet(all) : IsValue(v, Len(g.made))
      BY <3>1, <3>2, <3>5, OneMore
    <3>7. StoresSomething(li) /\ li.op # "alloca" /\ li.args = all /\ li.op = "call"
      <4>1. IsSeq(<<Made(g)>> \o args)
        BY <1>0, ConcatLemma, OneConcat
      <4>. QED
        BY <3>1, <4>1 DEF StoresSomething, LI
    <3>8. DecodedInstruction(g, li) = call
      <4>1. DecodedInstruction(g, li) = <<Promise!Target("call", c.x, Meanings(g, args), Blocks(c))>>
        BY <1>0, <3>1, <3>2, CalledDecoded
      <4>2. \A k \in DOMAIN args : Meaning(g, args[k]) = Meaning(f, args[k])
        BY <3>4, MeaningGrows DEF AllMade
      <4>. QED
        BY <4>1, <4>2 DEF Meanings
    <3>. HIDE DEF li, all, call
    <3>9. Writes(g, h, b, call, nb) /\ Made(h) = Made(h)
      BY <3>4, <3>6, <3>7, <3>8, CreateDecoded
    <3>10. Writes(f, h, b, call, nb)
      <4>1. Writes(f, h, b, << >> \o call, nb)
        BY <3>2, <3>9, WritesAfter
      <4>. QED
        BY <1>0, <4>1, ConcatLemma, EmptyIsSeq
    <3>. DEFINE lo == LI("load", "sret", <<Made(g)>>, Blocks(c), at)
                k == Create(h, b, lo)
    <3>11. called.f = h
      BY <3>3
    <3>. HIDE DEF called, h
    <3>12. loaded = [f |-> k, v |-> Made(k), allocas |-> functionVarsAllocas]
      BY <3>1, <3>11 DEF Plain, Blocks
    <3>13. GoodFunction(h, nb) /\ Operates(h) /\ IsValue(Made(g), Len(h.made))
      BY <3>2, <3>4, <3>9, IsValueGrows DEF Writes, Begins
    <3>14. StoresSomething(lo) /\ lo.op # "alloca" /\ lo.args = <<Made(g)>> /\ lo.at = at
      BY OneConcat DEF StoresSomething, LI
    <3>15. DecodedInstruction(h, lo) = << >>
      BY DEF DecodedInstruction, Artefact, LI
    <3>. HIDE DEF lo
    <3>16. \A v \in ToSet(lo.args) : IsValue(v, Len(h.made))
      BY <3>13, <3>14 DEF ToSet
    <3>17. Writes(h, k, b, << >>, nb) /\ IsValue(Made(k), Len(k.made))
      BY <3>13, <3>14, <3>15, <3>16, CreateDecoded, CreateLemma
    <3>18. Writes(f, k, b, call, nb)
      <4>1. Writes(f, k, b, call \o << >>, nb)
        BY <3>10, <3>17, WritesAfter
      <4>. QED
        BY <1>0, <4>1, ConcatLemma, EmptyIsSeq
    <3>19. Meaning(k, Made(k)) = Promise!Result(at) /\ Ordinary(k, Made(k))
      BY <3>13, <3>14, MadeMeans DEF Ordinary
    <3>. HIDE DEF k
    <3>. QED
      BY <3>12, <3>17, <3>18, <3>19 DEF Lowers
  <2>. QED
    BY <2>1, <2>2
<1>. HIDE DEF loaded, call
<1>3. CASE c.ty # "never"
  <2>1. call \o << >> = call
    BY <1>0, ConcatLemma, EmptyIsSeq
  <2>. QED
    BY <1>1, <1>2, <1>3, <2>1 DEF call
<1>4. CASE c.ty = "never"
  <2>. DEFINE li == LI("unreachable", "", << >>, << >>, at)
  <2>1. GoodFunction(loaded.f, nb) /\ Operates(loaded.f)
    BY <1>2 DEF Lowers, Writes
  <2>2. StoresSomething(li) /\ li.op # "alloca" /\ li.args = << >>
    BY EmptyIsSeq DEF StoresSomething, LI
  <2>3. DecodedInstruction(loaded.f, li) = end
    <3>1. \A k \in DOMAIN << >> : Ordinary(loaded.f, << >>[k])
      OBVIOUS
    <3>2. Meanings(loaded.f, << >>) = << >>
      BY DEF Meanings
    <3>3. DecodedInstruction(loaded.f, li) =
             <<Promise!Target("unreachable", "", Meanings(loaded.f, << >>), << >>)>>
      <4>1. PICK o, x, es : o = "unreachable" /\ x = "" /\ es = << >>
        OBVIOUS
      <4>2. at \in Nat /\ IsSeq(es) /\ \A k \in DOMAIN es : Ordinary(loaded.f, es[k])
        BY <3>1, <4>1, EmptyIsSeq
      <4>3. /\ o \notin {"alloca", "memcpy"} /\ (o = "load" => x # "sret")
            /\ (o \in {"store", "ret"} => es # << >>)
        BY ONLY <4>1
      <4>4. DecodedInstruction(loaded.f, LI(o, x, es, es, at)) =
               <<Promise!Target(o, x, Meanings(loaded.f, es), es)>>
        BY ONLY <4>2, <4>3, OrdinaryDecoded
      <4>. QED
        BY <4>1, <4>4
    <3>. QED
      BY <3>2, <3>3 DEF end
  <2>. HIDE DEF li
  <2>4. \A v \in ToSet(li.args) : IsValue(v, Len(loaded.f.made))
    BY <2>2 DEF ToSet
  <2>5. Writes(loaded.f, left, b, end, nb)
    BY <2>1, <2>2, <2>3, <2>4, CreateDecoded DEF li
  <2>. HIDE DEF left
  <2>6. Writes(f, left, b, call \o end, nb)
    BY <1>2, <2>5, WritesAfter DEF Lowers
  <2>7. Ordinary(left, loaded.v) /\ Meaning(left, loaded.v) = Promise!Result(at) /\ IsValue(loaded.v, Len(left.made))
    BY <1>2, <2>5, OrdinaryGrows DEF Lowers, Writes
  <2>8. [loaded EXCEPT !.f = left] = [f |-> left, v |-> loaded.v, allocas |-> functionVarsAllocas]
    BY <1>2
  <2>. QED
    BY <1>1, <1>4, <2>6, <2>7, <2>8 DEF Lowers, call, end
<1>. QED
  BY <1>3, <1>4

\* A variable, and the store of its initial value.
LEMMA VarInitDecoded ==
    ASSUME NEW f, NEW nb, GoodFunction(f, nb), Operates(f), NEW b \in 1..nb, NEW c, c.x \notin Reserved,
           NEW args, AllMade(args, Len(f.made)), \A k \in DOMAIN args : Ordinary(f, args[k]),
           AllocasMade(functionVarsAllocas, Len(f.made)), Len(functionValues) \in Nat
    PROVE  LET r == VarInit(f, b, c, args)
               result == Promise!Result(Len(functionValues))
           IN  /\ Lowers(f, r, b, IF args = << >> THEN << >>
                                  ELSE <<Promise!Target("store", "", <<Meaning(f, args[1]), result>>, << >>)>>,
                         result, nb)
               /\ r.allocas = Put(functionVarsAllocas, c.x, r.v) /\ PlaceOf(r.f, r.v, c.x)
<1>. DEFINE at == Len(functionValues)
            g == CreateEntryBlockAlloca(f, c.x, at)
            place == Made(g)
            li == LI("store", "", <<args[1], place>>, << >>, at)
            h == IF args = << >> THEN g ELSE Create(g, b, li)
            store == <<Promise!Target("store", "", <<Meaning(f, args[1]), Promise!Result(at)>>, << >>)>>
<1>1. VarInit(f, b, c, args) = [f |-> h, v |-> place, allocas |-> Put(functionVarsAllocas, c.x, place)]
  BY DEF VarInit
<1>2. Writes(f, g, b, << >>, nb) /\ IsValue(place, Len(g.made))
  BY AllocaDecoded, AllocaLemma
<1>3. Meaning(g, place) = Promise!Result(at) /\ \A x : PlaceOf(g, place, x) <=> x = c.x
  BY PlaceMeans
<1>. HIDE DEF g, place
<1>4. GoodFunction(g, nb) /\ Operates(g) /\ Begins(f, g)
  BY <1>2 DEF Writes
<1>5. Ordinary(g, place)
  BY <1>3 DEF Ordinary
<1>6. CASE args = << >>
  BY <1>1, <1>2, <1>3, <1>5, <1>6 DEF Lowers
<1>7. CASE args # << >>
  <2>1. 1 \in DOMAIN args
    <3>1. IsSeq(args) /\ DOMAIN args = 1..Len(args) /\ Len(args) \in Nat
      BY AppendLemma DEF AllMade
    <3>. QED
      BY <1>7, <3>1, EndsLemma
  <2>2. Ordinary(g, args[1]) /\ Meaning(g, args[1]) = Meaning(f, args[1]) /\ IsValue(args[1], Len(g.made))
    BY <1>4, <2>1, OrdinaryGrows DEF AllMade
  <2>3. PICK v : v = args[1]
    OBVIOUS
  <2>4. PICK both : both = <<v, place>>
    OBVIOUS
  <2>5. /\ IsSeq(both) /\ both # << >>
        /\ AllMade(both, Len(g.made)) /\ \A k \in DOMAIN both : Ordinary(g, both[k])
        /\ Meanings(g, both) = <<Meaning(f, v), Promise!Result(at)>>
    BY <1>2, <1>3, <1>5, <2>2, <2>3, <2>4, TwoMeanings
  <2>6. DecodedInstruction(g, li) = store
    <3>1. DecodedInstruction(g, LI("store", "", both, << >>, at)) =
             <<Promise!Target("store", "", Meanings(g, both), << >>)>>
      <4>1. PICK o, x, bbs : o = "store" /\ x = "" /\ bbs = << >>
        OBVIOUS
      <4>2. at \in Nat /\ IsSeq(both) /\ \A k \in DOMAIN both : Ordinary(g, both[k])
        BY <2>5
      <4>3. /\ o \notin {"alloca", "memcpy"} /\ (o = "load" => x # "sret")
            /\ (o \in {"store", "ret"} => both # << >>)
        BY ONLY <2>5, <4>1
      <4>4. DecodedInstruction(g, LI(o, x, both, bbs, at)) =
               <<Promise!Target(o, x, Meanings(g, both), bbs)>>
        BY ONLY <4>2, <4>3, OrdinaryDecoded
      <4>. QED
        BY <4>1, <4>4
    <3>. QED
      BY <2>3, <2>4, <2>5, <3>1
  <2>7. StoresSomething(li) /\ li.op # "alloca" /\ li.args = both
    BY <2>3, <2>4, <2>5 DEF StoresSomething, LI
  <2>. HIDE DEF li, store
  <2>11. \A w \in ToSet(li.args) : IsValue(w, Len(g.made))
    BY <2>5, <2>7, SameOperands
  <2>8. Writes(g, h, b, store, nb)
    BY <1>4, <1>7, <2>6, <2>7, <2>11, CreateDecoded
  <2>. HIDE DEF h
  <2>9. Writes(f, h, b, store, nb)
    <3>1. Writes(f, h, b, << >> \o store, nb)
      BY <1>2, <2>8, WritesAfter
    <3>. QED
      BY <2>8, <3>1, ConcatLemma, EmptyIsSeq DEF Writes
  <2>10. /\ Ordinary(h, place) /\ Meaning(h, place) = Promise!Result(at) /\ IsValue(place, Len(h.made))
         /\ PlaceOf(h, place, c.x)
    <3>1. Begins(g, h)
      BY <2>8 DEF Writes
    <3>. QED
      BY <1>2, <1>3, <1>5, <3>1, OrdinaryGrows, MeaningGrows
  <2>. QED
    <3>1. PICK r : r = VarInit(f, b, c, args)
      OBVIOUS
    <3>2. r.f = h /\ r.v = place /\ r.allocas = Put(functionVarsAllocas, c.x, place)
      BY <1>1, <3>1
    <3>3. Lowers(f, r, b, store, Promise!Result(at), nb)
      BY <2>9, <2>10, <3>2 DEF Lowers
    <3>. QED
      BY <1>7, <2>10, <3>1, <3>2, <3>3 DEF store
<1>. QED
  BY <1>6, <1>7

\* A cast: no code, one conversion, or two.
LEMMA CastDecoded ==
    ASSUME NEW f, NEW nb, GoodFunction(f, nb), Operates(f), NEW b \in 1..nb, NEW c,
           NEW val, IsValue(val, Len(f.made)), Ordinary(f, val), Len(functionValues) \in Nat
    PROVE  LET r == Cast(f, b, c, val)
               op == ConvertOp(c.from, c.ty)
               result == Promise!Result(Len(functionValues))
           IN  /\ Lowers(f, r, b,
                    IF op \in {"void", "none"} THEN << >>
                    ELSE IF op = "inttoptr" /\ Decimal(c.from)
                    THEN <<Promise!Target("fptoui", "", <<Meaning(f, val)>>, Blocks(c)),
                           Promise!Target(op, "", <<result>>, Blocks(c))>>
                    ELSE <<Promise!Target(op, "", <<Meaning(f, val)>>, Blocks(c))>>,
                    IF op = "void" THEN Promise!Nothing ELSE IF op = "none" THEN Meaning(f, val) ELSE result, nb)
               /\ r.allocas = functionVarsAllocas
<1>. DEFINE op == ConvertOp(c.from, c.ty)
            result == Promise!Result(Len(functionValues))
            whole == Plain(f, b, c, "fptoui", "", <<val>>)
            both == Plain(whole.f, b, c, op, "", <<whole.v>>)
            M == <<Meaning(f, val)>>
<1>1. op \notin {"alloca", "memcpy", "load", "store", "ret"}
  <2>1. CASE c.ty = "void"
    BY <2>1 DEF ConvertOp
  <2>2. CASE c.ty # "void" /\ (is_just_struct(c.from) \/ is_just_struct(c.ty))
    BY <2>2 DEF ConvertOp
  <2>3. CASE c.ty # "void" /\ ~is_just_struct(c.from) /\ ~is_just_struct(c.ty)
    BY <2>3 DEF ConvertOp
  <2>. QED
    BY <2>1, <2>2, <2>3
<1>3. Cast(f, b, c, val) =
        CASE op = "void" -> NoCode(f, null)
          [] op = "none" -> NoCode(f, val)
          [] op = "inttoptr" /\ Decimal(c.from) -> both
          [] OTHER -> Plain(f, b, c, op, "", <<val>>)
  BY DEF Cast
<1>. HIDE DEF op
<1>4. ASSUME NEW o, o \notin {"alloca", "memcpy", "load", "store", "ret"}
      PROVE  Lowers(f, Plain(f, b, c, o, "", <<val>>), b, <<Promise!Target(o, "", M, Blocks(c))>>, result, nb)
  BY <1>4, PlainOneDecoded
<1>5. Cast(f, b, c, val).allocas = functionVarsAllocas
  BY <1>3, SameAllocas
<1>6. CASE op = "void"
  <2>1. Lowers(f, NoCode(f, null), b, << >>, Promise!Nothing, nb)
    <3>1. Ordinary(f, null) /\ IsValue(null, Len(f.made)) /\ Meaning(f, null) = Promise!Nothing
      BY NullMeans
    <3>2. GoodFunction(f, nb) /\ Operates(f)
      OBVIOUS
    <3>. QED
      BY ONLY <3>1, <3>2, NoCodeDecoded
  <2>. QED
    BY <1>3, <1>5, <1>6, <2>1 DEF op
<1>7. CASE op = "none"
  <2>1. Lowers(f, NoCode(f, val), b, << >>, Meaning(f, val), nb)
    BY NoCodeDecoded
  <2>. QED
    BY <1>3, <1>5, <1>7, <2>1 DEF op
<1>8. CASE op \notin {"void", "none"} /\ ~(op = "inttoptr" /\ Decimal(c.from))
  <2>1. Cast(f, b, c, val) = Plain(f, b, c, op, "", <<val>>)
    BY <1>3, <1>8
  <2>. QED
    BY <1>1, <1>4, <1>5, <1>8, <2>1 DEF op
<1>9. CASE op = "inttoptr" /\ Decimal(c.from)
  <2>1. Cast(f, b, c, val) = both
    BY <1>3, <1>9
  <2>. DEFINE first == <<Promise!Target("fptoui", "", M, Blocks(c))>>
              second == <<Promise!Target(op, "", <<result>>, Blocks(c))>>
  <2>2. Lowers(f, whole, b, first, result, nb)
    BY <1>4
  <2>. HIDE DEF whole
  <2>3. GoodFunction(whole.f, nb) /\ Operates(whole.f) /\ Ordinary(whole.f, whole.v)
        /\ IsValue(whole.v, Len(whole.f.made)) /\ Meaning(whole.f, whole.v) = result
    BY <2>2 DEF Lowers, Writes
  <2>4. PICK v : v = whole.v
    OBVIOUS
  <2>6. Lowers(whole.f, Plain(whole.f, b, c, op, "", <<v>>), b,
               <<Promise!Target(op, "", <<Meaning(whole.f, v)>>, Blocks(c))>>, result, nb)
    BY <1>1, <2>3, <2>4, PlainOneDecoded
  <2>7. Lowers(whole.f, both, b, second, result, nb) /\ both.allocas = functionVarsAllocas
    BY <2>3, <2>4, <2>6, SameAllocas
  <2>. HIDE DEF both
  <2>8. first \o second = <<Promise!Target("fptoui", "", M, Blocks(c)), Promise!Target(op, "", <<result>>, Blocks(c))>>
    BY PairLemma
  <2>. HIDE DEF first, second
  <2>9. Writes(f, both.f, b, first \o second, nb)
    BY <2>2, <2>7, WritesAfter DEF Lowers
  <2>10. Lowers(f, both, b, first \o second, result, nb)
    BY <2>7, <2>9 DEF Lowers
  <2>. QED
    BY <1>5, <1>9, <2>1, <2>8, <2>10 DEF op
<1>. QED
  BY <1>6, <1>7, <1>8, <1>9

\* The return of a struct through memory stands for one return.
LEMMA SretDecoded ==
    ASSUME NEW f, NEW nb, GoodFunction(f, nb), Operates(f), NEW b \in 1..nb, NEW c,
           IsValue(At(c.uses[1]), Len(f.made)), Ordinary(f, At(c.uses[1])),
           AllocasMade(functionVarsAllocas, Len(f.made)), Len(functionValues) \in Nat
    PROVE  Writes(f, handleSretReturn(f, b, c), b,
                  <<Promise!Target("ret", "", <<Meaning(f, At(c.uses[1]))>>, << >>)>>, nb)
<1>. DEFINE at == Len(functionValues)
            val == At(c.uses[1])
            address == Get(functionVarsAllocas, "sret_arg")
            g == CreateEntryBlockAlloca(f, "temp_retvar_sret", at)
            place == Made(g)
            store == LI("store", "", <<val, place>>, << >>, at)
            stored == Create(g, b, store)
            copy == LI("memcpy", "", <<place, address>>, << >>, at)
            copied == Create(stored, b, copy)
            end == LI("ret", "", << >>, << >>, at)
            left == Create(copied, b, end)
            code == <<Promise!Target("ret", "", <<Meaning(f, val)>>, << >>)>>
<1>1. handleSretReturn(f, b, c) = left
  BY DEF handleSretReturn
<1>2. IsValue(val, Len(f.made)) /\ Ordinary(f, val) /\ IsValue(address, Len(f.made))
  BY GetLemma
<1>. HIDE DEF val, address
<1>3. /\ Writes(f, g, b, << >>, nb) /\ IsValue(place, Len(g.made))
      /\ \A x : PlaceOf(g, place, x) <=> x = "temp_retvar_sret"
  BY AllocaDecoded, AllocaLemma, PlaceMeans
<1>. HIDE DEF g, place
<1>4. GoodFunction(g, nb) /\ Operates(g) /\ Begins(f, g)
  BY <1>3 DEF Writes
<1>5. Ordinary(g, val) /\ Meaning(g, val) = Meaning(f, val) /\ IsValue(val, Len(g.made))
  BY <1>2, <1>4, OrdinaryGrows
<1>0. PICK both : both = <<val, place>>
  OBVIOUS
<1>6. /\ AllMade(both, Len(g.made)) /\ IsSeq(both) /\ both # << >>
      /\ Last(both) = place /\ Front(both) = <<val>>
  BY <1>0, <1>3, <1>5, TwoMeanings
<1>7. DecodedInstruction(g, store) = code
  <2>1. /\ store.op = "store" /\ store.args = both /\ store.x = "" /\ store.bbs = << >>
        /\ store.at = at /\ at # -1
    BY <1>0 DEF LI
  <2>. HIDE DEF store
  <2>2. ReturnsThroughMemory(g, store) /\ ~Artefact(store)
    BY <1>3, <1>6, <2>1 DEF ReturnsThroughMemory, Artefact
  <2>3. PICK one : one = <<val>>
    OBVIOUS
  <2>4. Meanings(g, one) = <<Meaning(f, val)>>
    BY <1>5, <2>3, OneMeaning
  <2>5. DecodedInstruction(g, store) =
           <<[op |-> "ret", x |-> "", args |-> Meanings(g, one), bbs |-> << >>]>>
    BY <1>6, <2>1, <2>2, <2>3 DEF DecodedInstruction, Meanings
  <2>. QED
    BY <2>4, <2>5 DEF Promise!Target
<1>8. Writes(g, stored, b, code, nb)
  <2>1. store.op # "alloca" /\ store.args = both /\ StoresSomething(store)
    BY <1>0, <1>6 DEF LI, StoresSomething
  <2>. HIDE DEF store, code
  <2>2. \A v \in ToSet(store.args) : IsValue(v, Len(g.made))
    BY <1>6, <2>1, SameOperands
  <2>. QED
    BY <1>4, <1>7, <2>1, <2>2, CreateDecoded
<1>. HIDE DEF stored, code
<1>9. GoodFunction(stored, nb) /\ Operates(stored) /\ Begins(g, stored)
  BY <1>8 DEF Writes
<1>10. Writes(stored, copied, b, << >>, nb)
  <2>1. IsValue(place, Len(stored.made)) /\ IsValue(address, Len(stored.made))
    <3>1. /\ Len(f.made) \in Nat /\ Len(g.made) \in Nat /\ Len(stored.made) \in Nat
          /\ Len(f.made) <= Len(stored.made) /\ Len(g.made) <= Len(stored.made)
      BY <1>4, <1>9 DEF Begins
    <3>. QED
      BY <1>2, <1>3, <3>1, IsValueGrows
  <2>0. PICK pair : pair = <<place, address>>
    OBVIOUS
  <2>2. AllMade(pair, Len(stored.made))
    BY <2>0, <2>1, TwoMeanings
  <2>3. copy.op # "alloca" /\ copy.args = pair /\ StoresSomething(copy)
    BY <2>0, <2>2 DEF LI, StoresSomething, AllMade
  <2>4. DecodedInstruction(stored, copy) = << >>
    BY DEF DecodedInstruction, Artefact, LI
  <2>. HIDE DEF copy
  <2>5. \A v \in ToSet(copy.args) : IsValue(v, Len(stored.made))
    BY <2>2, <2>3, SameOperands
  <2>. QED
    BY <1>9, <2>3, <2>4, <2>5, CreateDecoded
<1>. HIDE DEF copied
<1>11. Writes(copied, left, b, << >>, nb)
  <2>1. end.op # "alloca" /\ end.args = << >> /\ StoresSomething(end)
    BY EmptyIsSeq DEF LI, StoresSomething
  <2>2. DecodedInstruction(copied, end) = << >>
    BY DEF DecodedInstruction, Artefact, LI
  <2>. HIDE DEF end
  <2>3. \A v \in ToSet(end.args) : IsValue(v, Len(copied.made))
    BY <2>1 DEF ToSet
  <2>4. GoodFunction(copied, nb) /\ Operates(copied)
    BY <1>10 DEF Writes
  <2>. QED
    BY <2>1, <2>2, <2>3, <2>4, CreateDecoded
<1>. HIDE DEF left
<1>12. Writes(f, stored, b, << >> \o code, nb)
  BY <1>3, <1>8, WritesAfter
<1>13. Writes(f, copied, b, (<< >> \o code) \o << >>, nb)
  BY <1>10, <1>12, WritesAfter
<1>14. Writes(f, left, b, ((<< >> \o code) \o << >>) \o << >>, nb)
  BY <1>11, <1>13, WritesAfter
<1>15. ((<< >> \o code) \o << >>) \o << >> = code
  BY <1>8, ConcatLemma, EmptyIsSeq DEF Writes
<1>. QED
  BY <1>1, <1>14, <1>15 DEF code, val

\* The operands of an instruction mean what the promise says they mean.
LEMMA OperandsMeant ==
    ASSUME NEW f, Tables(Len(f.made)), ValuesMeant(f), NEW c \in CIRInstruction, ~Impossible(c)
    PROVE  LET args == Operands(c)
               d == Promise!Denotation(CirOf)
           IN  /\ AllMade(args, Len(f.made))
               /\ DOMAIN args = 1..Len(c.uses) /\ Len(c.uses) \in Nat
               /\ Len(functionValues) \in Nat
               /\ \A k \in 1..Len(c.uses) : /\ c.uses[k] \in 0..(Len(functionValues) - 1)
                                            /\ args[k] = At(c.uses[k])
                                            /\ Ordinary(f, args[k]) /\ Meaning(f, args[k]) = d[c.uses[k]]
               /\ Meanings(f, args) = [j \in DOMAIN c.uses |-> d[c.uses[j]]]
<1>. DEFINE args == Operands(c)
            d == Promise!Denotation(CirOf)
<1>1. AllMade(args, Len(f.made)) /\ DOMAIN args = 1..Len(c.uses) /\ Len(c.uses) \in Nat
  BY OperandsLemma DEF Tables
<1>2. Len(functionValues) \in Nat /\ DOMAIN functionValues = 1..Len(functionValues)
  BY AppendLemma DEF Tables, AllMade
<1>3. DOMAIN c.uses = 1..Len(c.uses)
  BY <1>1 DEF Operands
<1>. HIDE DEF d
<1>4. ASSUME NEW k \in 1..Len(c.uses)
      PROVE  /\ c.uses[k] \in 0..(Len(functionValues) - 1)
             /\ args[k] = At(c.uses[k])
             /\ Ordinary(f, args[k]) /\ Meaning(f, args[k]) = d[c.uses[k]]
  <2>1. c.uses[k] \in 0..(Len(functionValues) - 1)
    <3>1. c.uses[k] \in ToSet(c.uses)
      BY <1>3 DEF ToSet
    <3>. QED
      BY <3>1 DEF Impossible, InRange
  <2>2. c.uses[k] + 1 \in DOMAIN functionValues /\ (c.uses[k] + 1) - 1 = c.uses[k]
    BY <1>2, <2>1
  <2>3. args[k] = functionValues[c.uses[k] + 1] /\ args[k] = At(c.uses[k])
    BY <1>3 DEF Operands, At
  <2>. QED
    BY <2>1, <2>2, <2>3 DEF ValuesMeant, Meant, Ordinary, d
<1>. HIDE DEF args
<1>5. Meanings(f, args) = [j \in DOMAIN c.uses |-> d[c.uses[j]]]
  BY <1>1, <1>3, <1>4 DEF Meanings
<1>. QED
  BY <1>1, <1>2, <1>4, <1>5 DEF args, d

\* A global variable that is there is known by its name.
LEMMA GlobalMeans ==
    ASSUME NEW f, \A e \in module.globals : e[2] \in {null, Value("global", e[1], 0)},
           NEW x, Get(module.globals, x) # null
    PROVE  LET v == Get(module.globals, x)
           IN  Meaning(f, v) = Promise!Named("global", x) /\ Ordinary(f, v) /\ \A m : IsValue(v, m)
<1>1. Has(module.globals, x)
  BY DEF Get
<1>2. PICK e \in module.globals : e[1] = x /\ Get(module.globals, x) = e[2]
  BY <1>1 DEF Get, Has
<1>3. Get(module.globals, x) = Value("global", x, 0)
  BY <1>2
<1>. QED
  BY <1>3, ValueMeans

\* An argument is found by its name.
LEMMA ArgumentMeans ==
    ASSUME NEW f, AllocasMade(functionVarsAllocas, Len(f.made)), AllocasFound(f), NEW x, Has(functionVarsAllocas, x),
           \A q \in 1..Len(functionValues) : ~(CirOf[q].op = "VarInit" /\ CirOf[q].x = x)
    PROVE  LET v == Get(functionVarsAllocas, x)
           IN  Meaning(f, v) = Promise!Named("arg", x) /\ Ordinary(f, v) /\ IsValue(v, Len(f.made))
<1>1. PICK e \in functionVarsAllocas : e[1] = x /\ Get(functionVarsAllocas, x) = e[2]
  BY DEF Get, Has
<1>2. PICK v : v = Get(functionVarsAllocas, x)
  OBVIOUS
<1>3. PlaceOf(f, v, x) /\ x \notin Reserved /\ f.made[v.p].at = -1 /\ IsValue(v, Len(f.made))
  BY <1>1, <1>2 DEF AllocasFound, Found, AllocasMade
<1>4. Ordinary(f, v)
  BY <1>3 DEF Ordinary, PlaceOf
<1>5. v # null
  <2>1. null.k = "null"
    BY DEF null, Value
  <2>. QED
    BY <1>3, <2>1 DEF PlaceOf
<1>6. Meaning(f, v) = Promise!Named("arg", x)
  BY <1>3, <1>5 DEF Meaning, PlaceOf, Promise!Named
<1>. QED
  BY <1>2, <1>3, <1>4, <1>6

-----------------------------------------------------------------------------
(* The promise, class by class.                                            *)

\* What constants, strings and arguments mean.
LEMMA ConstantsMean ==
    ASSUME NEW c, NEW p, NEW d
    PROVE  /\ c.op \in Promise!Constants => Promise!MeaningAt(d, c, p) = Promise!Literal(c.ty, c.x)
           /\ c.op = "LoadString" => Promise!MeaningAt(d, c, p) = Promise!Named("string", file.strings[c.pos + 1])
           /\ c.op = "InitArg" => Promise!MeaningAt(d, c, p) = Promise!Named("arg", c.x)
<1>1. CASE c.op \in Promise!Constants
  <2>1. Promise!MeaningAt(d, c, p) = Promise!Literal(c.ty, c.x)
    BY <1>1 DEF Promise!MeaningAt, Promise!Constants, Promise!Effects
  <2>. QED
    BY <1>1, <2>1 DEF Promise!Constants
<1>2. CASE c.op = "LoadString"
  <2>1. Promise!MeaningAt(d, c, p) = Promise!Named("string", file.strings[c.pos + 1])
    BY <1>2 DEF Promise!MeaningAt, Promise!Constants, Promise!Effects
  <2>. QED
    BY <1>2, <2>1 DEF Promise!Constants
<1>3. CASE c.op = "InitArg"
  <2>1. Promise!MeaningAt(d, c, p) = Promise!Named("arg", c.x)
    BY <1>3 DEF Promise!MeaningAt, Promise!Constants, Promise!Effects
  <2>. QED
    BY <1>3, <2>1 DEF Promise!Constants
<1>. QED
  BY <1>1, <1>2, <1>3

Others == {"LoadVar", "Deref", "VarInit", "StoreVar", "StoreInPtr", "LoadGlobal", "StoreGlobal", "Cast", "Call",
           "Return", "Goto", "GotoIf", "Phi", "Sizeof", "GepArray", "GepStruct", "ConstNever"}

\* Arithmetic and comparisons, as promised.
LEMMA NumbersTranslate ==
    ASSUME NEW c, NEW p, NEW m
    PROVE  /\ c.op \in Arithmetic =>
                 Promise!Translation(c, p, m) = <<Promise!Target(c.op, Promise!Form(c.op, c.ty), m, << >>)>>
           /\ c.op \in Compare =>
                 Promise!Translation(c, p, m) = <<Promise!Target(c.op, Promise!Form(c.op, c.from), m, << >>)>>
<1>0. Arithmetic = Promise!Arithmetic /\ Compare = Promise!Compare
  BY DEF Arithmetic, Promise!Arithmetic, Compare, Promise!Compare
<1>1. ASSUME c.op \in Promise!Arithmetic
      PROVE  Promise!Translation(c, p, m) = <<Promise!Target(c.op, Promise!Form(c.op, c.ty), m, << >>)>>
  <2>1. c.op \notin Others /\ c.op \notin Promise!Compare
    BY <1>1 DEF Others, Promise!Arithmetic, Promise!Compare
  <2>. QED
    BY <1>1, <2>1 DEF Promise!Translation, Others
<1>2. ASSUME c.op \in Promise!Compare
      PROVE  Promise!Translation(c, p, m) = <<Promise!Target(c.op, Promise!Form(c.op, c.from), m, << >>)>>
  <2>1. c.op \notin Others /\ c.op \notin Promise!Arithmetic
    BY <1>2 DEF Others, Promise!Arithmetic, Promise!Compare
  <2>. QED
    BY <1>2, <2>1 DEF Promise!Translation, Others
<1>. QED
  BY <1>0, <1>1, <1>2

\* Of decimal, signed and unsigned instructions the one that is promised.
LEMMA FormsLemma ==
    ASSUME NEW op, NEW ty
    PROVE  /\ op \in Arithmetic => ArithmeticForm(op, ty) = Promise!Form(op, ty)
           /\ op \in Compare /\ (op \in {"Greater", "GreaterEq", "Lower", "LowerEq"} => Signed(ty) \/ Decimal(ty)) =>
                 CompareForm(op, ty) = Promise!Form(op, ty)
<1>1. CASE op \in Arithmetic
  BY <1>1 DEF ArithmeticForm, Promise!Form, Arithmetic, Compare, Decimal, Promise!Decimal, Signed, Promise!Signed
<1>2. CASE op \in Compare
  BY <1>2 DEF CompareForm, Promise!Form, Arithmetic, Compare, Decimal, Promise!Decimal, Signed, Promise!Signed
<1>. QED
  BY <1>1, <1>2

\* A decimal becomes a pointer in two conversions.
LEMMA DecimalToPointer ==
    ASSUME NEW from, NEW to
    PROVE  LET op == Promise!Conversion(from, to)
           IN  /\ op = "inttoptr" => to = "ptr"
               /\ Decimal(from) /\ to = "ptr" => op = "inttoptr"
               /\ Decimal(from) <=> Promise!Decimal(from)
<1>1. Decimal(from) <=> Promise!Decimal(from)
  BY DEF Decimal, Promise!Decimal
<1>2. CASE to = "ptr"
  BY <1>2 DEF Decimal, Promise!Conversion, Promise!Decimal
<1>3. CASE to # "ptr"
  <2>1. Promise!Conversion(from, to) # "inttoptr"
    <3>1. CASE to = "void"
      BY <3>1 DEF Promise!Conversion
    <3>2. CASE to # "void" /\ from = "ptr"
      BY <1>3, <3>2 DEF Promise!Conversion
    <3>3. CASE to # "void" /\ from # "ptr"
      BY <1>3, <3>3 DEF Promise!Conversion
    <3>. QED
      BY <3>1, <3>2, <3>3
  <2>. QED
    BY <1>1, <1>3, <2>1
<1>. QED
  BY <1>2, <1>3

\* Every instruction is translated as promised, and its value means what its
\* position does.
LEMMA InstructionDecoded ==
    ASSUME NEW f, NEW nb, GoodFunction(f, nb), Operates(f), NEW b \in 1..nb, Tables(Len(f.made)),
           ValuesMeant(f), AllocasFound(f),
           \A e \in module.globals : e[2] \in {null, Value("global", e[1], 0)},
           module.strings = file.strings,
           NEW c \in CIRInstruction, Complete(c), ~Impossible(c), TranslatedAsPromised(c),
           c.op = "InitArg" =>
               /\ Has(functionVarsAllocas, c.x)
               /\ \A q \in 1..Len(functionValues) : ~(CirOf[q].op = "VarInit" /\ CirOf[q].x = c.x)
    PROVE  LET d == Promise!Denotation(CirOf)
               p == Len(functionValues)
           IN  Lowers(f, codegenInstruction(f, b, c), b,
                      Promise!Translation(c, p, [j \in DOMAIN c.uses |-> d[c.uses[j]]]), Promise!MeaningAt(d, c, p), nb)
<1>. DEFINE args == Operands(c)
            r == codegenInstruction(f, b, c)
            d == Promise!Denotation(CirOf)
            p == Len(functionValues)
            m == [j \in DOMAIN c.uses |-> d[c.uses[j]]]
            T == Promise!Translation(c, p, m)
            M == Promise!MeaningAt(d, c, p)
            result == Promise!Result(p)
<1>. SUFFICES Lowers(f, r, b, T, M, nb)
  OBVIOUS
<1>1. /\ AllMade(args, Len(f.made))
      /\ DOMAIN args = 1..Len(c.uses) /\ Len(c.uses) \in Nat /\ p \in Nat
      /\ \A k \in 1..Len(c.uses) : /\ c.uses[k] \in 0..(p - 1)
                                   /\ Ordinary(f, args[k]) /\ Meaning(f, args[k]) = d[c.uses[k]]
      /\ Meanings(f, args) = m
  BY OperandsMeant
<1>0. m = [j \in 1..Len(c.uses) |-> d[c.uses[j]]]
  BY <1>1 DEF Meanings
<1>2. AllocasMade(functionVarsAllocas, Len(f.made))
  BY DEF Tables
<1>3. Blocks(c) = c.bbs /\ (c.op \notin {"Goto", "GotoIf", "Phi"} => Blocks(c) = << >>)
  BY BlocksNamed DEF TranslatedAsPromised
<1>4. c.op \in Opcodes /\ c.op \notin {"Shift", "InlineAsm"}
  BY DEF CIRInstruction, Impossible
<1>. HIDE DEF args, r, d, p, m, T, M, result
<1>5. ASSUME NEW op, op \notin {"alloca", "memcpy"}, NEW x, op = "load" => x # "sret",
             op \in {"store", "ret"} => args # << >>
      PROVE  Lowers(f, Plain(f, b, c, op, x, args), b, <<Promise!Target(op, x, m, Blocks(c))>>, result, nb)
  <2>1. Lowers(f, Plain(f, b, c, op, x, args), b, <<Promise!Target(op, x, Meanings(f, args), Blocks(c))>>, result, nb)
    BY <1>1, <1>5, PlainDecoded DEF p, result
  <2>. QED
    BY <1>1, <2>1
<1>6. ASSUME NEW k, NEW x, k # "inst", k # "null"
      PROVE  Lowers(f, NoCode(f, Value(k, x, 0)), b, << >>, Promise!Named(k, x), nb)
  <2>1. /\ Meaning(f, Value(k, x, 0)) = Promise!Named(k, x)
        /\ Ordinary(f, Value(k, x, 0)) /\ IsValue(Value(k, x, 0), Len(f.made))
    BY <1>6, ValueMeans
  <2>2. Lowers(f, NoCode(f, Value(k, x, 0)), b, << >>, Meaning(f, Value(k, x, 0)), nb)
    BY <2>1, NoCodeDecoded
  <2>. QED
    BY <2>1, <2>2
<1>7. CASE c.op \in {"ConstNumber", "ConstBool", "ConstNull"}
  <2>1. r = NoCode(f, Literal(c.ty, c.x))
    BY <1>7 DEF r, codegenInstruction, Arithmetic, Compare
  <2>2. T = << >>
    BY <1>7 DEF T, Promise!Translation, Promise!Arithmetic, Promise!Compare
  <2>3. M = Promise!Literal(c.ty, c.x)
    BY <1>7, ConstantsMean DEF M, Promise!Constants
  <2>4. Lowers(f, NoCode(f, Literal(c.ty, c.x)), b, << >>, Meaning(f, Literal(c.ty, c.x)), nb)
    BY LiteralMeans, NoCodeDecoded
  <2>. QED
    BY <2>1, <2>2, <2>3, <2>4, LiteralMeans
<1>8. CASE c.op = "ConstVoid"
  <2>1. r = NoCode(f, null)
    BY <1>8 DEF r, codegenInstruction, Arithmetic, Compare
  <2>2. T = << >>
    BY <1>8 DEF T, Promise!Translation, Promise!Arithmetic, Promise!Compare
  <2>3. M = Promise!Nothing
    BY <1>8 DEF M, Promise!MeaningAt, Promise!Constants, Promise!Effects
  <2>. QED
    BY <2>1, <2>2, <2>3, NullMeans, NoCodeDecoded
<1>9. CASE c.op = "LoadString"
  <2>1. r = NoCode(f, Value("string", file.strings[c.pos + 1], 0))
    BY <1>9 DEF r, codegenInstruction, Arithmetic, Compare
  <2>2. T = << >>
    BY <1>9 DEF T, Promise!Translation, Promise!Arithmetic, Promise!Compare
  <2>3. M = Promise!Named("string", file.strings[c.pos + 1])
    BY <1>9, ConstantsMean DEF M
  <2>. QED
    BY <1>6, <2>1, <2>2, <2>3
<1>10. CASE c.op = "InitArg"
  <2>1. r = NoCode(f, Get(functionVarsAllocas, c.x))
    BY <1>10 DEF r, codegenInstruction, Arithmetic, Compare
  <2>2. T = << >>
    BY <1>10 DEF T, Promise!Translation, Promise!Arithmetic, Promise!Compare
  <2>3. M = Promise!Named("arg", c.x)
    BY <1>10, ConstantsMean DEF M
  <2>4. PICK v : v = Get(functionVarsAllocas, c.x)
    OBVIOUS
  <2>5. Meaning(f, v) = Promise!Named("arg", c.x) /\ Ordinary(f, v) /\ IsValue(v, Len(f.made))
    BY <1>2, <1>10, <2>4, ArgumentMeans
  <2>6. Lowers(f, NoCode(f, v), b, << >>, Meaning(f, v), nb)
    BY <2>5, NoCodeDecoded
  <2>. QED
    BY <2>1, <2>2, <2>3, <2>4, <2>5, <2>6
<1>11. CASE c.op = "VarInit"
  <2>1. r = VarInit(f, b, c, args)
    BY <1>11 DEF r, codegenInstruction, args, Operands, Arithmetic, Compare
  <2>2. T = IF m = << >> THEN << >> ELSE <<Promise!Target("store", "", <<m[1], result>>, << >>)>>
    BY <1>11 DEF T, result, Promise!Translation, Promise!Arithmetic, Promise!Compare
  <2>3. M = result
    BY <1>11 DEF M, result, Promise!MeaningAt, Promise!Constants, Promise!Effects
  <2>4. c.x \notin Reserved
    BY <1>11 DEF TranslatedAsPromised
  <2>5. Lowers(f, VarInit(f, b, c, args), b, IF args = << >> THEN << >>
                            ELSE <<Promise!Target("store", "", <<Meaning(f, args[1]), result>>, << >>)>>,
               result, nb)
    BY <1>1, <1>2, <2>4, VarInitDecoded DEF p, result
  <2>6. CASE Len(c.uses) = 0
    <3>1. args = << >>
      BY <1>1, <2>6, AppendLemma DEF AllMade, IsSeq
    <3>2. m = << >>
      BY <1>1, <3>1 DEF Meanings
    <3>. QED
      BY <2>1, <2>2, <2>3, <2>5, <3>1, <3>2
  <2>7. CASE Len(c.uses) # 0
    <3>1. 1 \in 1..Len(c.uses)
      BY <1>1, <2>7
    <3>2. args # << >> /\ m # << >> /\ m[1] = Meaning(f, args[1])
      BY <1>0, <1>1, <3>1
    <3>. QED
      BY <2>1, <2>2, <2>3, <2>5, <3>2
  <2>. QED
    BY <2>6, <2>7
<1>12. CASE c.op \in {"LoadVar", "Deref"}
  <2>1. r = Plain(f, b, c, "load", "", args)
    BY <1>12 DEF r, codegenInstruction, args, Operands, Arithmetic, Compare
  <2>2. T = <<Promise!Target("load", "", m, << >>)>>
    BY <1>12 DEF T, Promise!Translation, Promise!Arithmetic, Promise!Compare
  <2>3. M = result
    BY <1>12 DEF M, result, Promise!MeaningAt, Promise!Constants, Promise!Effects
  <2>. QED
    BY <1>3, <1>5, <1>12, <2>1, <2>2, <2>3
<1>13. CASE c.op = "Return"
  <2>1. r = Plain(f, b, c, "ret", "", args)
    BY <1>13 DEF r, codegenInstruction, args, Operands, Arithmetic, Compare
  <2>2. T = <<Promise!Target("ret", "", m, << >>)>>
    BY <1>13 DEF T, Promise!Translation, Promise!Arithmetic, Promise!Compare
  <2>3. M = result
    BY <1>13 DEF M, result, Promise!MeaningAt, Promise!Constants, Promise!Effects
  <2>4. args # << >>
    <3>1. DOMAIN args = 1..1
      BY <1>1, <1>13 DEF Complete
    <3>. QED
      BY <3>1
  <2>. QED
    BY <1>3, <1>5, <1>13, <2>1, <2>2, <2>3, <2>4
<1>14. CASE c.op = "Phi"
  <2>1. r = Plain(f, b, c, "phi", "", args)
    BY <1>14 DEF r, codegenInstruction, args, Operands, Arithmetic, Compare
  <2>2. T = <<Promise!Target("phi", "", m, c.bbs)>>
    BY <1>14 DEF T, Promise!Translation, Promise!Arithmetic, Promise!Compare
  <2>3. M = result
    BY <1>14 DEF M, result, Promise!MeaningAt, Promise!Constants, Promise!Effects
  <2>. QED
    BY <1>3, <1>5, <2>1, <2>2, <2>3
<1>15. CASE c.op = "GepArray"
  <2>1. r = Plain(f, b, c, "element", "", args)
    BY <1>15 DEF r, codegenInstruction, args, Operands, Arithmetic, Compare
  <2>2. T = <<Promise!Target("element", "", m, << >>)>>
    BY <1>15 DEF T, Promise!Translation, Promise!Arithmetic, Promise!Compare
  <2>3. M = result
    BY <1>15 DEF M, result, Promise!MeaningAt, Promise!Constants, Promise!Effects
  <2>. QED
    BY <1>3, <1>5, <1>15, <2>1, <2>2, <2>3
<1>16. CASE c.op = "Sizeof"
  <2>1. r = Plain(f, b, c, "sizeof", c.x, args)
    BY <1>16 DEF r, codegenInstruction, args, Operands, Arithmetic, Compare
  <2>2. T = <<Promise!Target("sizeof", c.x, m, << >>)>>
    BY <1>16 DEF T, Promise!Translation, Promise!Arithmetic, Promise!Compare
  <2>3. M = result
    BY <1>16 DEF M, result, Promise!MeaningAt, Promise!Constants, Promise!Effects
  <2>. QED
    BY <1>3, <1>5, <1>16, <2>1, <2>2, <2>3
<1>17. CASE c.op = "GepStruct"
  <2>1. r = Plain(f, b, c, "member", c.x, args)
    BY <1>17 DEF r, codegenInstruction, args, Operands, Arithmetic, Compare, TranslatedAsPromised
  <2>2. T = <<Promise!Target("member", c.x, m, << >>)>>
    BY <1>17 DEF T, Promise!Translation, Promise!Arithmetic, Promise!Compare
  <2>3. M = result
    BY <1>17 DEF M, result, Promise!MeaningAt, Promise!Constants, Promise!Effects
  <2>. QED
    BY <1>3, <1>5, <1>17, <2>1, <2>2, <2>3
<1>18. CASE c.op \in Arithmetic
  <2>1. r = Plain(f, b, c, c.op, ArithmeticForm(c.op, c.ty), args)
    BY <1>18 DEF r, codegenInstruction, args, Operands, Arithmetic, Compare
  <2>2. T = <<Promise!Target(c.op, Promise!Form(c.op, c.ty), m, << >>)>>
    BY <1>18, NumbersTranslate DEF T
  <2>3. M = result
    BY <1>18 DEF M, result, Promise!MeaningAt, Promise!Constants, Promise!Effects, Arithmetic
  <2>4. ArithmeticForm(c.op, c.ty) = Promise!Form(c.op, c.ty)
    BY <1>18, FormsLemma
  <2>5. c.op \notin {"alloca", "memcpy", "load", "store", "ret", "Goto", "GotoIf", "Phi"}
    BY <1>18 DEF Arithmetic
  <2>. QED
    BY <1>3, <1>5, <2>1, <2>2, <2>3, <2>4, <2>5
<1>19. CASE c.op \in Compare
  <2>1. r = Plain(f, b, c, c.op, CompareForm(c.op, c.from), args)
    BY <1>19 DEF r, codegenInstruction, args, Operands, Arithmetic, Compare
  <2>2. T = <<Promise!Target(c.op, Promise!Form(c.op, c.from), m, << >>)>>
    BY <1>19, NumbersTranslate DEF T
  <2>3. M = result
    BY <1>19 DEF M, result, Promise!MeaningAt, Promise!Constants, Promise!Effects, Compare
  <2>4. CompareForm(c.op, c.from) = Promise!Form(c.op, c.from)
    BY <1>19, FormsLemma DEF TranslatedAsPromised
  <2>5. c.op \notin {"alloca", "memcpy", "load", "store", "ret", "Goto", "GotoIf", "Phi"}
    BY <1>19 DEF Compare
  <2>. QED
    BY <1>3, <1>5, <2>1, <2>2, <2>3, <2>4, <2>5
<1>20. CASE c.op \in {"Goto", "GotoIf"}
  <2>1. r = Pushing(Plain(f, b, c, "br", "", args), null)
    BY <1>20 DEF r, codegenInstruction, args, Operands, Arithmetic, Compare
  <2>2. T = <<Promise!Target("br", "", m, c.bbs)>>
    <3>1. c.op = "Goto" => m = << >>
      BY <1>1 DEF TranslatedAsPromised, m
    <3>. QED
      BY <1>20, <3>1 DEF T, Promise!Translation, Promise!Arithmetic, Promise!Compare
  <2>3. M = Promise!Nothing
    BY <1>20 DEF M, Promise!MeaningAt, Promise!Constants, Promise!Effects
  <2>4. PICK s : s = Plain(f, b, c, "br", "", args)
    OBVIOUS
  <2>5. s = [f |-> s.f, v |-> s.v, allocas |-> s.allocas]
    BY <2>4 DEF Plain
  <2>. QED
    BY <1>3, <1>5, <2>1, <2>2, <2>3, <2>4, <2>5, PushingDecoded
<1>21. CASE c.op = "ConstNever"
  <2>1. r = Plain(f, b, c, "unreachable", "", << >>)
    BY <1>21 DEF r, codegenInstruction, Arithmetic, Compare
  <2>2. T = <<Promise!Target("unreachable", "", << >>, << >>)>>
    BY <1>21 DEF T, Promise!Translation, Promise!Arithmetic, Promise!Compare
  <2>3. M = result
    BY <1>21 DEF M, result, Promise!MeaningAt, Promise!Constants, Promise!Effects
  <2>4. Meanings(f, << >>) = << >> /\ AllMade(<< >>, Len(f.made)) /\ \A k \in DOMAIN << >> : Ordinary(f, << >>[k])
    BY EmptyIsSeq DEF Meanings, AllMade
  <2>5. PICK none : none = << >>
    OBVIOUS
  <2>6. Lowers(f, Plain(f, b, c, "unreachable", "", none), b,
               <<Promise!Target("unreachable", "", Meanings(f, none), Blocks(c))>>, result, nb)
    <3>1. AllMade(none, Len(f.made)) /\ \A k \in DOMAIN none : Ordinary(f, none[k])
      BY <2>4, <2>5
    <3>. QED
      BY <1>1, <3>1, PlainDecoded DEF p, result
  <2>. QED
    BY <1>3, <1>21, <2>1, <2>2, <2>3, <2>4, <2>5, <2>6
<1>22. CASE c.op = "LoadGlobal"
  <2>. DEFINE v == Get(module.globals, c.x)
  <2>1. r = Plain(f, b, c, "load", "", <<v>>)
    BY <1>22 DEF r, codegenInstruction, Arithmetic, Compare
  <2>2. T = <<Promise!Target("load", "", <<Promise!Named("global", c.x)>>, << >>)>>
    BY <1>22 DEF T, Promise!Translation, Promise!Arithmetic, Promise!Compare
  <2>3. M = result
    BY <1>22 DEF M, result, Promise!MeaningAt, Promise!Constants, Promise!Effects
  <2>4. v # null
    BY <1>22 DEF Impossible
  <2>5. Meaning(f, v) = Promise!Named("global", c.x) /\ Ordinary(f, v) /\ IsValue(v, Len(f.made))
    BY <2>4, GlobalMeans
  <2>. HIDE DEF v
  <2>6. Lowers(f, Plain(f, b, c, "load", "", <<v>>), b, <<Promise!Target("load", "", <<Meaning(f, v)>>, Blocks(c))>>,
               result, nb)
    BY <1>1, <2>5, PlainOneDecoded DEF p, result
  <2>. QED
    BY <1>3, <1>22, <2>1, <2>2, <2>3, <2>5, <2>6
<1>23. CASE c.op = "StoreGlobal"
  <2>. DEFINE v == Get(module.globals, c.x)
              s == Plain(f, b, c, "store", "", <<args[1], v>>)
  <2>1. r = Pushing(s, null)
    BY <1>23 DEF r, codegenInstruction, args, Operands, Arithmetic, Compare
  <2>2. T = <<Promise!Target("store", "", <<m[1], Promise!Named("global", c.x)>>, << >>)>>
    BY <1>23 DEF T, Promise!Translation, Promise!Arithmetic, Promise!Compare
  <2>3. M = Promise!Nothing
    BY <1>23 DEF M, Promise!MeaningAt, Promise!Constants, Promise!Effects
  <2>4. v # null
    BY <1>23 DEF Impossible
  <2>5. Meaning(f, v) = Promise!Named("global", c.x) /\ Ordinary(f, v) /\ IsValue(v, Len(f.made))
    BY <2>4, GlobalMeans
  <2>. HIDE DEF v
  <2>6. 1 \in 1..Len(c.uses)
    <3>1. Len(c.uses) = 1
      BY <1>23 DEF Complete
    <3>. QED
      BY <3>1
  <2>7. Ordinary(f, args[1]) /\ Meaning(f, args[1]) = m[1] /\ IsValue(args[1], Len(f.made))
    BY <1>0, <1>1, <2>6 DEF AllMade
  <2>8. Lowers(f, s, b, <<Promise!Target("store", "", <<Meaning(f, args[1]), Meaning(f, v)>>, Blocks(c))>>, result, nb)
    BY <1>1, <2>5, <2>7, PlainTwoDecoded DEF p, result
  <2>9. s = [f |-> s.f, v |-> s.v, allocas |-> s.allocas]
    BY DEF Plain
  <2>. HIDE DEF s
  <2>10. Lowers(f, r, b, <<Promise!Target("store", "", <<Meaning(f, args[1]), Meaning(f, v)>>, Blocks(c))>>,
                Promise!Nothing, nb)
    BY <2>1, <2>8, <2>9, PushingDecoded
  <2>. QED
    BY <1>3, <1>23, <2>2, <2>3, <2>5, <2>7, <2>10
<1>24. CASE c.op = "StoreVar"
  <2>. DEFINE s == Plain(f, b, c, "store", "", <<args[2], args[1]>>)
  <2>1. r = Pushing(s, null)
    BY <1>24 DEF r, codegenInstruction, args, Operands, Arithmetic, Compare
  <2>2. T = <<Promise!Target("store", "", <<m[2], m[1]>>, << >>)>>
    BY <1>24 DEF T, Promise!Translation, Promise!Arithmetic, Promise!Compare
  <2>3. M = Promise!Nothing
    BY <1>24 DEF M, Promise!MeaningAt, Promise!Constants, Promise!Effects
  <2>6. 1 \in 1..Len(c.uses) /\ 2 \in 1..Len(c.uses)
    BY <1>24 DEF Complete
  <2>7. /\ Ordinary(f, args[1]) /\ Meaning(f, args[1]) = m[1] /\ IsValue(args[1], Len(f.made))
        /\ Ordinary(f, args[2]) /\ Meaning(f, args[2]) = m[2] /\ IsValue(args[2], Len(f.made))
    BY <1>0, <1>1, <2>6 DEF AllMade
  <2>8. Lowers(f, s, b, <<Promise!Target("store", "", <<Meaning(f, args[2]), Meaning(f, args[1])>>, Blocks(c))>>, result, nb)
    BY <1>1, <2>7, PlainTwoDecoded DEF p, result
  <2>9. s = [f |-> s.f, v |-> s.v, allocas |-> s.allocas]
    BY DEF Plain
  <2>. HIDE DEF s
  <2>10. Lowers(f, r, b, <<Promise!Target("store", "", <<Meaning(f, args[2]), Meaning(f, args[1])>>, Blocks(c))>>,
                Promise!Nothing, nb)
    BY <2>1, <2>8, <2>9, PushingDecoded
  <2>. QED
    BY <1>3, <1>24, <2>2, <2>3, <2>7, <2>10
<1>25. CASE c.op = "Cast"
  <2>. DEFINE op == ConvertOp(c.from, c.ty)
              val == args[1]
  <2>1. r = Cast(f, b, c, val)
    BY <1>25, SMTT(20) DEF r, codegenInstruction, args, Operands, Arithmetic, Compare
  <2>2. op = Promise!Conversion(c.from, c.ty)
    BY <1>25, ConvertOpLemma DEF TranslatedAsPromised
  <2>3. Len(c.uses) = 1 /\ 1 \in 1..Len(c.uses)
    <3>1. Len(c.uses) = 1
      BY <1>25 DEF Complete
    <3>. QED
      BY <3>1
  <2>4. /\ Ordinary(f, val) /\ Meaning(f, val) = d[c.uses[1]] /\ IsValue(val, Len(f.made))
        /\ c.uses[1] \in 0..(p - 1) /\ m = <<Meaning(f, val)>>
    <3>1. m = [j \in {1} |-> d[c.uses[j]]]
      BY <1>0, <2>3
    <3>2. m = <<d[c.uses[1]]>>
      BY <3>1
    <3>. QED
      BY <1>1, <2>3, <3>2 DEF AllMade
  <2>5. T = IF op \in {"void", "none"} THEN << >>
            ELSE IF Promise!Decimal(c.from) /\ c.ty = "ptr"
            THEN <<Promise!Target("fptoui", "", m, << >>), Promise!Target("inttoptr", "", <<result>>, << >>)>>
            ELSE <<Promise!Target(op, "", m, << >>)>>
    <3>. HIDE DEF op
    <3>. QED
      BY <1>25, <2>2 DEF T, result, Promise!Translation, Promise!Arithmetic, Promise!Compare
  <2>6. M = IF op = "void" THEN Promise!Nothing ELSE IF op = "none" THEN Meaning(f, val) ELSE result
    <3>. HIDE DEF op
    <3>. QED
      BY <1>25, <2>2, <2>4 DEF M, result, Promise!MeaningAt, Promise!Constants, Promise!Effects
  <2>7. op \notin {"void", "none"} => (Promise!Decimal(c.from) /\ c.ty = "ptr" <=> op = "inttoptr" /\ Decimal(c.from))
    BY <2>2, DecimalToPointer
  <2>. DEFINE second == Promise!Target(op, "", <<result>>, Blocks(c))
  <2>8. Lowers(f, Cast(f, b, c, val), b,
                    IF op \in {"void", "none"} THEN << >>
                    ELSE IF op = "inttoptr" /\ Decimal(c.from)
                    THEN <<Promise!Target("fptoui", "", <<Meaning(f, val)>>, Blocks(c)), second>>
                    ELSE <<Promise!Target(op, "", <<Meaning(f, val)>>, Blocks(c))>>,
                    IF op = "void" THEN Promise!Nothing ELSE IF op = "none" THEN Meaning(f, val) ELSE result, nb)
    BY <1>1, <2>4, CastDecoded DEF p, result
  <2>9. Blocks(c) = << >>
    BY <1>3, <1>25
  <2>. HIDE DEF op, val
  <2>. QED
    BY <2>1, <2>4, <2>5, <2>6, <2>7, <2>8, <2>9
<1>26. CASE c.op = "Call"
  <2>1. r = CallInstruction(f, b, c, args)
    BY <1>26 DEF r, codegenInstruction, args, Operands, Arithmetic, Compare
  <2>2. T = <<Promise!Target("call", c.x, m, << >>)>>
            \o IF c.ty = "never" THEN <<Promise!Target("unreachable", "", << >>, << >>)>> ELSE << >>
    BY <1>26 DEF T, Promise!Translation, Promise!Arithmetic, Promise!Compare
  <2>3. M = result
    BY <1>26 DEF M, result, Promise!MeaningAt, Promise!Constants, Promise!Effects
  <2>4. Lowers(f, CallInstruction(f, b, c, args), b, <<Promise!Target("call", c.x, Meanings(f, args), Blocks(c))>>
                      \o IF c.ty = "never" THEN <<Promise!Target("unreachable", "", << >>, << >>)>> ELSE << >>,
               result, nb)
    BY <1>1, <1>2, CallDecoded DEF p, result, Meanings
  <2>. QED
    BY <1>1, <1>3, <1>26, <2>1, <2>2, <2>3, <2>4
<1>27. c.op # "StoreInPtr"
  BY DEF TranslatedAsPromised
<1>. QED
  BY <1>4, <1>7, <1>8, <1>9, <1>10, <1>11, <1>12, <1>13, <1>14, <1>15, <1>16, <1>17, <1>18, <1>19, <1>20, <1>21,
     <1>22, <1>23, <1>24, <1>25, <1>26, <1>27 DEF Opcodes

-----------------------------------------------------------------------------
(* The tables as a function grows.                                         *)

\* Values mean what they meant as instructions are made.
LEMMA MeantGrows ==
    ASSUME NEW f, NEW g, Begins(f, g), NEW values, AllMade(values, Len(f.made)),
           NEW cir, NEW d, Meant(f, values, cir, d)
    PROVE  Meant(g, values, cir, d)
<1>1. ASSUME NEW p \in DOMAIN values
      PROVE  /\ Meaning(g, values[p]) = d[p - 1]
             /\ \A x \in Reserved : ~PlaceOf(g, values[p], x)
  BY MeaningGrows DEF AllMade, Meant
<1>. QED
  BY <1>1 DEF Meant

\* One value more.
LEMMA MeantMore ==
    ASSUME NEW g, NEW values, IsSeq(values), NEW cir, NEW d, Meant(g, values, cir, d),
           Len(values) < Len(cir), Len(cir) \in Nat,
           NEW v, Meaning(g, v) = d[Len(values)], Ordinary(g, v)
    PROVE  Meant(g, Append(values, v), cir, d)
<1>1. /\ Len(values) \in Nat /\ DOMAIN values = 1..Len(values)
      /\ Len(Append(values, v)) = Len(values) + 1
      /\ DOMAIN Append(values, v) = 1..(Len(values) + 1)
      /\ \A k \in 1..Len(values) : Append(values, v)[k] = values[k]
      /\ Append(values, v)[Len(values) + 1] = v
  BY AppendLemma
<1>2. ASSUME NEW p \in 1..(Len(values) + 1)
      PROVE  /\ Meaning(g, Append(values, v)[p]) = d[p - 1]
             /\ \A x \in Reserved : ~PlaceOf(g, Append(values, v)[p], x)
  <2>1. CASE p = Len(values) + 1
    <3>1. p - 1 = Len(values) /\ Append(values, v)[p] = v
      BY <1>1, <2>1
    <3>. QED
      BY <3>1 DEF Ordinary
  <2>2. CASE p # Len(values) + 1
    <3>1. p \in 1..Len(values)
      BY <1>1, <2>2
    <3>. QED
      BY <1>1, <3>1 DEF Meant
  <2>. QED
    BY <2>1, <2>2
<1>3. Len(values) + 1 <= Len(cir)
  BY <1>1
<1>. QED
  BY <1>1, <1>2, <1>3 DEF Meant

\* The places stay in the table.
LEMMA FoundGrows ==
    ASSUME NEW f, NEW g, Begins(f, g), NEW table, AllocasMade(table, Len(f.made)),
           NEW cir, NEW m \in Nat, NEW p \in Nat, m <= p, Found(f, table, cir, m)
    PROVE  Found(g, table, cir, p)
<1>1. ASSUME NEW e \in table
      PROVE  /\ PlaceOf(g, e[2], e[1]) /\ e[1] \notin Reserved
             /\ \/ g.made[e[2].p].at = -1
                \/ \E q \in 1..p : cir[q].op = "VarInit" /\ cir[q].x = e[1]
  <2>1. IsValue(e[2], Len(f.made))
    BY DEF AllocasMade
  <2>2. PlaceOf(f, e[2], e[1]) /\ e[1] \notin Reserved
    BY DEF Found
  <2>3. PlaceOf(g, e[2], e[1])
    BY <2>1, <2>2, MeaningGrows
  <2>4. g.made[e[2].p] = f.made[e[2].p]
    BY <2>1, <2>2 DEF PlaceOf, IsValue, Begins
  <2>5. \A q \in 1..m : q \in 1..p
    OBVIOUS
  <2>. QED
    BY <2>2, <2>3, <2>4, <2>5 DEF Found
<1>. QED
  BY <1>1 DEF Found

\* One place more.
LEMMA FoundPut ==
    ASSUME NEW g, NEW table, NEW cir, NEW m, Found(g, table, cir, m),
           NEW x, x \notin Reserved, NEW v, PlaceOf(g, v, x),
           g.made[v.p].at = -1 \/ \E q \in 1..m : cir[q].op = "VarInit" /\ cir[q].x = x
    PROVE  Found(g, Put(table, x, v), cir, m)
<1>1. ASSUME NEW e \in Put(table, x, v)
      PROVE  e \in table \/ (e[1] = x /\ e[2] = v)
  BY DEF Put
<1>. QED
  BY <1>1 DEF Found

\* Names stay in the table.
LEMMA HasPut ==
    ASSUME NEW table, NEW x, NEW v, NEW y, Has(table, y) \/ y = x
    PROVE  Has(Put(table, x, v), y)
<1>1. CASE y = x
  <2>1. <<x, v>>[1] = x /\ <<x, v>> \in Put(table, x, v)
    BY DEF Put
  <2>. QED
    BY <1>1, <2>1 DEF Has
<1>2. CASE y # x
  BY <1>2 DEF Has, Put
<1>. QED
  BY <1>1, <1>2

\* Only a variable changes the table.
LEMMA TableAfter ==
    ASSUME NEW f, NEW b, NEW c
    PROVE  LET r == codegenInstruction(f, b, c)
           IN  /\ c.op # "VarInit" /\ c.op \in Opcodes \ {"Shift", "InlineAsm"} => r.allocas = functionVarsAllocas
               /\ c.op = "VarInit" => r = VarInit(f, b, c, Operands(c))
<1>. DEFINE r == codegenInstruction(f, b, c)
            args == Operands(c)
<1>0. ASSUME NEW s, s.allocas = functionVarsAllocas
      PROVE  Pushing(s, null).allocas = functionVarsAllocas
  BY <1>0 DEF Pushing
<1>1. \A op, x, as : Plain(f, b, c, op, x, as).allocas = functionVarsAllocas
  BY SameAllocas
<1>2. \A v : NoCode(f, v).allocas = functionVarsAllocas
  BY SameAllocas
<1>3. CASE c.op = "VarInit"
  BY <1>3 DEF codegenInstruction, Operands, Arithmetic, Compare
<1>4. CASE c.op = "Cast"
  <2>1. r = Cast(f, b, c, args[1])
    BY <1>4 DEF codegenInstruction, Operands, Arithmetic, Compare
  <2>2. Cast(f, b, c, args[1]).allocas = functionVarsAllocas
    <3>. HIDE DEF args
    <3>1. \A g, op, x, as : Plain(g, b, c, op, x, as).allocas = functionVarsAllocas
      BY SameAllocas
    <3>. QED
      BY <1>2, <3>1 DEF Cast
  <2>. QED
    BY <1>4, <2>1, <2>2
<1>5. CASE c.op = "Call"
  <2>1. r = CallInstruction(f, b, c, args)
    BY <1>5 DEF codegenInstruction, Operands, Arithmetic, Compare
  <2>2. CallInstruction(f, b, c, args).allocas = functionVarsAllocas
    <3>. HIDE DEF args
    <3>. QED
      BY DEF CallInstruction, Plain
  <2>. QED
    BY <1>5, <2>1, <2>2
<1>6. CASE c.op \in Opcodes \ {"Shift", "InlineAsm", "VarInit", "Cast", "Call"}
  <2>1. CASE c.op \in {"ConstNumber", "ConstBool", "ConstNull", "ConstVoid", "LoadString", "InitArg"}
    <3>1. \E v : r = NoCode(f, v)
      <4>1. CASE c.op \in {"ConstNumber", "ConstBool", "ConstNull"}
        BY <4>1 DEF codegenInstruction, Operands, Arithmetic, Compare
      <4>2. CASE c.op \in {"ConstVoid"}
        BY <4>2 DEF codegenInstruction, Operands, Arithmetic, Compare
      <4>3. CASE c.op \in {"LoadString"}
        BY <4>3 DEF codegenInstruction, Operands, Arithmetic, Compare
      <4>4. CASE c.op \in {"InitArg"}
        BY <4>4 DEF codegenInstruction, Operands, Arithmetic, Compare
      <4>. QED
        BY <2>1, <4>1, <4>2, <4>3, <4>4
    <3>. QED
      BY <1>2, <1>6, <3>1
  <2>2. CASE c.op \in {"LoadVar", "Deref", "LoadGlobal", "Return", "Phi", "Sizeof", "GepArray", "GepStruct", "ConstNever"}
    <3>1. \E op, x, as : r = Plain(f, b, c, op, x, as)
      <4>1. CASE c.op \in {"LoadVar", "Deref"}
        BY <4>1 DEF codegenInstruction, Operands, Arithmetic, Compare
      <4>2. CASE c.op \in {"LoadGlobal"}
        BY <4>2 DEF codegenInstruction, Operands, Arithmetic, Compare
      <4>3. CASE c.op \in {"Return"}
        BY <4>3 DEF codegenInstruction, Operands, Arithmetic, Compare
      <4>4. CASE c.op \in {"Phi"}
        BY <4>4 DEF codegenInstruction, Operands, Arithmetic, Compare
      <4>5. CASE c.op \in {"Sizeof"}
        BY <4>5 DEF codegenInstruction, Operands, Arithmetic, Compare
      <4>6. CASE c.op \in {"GepArray"}
        BY <4>6 DEF codegenInstruction, Operands, Arithmetic, Compare
      <4>7. CASE c.op \in {"GepStruct"}
        BY <4>7 DEF codegenInstruction, Operands, Arithmetic, Compare
      <4>8. CASE c.op \in {"ConstNever"}
        BY <4>8 DEF codegenInstruction, Operands, Arithmetic, Compare
      <4>. QED
        BY <2>2, <4>1, <4>2, <4>3, <4>4, <4>5, <4>6, <4>7, <4>8
    <3>. QED
      BY <1>1, <1>6, <3>1
  <2>3. CASE c.op \in Arithmetic \union Compare
    <3>1. \E op, x, as : r = Plain(f, b, c, op, x, as)
      <4>1. CASE c.op \in Arithmetic
        BY <4>1 DEF codegenInstruction, Operands, Arithmetic, Compare
      <4>2. CASE c.op \in Compare
        BY <4>2 DEF codegenInstruction, Operands, Arithmetic, Compare
      <4>. QED
        BY <2>3, <4>1, <4>2
    <3>. QED
      BY <1>1, <1>6, <3>1
  <2>4. CASE c.op \in {"StoreVar", "StoreInPtr", "StoreGlobal", "Goto", "GotoIf"}
    <3>1. \E op, x, as : r = Pushing(Plain(f, b, c, op, x, as), null)
      <4>1. CASE c.op \in {"StoreVar"}
        BY <4>1 DEF codegenInstruction, Operands, Arithmetic, Compare
      <4>2. CASE c.op \in {"StoreInPtr"}
        BY <4>2 DEF codegenInstruction, Operands, Arithmetic, Compare
      <4>3. CASE c.op \in {"StoreGlobal"}
        BY <4>3 DEF codegenInstruction, Operands, Arithmetic, Compare
      <4>4. CASE c.op \in {"Goto", "GotoIf"}
        BY <4>4 DEF codegenInstruction, Operands, Arithmetic, Compare
      <4>. QED
        BY <2>4, <4>1, <4>2, <4>3, <4>4
    <3>. QED
      BY <1>0, <1>1, <1>6, <3>1
  <2>. QED
    BY <1>6, <2>1, <2>2, <2>3, <2>4 DEF Opcodes, Arithmetic, Compare
<1>. QED
  BY <1>3, <1>4, <1>5, <1>6 DEF Opcodes

-----------------------------------------------------------------------------
(* Positions.                                                              *)

\* FlattenSeq is the same operator in both modules.
LEMMA SameFlatten ==
    ASSUME NEW ss
    PROVE  Promise!FlattenSeq(ss) = FlattenSeq(ss)
BY DEF FlattenSeq, Promise!FlattenSeq

\* The length of a concatenation.
LEMMA SeqLengths ==
    ASSUME NEW Y, NEW s \in Seq(Y), NEW t \in Seq(Y)
    PROVE  Len(s) \in Nat /\ Len(t) \in Nat /\ Len(s \o t) = Len(s) + Len(t)
OBVIOUS

\* The instructions of a block have the positions that follow those of the
\* blocks before it.
LEMMA PositionLemma ==
    ASSUME NEW X, NEW blocks \in Seq(Seq(X)), NEW b \in 1..Len(blocks)
    PROVE  LET first == Promise!Position(blocks, b, 1)
               cir == FlattenSeq(blocks)
           IN  /\ first \in Nat /\ Len(cir) \in Nat /\ Len(blocks[b]) \in Nat
               /\ first + Len(blocks[b]) <= Len(cir)
               /\ \A k \in Int : Promise!Position(blocks, b, k) = first + k - 1
               /\ \A k \in 1..Len(blocks[b]) : cir[first + k] = blocks[b][k]
               /\ Promise!Position(blocks, b + 1, 1) = first + Len(blocks[b])
<1>. DEFINE before == FlattenSeq(SubSeq(blocks, 1, b - 1))
            up == FlattenSeq(SubSeq(blocks, 1, b))
            cir == FlattenSeq(blocks)
<1>1. /\ before \in Seq(X) /\ cir \in Seq(X) /\ blocks[b] \in Seq(X) /\ up = before \o blocks[b]
      /\ Len(before) + Len(blocks[b]) <= Len(cir)
      /\ \A k \in 1..Len(blocks[b]) : cir[Len(before) + k] = blocks[b][k]
  BY FlattenElement
<1>2. b \in Int /\ b + 1 - 1 = b
  <2>1. Len(blocks) \in Nat
    BY SeqFacts
  <2>. QED
    BY <2>1
<1>3. /\ Promise!Position(blocks, b, 1) = Len(before) + 1 - 1
      /\ \A k : Promise!Position(blocks, b, k) = Len(before) + k - 1
      /\ Promise!Position(blocks, b + 1, 1) = Len(up) + 1 - 1
  <2>1. \A a, k : Promise!Position(blocks, a, k) = Len(FlattenSeq(SubSeq(blocks, 1, a - 1))) + k - 1
    BY SameFlatten DEF Promise!Position
  <2>2. Promise!Position(blocks, b + 1, 1) = Len(FlattenSeq(SubSeq(blocks, 1, (b + 1) - 1))) + 1 - 1
    BY <2>1
  <2>. QED
    BY <1>2, <2>1, <2>2
<1>. HIDE DEF before, up, cir
<1>4. /\ Len(before) \in Nat /\ Len(cir) \in Nat /\ Len(blocks[b]) \in Nat
      /\ Len(up) = Len(before) + Len(blocks[b])
  BY <1>1, SeqLengths
<1>5. \A k \in 1..Len(blocks[b]) : Promise!Position(blocks, b, 1) + k = Len(before) + k
  <2>1. Promise!Position(blocks, b, 1) = Len(before)
    BY <1>3, <1>4
  <2>. QED
    BY <2>1
<1>6. /\ Promise!Position(blocks, b, 1) = Len(before)
      /\ \A k \in Int : Promise!Position(blocks, b, k) = Len(before) + k - 1
      /\ Promise!Position(blocks, b + 1, 1) = Len(before) + Len(blocks[b])
  <2>1. PICK w : w = Len(before)
    OBVIOUS
  <2>. QED
    BY <1>3, <1>4
<1>. QED
  BY <1>1, <1>4, <1>6 DEF cir

\* The first instruction of a function has position 0.
LEMMA FirstPosition ==
    ASSUME NEW X, NEW blocks \in Seq(Seq(X))
    PROVE  Promise!Position(blocks, 1, 1) = 0
<1>1. SubSeq(blocks, 1, 0) = << >>
  BY PrefixFacts
<1>2. FlattenSeq(<< >>) = << >>
  <2>1. Len(<< >>) = 0
    OBVIOUS
  <2>2. PICK none : none = << >>
    OBVIOUS
  <2>3. FlattenSeq(none) = none
    BY <2>1, <2>2 DEF FlattenSeq
  <2>. QED
    BY <2>2, <2>3
<1>3. 1 - 1 = 0 /\ Len(<< >>) = 0
  OBVIOUS
<1>4. Promise!Position(blocks, 1, 1) = Len(FlattenSeq(SubSeq(blocks, 1, 1 - 1))) + 1 - 1
  BY SameFlatten DEF Promise!Position
<1>5. FlattenSeq(SubSeq(blocks, 1, 1 - 1)) = << >>
  BY <1>1, <1>2, <1>3
<1>. QED
  BY <1>3, <1>4, <1>5

-----------------------------------------------------------------------------
(* The state while a function is generated.                                *)

\* The code of the function that is generated.
LEMMA CodeLemma ==
    ASSUME BackendInvariant, PromiseInvariant, Generating
    PROVE  /\ n + 1 \in DOMAIN file.functions /\ n + 1 \in DOMAIN module.functions
           /\ Current = module.functions[n + 1] /\ GoodFunction(Current, Len(Function.blocks)) /\ Operates(Current)
           /\ Tables(Len(Current.made)) /\ Len(functionValues) \in Nat
           /\ Function.blocks \in Seq(Seq(CIRInstruction)) /\ Len(Function.blocks) \in Nat /\ Len(Function.blocks) > 0
           /\ Function.blocks # << >>
           /\ CirOf = FlattenSeq(Function.blocks) /\ Len(CirOf) \in Nat /\ DOMAIN CirOf = 1..Len(CirOf)
           /\ Arguments \in Seq(STRING \X STRING) /\ DOMAIN Arguments = 1..Len(Arguments) /\ Len(Arguments) \in Nat
<1>1. Len(module.functions) = n + 1 /\ n + 1 \in DOMAIN module.functions
  BY AppendLemma DEF BackendInvariant, Generating
<1>2. n + 1 \in DOMAIN file.functions
  BY <1>1, FilesWellFormed DEF FilesAssumption, BackendInvariant, Generating
<1>3. /\ Current = module.functions[n + 1] /\ GoodFunction(Current, Len(Function.blocks))
      /\ Tables(Len(Current.made)) /\ Function.blocks \in Seq(Seq(CIRInstruction))
  BY GeneratingLemma
<1>4. Operates(Current)
  BY <1>1, <1>3 DEF PromiseInvariant
<1>5. Len(functionValues) \in Nat
  BY <1>3, AppendLemma DEF Tables, AllMade
<1>6. Len(Function.blocks) \in Nat /\ Len(Function.blocks) > 0 /\ Function.blocks # << >>
  <2>1. Len(Function.blocks) \in Nat /\ Len(Function.blocks) > 0
    BY <1>3 DEF GoodFunction
  <2>2. Len(<< >>) = 0
    OBVIOUS
  <2>. QED
    BY <2>1, <2>2
<1>7. CirOf = FlattenSeq(Function.blocks)
  BY SameFlatten DEF CirOf, Promise!Cir, Function
<1>8. Len(CirOf) \in Nat /\ DOMAIN CirOf = 1..Len(CirOf)
  <2>1. << >> \in Seq(CIRInstruction)
    OBVIOUS
  <2>2. FlattenSeq(Function.blocks) \in Seq(CIRInstruction)
    BY <1>3, <2>1, FlattenAppend
  <2>. QED
    BY <1>7, <2>2, SeqFacts
<1>9. Arguments \in Seq(STRING \X STRING)
  <2>1. file \in Files /\ Function.x \in DOMAIN file.protos
    BY DEF BackendInvariant, PromiseInvariant, ArgumentsFound
  <2>. QED
    BY <2>1, FilesWellFormed DEF FilesAssumption, Arguments, Proto
<1>10. DOMAIN Arguments = 1..Len(Arguments) /\ Len(Arguments) \in Nat
  BY <1>9, SeqFacts
<1>. QED
  BY <1>1, <1>2, <1>3, <1>4, <1>5, <1>6, <1>7, <1>8, <1>9, <1>10

\* The instruction to translate next.
LEMMA InstructionToTranslate ==
    ASSUME BackendInvariant, PromiseInvariant, InBody, bb_codegen_number < Len(Function.blocks), i < Len(Block)
    PROVE  LET c == Block[i + 1]
               b == bb_codegen_number + 1
               p == Len(functionValues)
           IN  /\ bb_codegen_number \in Nat /\ i \in Nat
               /\ b \in 1..Len(Function.blocks) /\ b \in DOMAIN Function.blocks
               /\ Block = Function.blocks[b] /\ Block \in Seq(CIRInstruction)
               /\ Len(Block) \in Nat /\ i + 1 \in 1..Len(Block)
               /\ c \in CIRInstruction /\ Complete(c) /\ TranslatedAsPromised(c)
               /\ p = Promise!Position(Function.blocks, b, i + 1)
               /\ p < Len(CirOf) /\ CirOf[p + 1] = c
               /\ Promise!Denotation(CirOf)[p] = Promise!MeaningAt(Promise!Denotation(CirOf), c, p)
               /\ c.op = "InitArg" =>
                     /\ Has(functionVarsAllocas, c.x)
                     /\ \A q \in 1..p : ~(CirOf[q].op = "VarInit" /\ CirOf[q].x = c.x)
<1>. DEFINE c == Block[i + 1]
            b == bb_codegen_number + 1
            p == Len(functionValues)
            nb == Len(Function.blocks)
<1>0. Generating
  BY DEF InBody
<1>1. /\ Function.blocks \in Seq(Seq(CIRInstruction)) /\ nb \in Nat
      /\ bb_codegen_number \in 0..nb /\ i \in 0..Len(Block) /\ p \in Nat
  BY <1>0, CodeLemma DEF PromiseInvariant, Progress
<1>2. bb_codegen_number \in Nat /\ b \in 1..nb /\ Block = Function.blocks[b]
  BY <1>1 DEF Block
<1>3. b \in DOMAIN Function.blocks
  BY <1>1, <1>2, SeqFacts
<1>4. Block \in Seq(CIRInstruction) /\ Len(Block) \in Nat /\ i \in Nat /\ i + 1 \in 1..Len(Block)
  <2>1. Block \in Seq(CIRInstruction)
    BY <1>1, <1>2, SeqFacts
  <2>2. Len(Block) \in Nat
    BY <2>1, SeqFacts
  <2>. QED
    BY <1>1, <2>1, <2>2
<1>5. c \in CIRInstruction /\ i + 1 \in DOMAIN Block
  BY <1>4, SeqFacts
<1>6. Complete(c)
  <2>1. \A a \in DOMAIN Function.blocks : \A k \in DOMAIN Function.blocks[a] : Complete(Function.blocks[a][k])
    BY <1>0, GeneratingLemma
  <2>. QED
    BY <1>2, <1>3, <1>5, <2>1
<1>7. p = Promise!Position(Function.blocks, b, i + 1)
  BY <1>0 DEF PromiseInvariant, Progress
<1>8. p < Len(CirOf) /\ CirOf[p + 1] = c
  <2>. DEFINE first == Promise!Position(Function.blocks, b, 1)
  <2>1. /\ first \in Nat /\ first + Len(Block) <= Len(CirOf) /\ Len(CirOf) \in Nat
        /\ \A k \in Int : Promise!Position(Function.blocks, b, k) = first + k - 1
        /\ \A k \in 1..Len(Block) : CirOf[first + k] = Block[k]
    <3>1. PICK blocks : blocks = Function.blocks
      OBVIOUS
    <3>2. /\ Promise!Position(blocks, b, 1) \in Nat /\ Len(FlattenSeq(blocks)) \in Nat
          /\ Promise!Position(blocks, b, 1) + Len(blocks[b]) <= Len(FlattenSeq(blocks))
          /\ \A k \in Int : Promise!Position(blocks, b, k) = Promise!Position(blocks, b, 1) + k - 1
          /\ \A k \in 1..Len(blocks[b]) : FlattenSeq(blocks)[Promise!Position(blocks, b, 1) + k] = blocks[b][k]
      <4>1. blocks \in Seq(Seq(CIRInstruction)) /\ b \in 1..Len(blocks)
        BY <1>1, <1>2, <3>1
      <4>. QED
        BY ONLY <4>1, PositionLemma
    <3>3. CirOf = FlattenSeq(blocks) /\ Block = blocks[b]
      BY <1>0, <1>2, <3>1, CodeLemma
    <3>. QED
      BY <3>1, <3>2, <3>3
  <2>. HIDE DEF first
  <2>2. p = first + i
    BY <1>4, <1>7, <2>1
  <2>3. first + (i + 1) = p + 1
    BY <1>4, <2>1, <2>2
  <2>4. CirOf[p + 1] = c
    BY <1>4, <2>1, <2>3
  <2>. QED
    BY <1>4, <2>1, <2>2, <2>4
<1>. HIDE DEF b
<1>9. Promise!Denotation(CirOf)[p] = Promise!MeaningAt(Promise!Denotation(CirOf), c, p)
  <2>1. Len(CirOf) \in Nat /\ p \in 0..(Len(CirOf) - 1)
    BY <1>0, <1>1, <1>8, CodeLemma
  <2>2. Promise!Denotation(CirOf)[p] = Promise!MeaningAt(Promise!Denotation(CirOf), CirOf[p + 1], p)
    BY <2>1, DenotationLemma
  <2>. QED
    BY <1>8, <2>2
<1>10. /\ n + 1 \in DOMAIN file.functions /\ p + 1 \in DOMAIN CirOf
       /\ DOMAIN Arguments = 1..Len(Arguments) /\ Len(Arguments) \in Nat
  BY <1>0, <1>1, <1>8, CodeLemma
<1>11. /\ TranslatedAsPromised(c)
       /\ c.op = "InitArg" => ArgumentFound(n + 1, p + 1)
  <2>1. Translatable
    BY DEF PromiseInvariant
  <2>2. /\ TranslatedAsPromised(CirOf[p + 1])
        /\ CirOf[p + 1].op = "InitArg" => ArgumentFound(n + 1, p + 1)
    BY <1>10, <2>1 DEF Translatable, CirOf
  <2>. QED
    BY <1>8, <2>2
<1>12. ASSUME c.op = "InitArg"
       PROVE  /\ Has(functionVarsAllocas, c.x)
              /\ \A q \in 1..p : ~(CirOf[q].op = "VarInit" /\ CirOf[q].x = c.x)
  <2>1. /\ \E a \in ToSet(Arguments) : a[1] = c.x
        /\ \A j \in 1..p : ~(CirOf[j].op = "VarInit" /\ CirOf[j].x = c.x)
    <3>1. (p + 1) - 1 = p
      BY <1>1
    <3>2. /\ \E a \in ToSet(Arguments) : a[1] = CirOf[p + 1].x
          /\ \A j \in 1..((p + 1) - 1) : ~(CirOf[j].op = "VarInit" /\ CirOf[j].x = CirOf[p + 1].x)
      BY <1>11, <1>12 DEF ArgumentFound, CirOf, Arguments, Function
    <3>. QED
      BY <1>8, <3>1, <3>2
  <2>2. PICK j \in 1..Len(Arguments) : Arguments[j][1] = c.x
    BY <1>10, <2>1 DEF ToSet
  <2>3. Hidden \in {0, 1} /\ args_stored = Len(Arguments) + Hidden
    BY DEF Hidden, InBody, ArgumentsStored, Arguments
  <2>4. ArgumentsFound
    BY <1>0 DEF PromiseInvariant
  <2>5. CASE Hidden = 0
    BY <1>10, <2>2, <2>3, <2>4, <2>5, <2>1 DEF ArgumentsFound
  <2>6. CASE Hidden = 1
    <3>1. ~(args_stored <= Len(Arguments))
      BY <1>10, <2>3, <2>6
    <3>2. Arguments = << >>
      BY <2>4, <2>6, <3>1 DEF ArgumentsFound
    <3>. QED
      BY <2>2, <3>2
  <2>. QED
    BY <2>3, <2>5, <2>6
<1>. QED
  BY <1>1, <1>2, <1>3, <1>4, <1>5, <1>6, <1>7, <1>8, <1>9, <1>11, <1>12 DEF b

-----------------------------------------------------------------------------
(* What a step leaves as it is.                                            *)

\* The return type does not change.
LEMMA SameStructs ==
    ASSUME file' = file, NEW ty
    PROVE  has_sret(ty)' = has_sret(ty)
<1>1. is_just_struct(ty)' = is_just_struct(ty)
  BY DEF is_just_struct, Structs
<1>2. find_struct_type_size(ty)' = find_struct_type_size(ty)
  BY DEF find_struct_type_size, is_just_struct, Structs, Members
<1>. QED
  BY <1>1, <1>2 DEF has_sret, should_return_struct_with_ptr

\* The file does not change, nor what depends on it.
LEMMA SameFile ==
    ASSUME file' = file
    PROVE  /\ Translatable' = Translatable
           /\ n' = n => /\ CirOf' = CirOf /\ Promise!Denotation(CirOf)' = Promise!Denotation(CirOf)
                        /\ Function' = Function /\ Arguments' = Arguments /\ Hidden' = Hidden
                        /\ bb_codegen_number' = bb_codegen_number => Block' = Block
<1>1. Translatable' = Translatable
  BY DEF Translatable, TranslatedAsPromised, ArgumentFound, Promise!Cir, Structs, Members, Proto
<1>2. ASSUME n' = n
      PROVE  /\ CirOf' = CirOf
             /\ Function' = Function /\ Arguments' = Arguments /\ Hidden' = Hidden
             /\ bb_codegen_number' = bb_codegen_number => Block' = Block
  <2>1. /\ CirOf' = CirOf /\ Function' = Function /\ Arguments' = Arguments
        /\ bb_codegen_number' = bb_codegen_number => Block' = Block
    BY <1>2 DEF CirOf, Promise!Cir, Function, Arguments, Proto, Block
  <2>2. PICK ty : ty = Proto(Function.x).ret
    OBVIOUS
  <2>3. Proto(Function.x).ret' = ty
    BY <1>2, <2>2 DEF Proto, Function
  <2>4. has_sret(ty)' = has_sret(ty)
    BY SameStructs
  <2>5. Hidden' = Hidden
    BY <2>2, <2>3, <2>4 DEF Hidden
  <2>. QED
    BY <2>1, <2>5
<1>3. ASSUME n' = n
      PROVE  Promise!Denotation(CirOf)' = Promise!Denotation(CirOf)
  <2>1. CirOf' = CirOf
    BY <1>2, <1>3
  <2>2. \A cir : Promise!Denotation(cir)' = Promise!Denotation(cir)
    BY DEF Promise!Denotation, Promise!MeaningAt
  <2>. QED
    BY <2>1, <2>2
<1>. QED
  BY <1>1, <1>2, <1>3

-----------------------------------------------------------------------------
(* The steps.                                                              *)

\* A step that changes the function that is generated.
LEMMA CodeUpdate ==
    ASSUME BackendInvariant, Generating, NEW g,
           module' = [module EXCEPT !.functions[n + 1] = g], n' = n
    PROVE  /\ Current' = g
           /\ module'.strings = module.strings /\ module'.globals = module.globals
           /\ Len(module'.functions) = Len(module.functions) /\ DOMAIN module'.functions = DOMAIN module.functions
           /\ \A F \in DOMAIN module.functions :
                 module'.functions[F] = IF F = n + 1 THEN g ELSE module.functions[F]
<1>1. PICK S : module.functions \in Seq(S)
  BY DEF BackendInvariant, IsSeq
<1>2. n \in Nat /\ Len(module.functions) = n + 1 /\ n + 1 \in DOMAIN module.functions
  BY <1>1 DEF BackendInvariant, Generating
<1>3. module' = [strings |-> module.strings, globals |-> module.globals, structs |-> module.structs,
                 functions |-> [module.functions EXCEPT ![n + 1] = g]]
  BY DEF BackendInvariant
<1>4. module.functions \in Seq(S \union {g}) /\ module'.functions \in Seq(S \union {g})
  BY <1>1, <1>2, <1>3
<1>5. /\ Len(module'.functions) = n + 1
      /\ DOMAIN module'.functions = DOMAIN module.functions
      /\ module'.functions[n + 1] = g
      /\ \A F \in DOMAIN module.functions : F # n + 1 => module'.functions[F] = module.functions[F]
  BY <1>1, <1>2, <1>3
<1>6. Current' = g
  BY <1>2, <1>5 DEF Current, Last
<1>. QED
  BY <1>2, <1>3, <1>5, <1>6

\* A step that changes the function and the tables keeps the invariant.
LEMMA PromiseUpdate ==
    ASSUME BackendInvariant, PromiseInvariant, Generating, NEW g, Operates(g),
           module' = [module EXCEPT !.functions[n + 1] = g],
           UNCHANGED <<file, phase, n>>,
           Progress', ArgumentsFound',
           Meant(g, functionValues', CirOf, Promise!Denotation(CirOf)),
           Found(g, functionVarsAllocas', CirOf, Len(functionValues'))
    PROVE  PromiseInvariant'
<1>1. /\ Current' = g
      /\ module'.strings = module.strings /\ module'.globals = module.globals
      /\ Len(module'.functions) = Len(module.functions) /\ DOMAIN module'.functions = DOMAIN module.functions
      /\ \A F \in DOMAIN module.functions :
            module'.functions[F] = IF F = n + 1 THEN g ELSE module.functions[F]
  BY CodeUpdate
<1>2. Translatable' = Translatable /\ CirOf' = CirOf /\ Promise!Denotation(CirOf)' = Promise!Denotation(CirOf)
  BY SameFile
<1>3. ValuesMeant(Current)'
  BY <1>1, <1>2 DEF ValuesMeant
<1>4. AllocasFound(Current)'
  BY <1>1, <1>2 DEF AllocasFound
<1>5. \A F \in DOMAIN module'.functions : Operates(module'.functions[F])
  BY <1>1 DEF PromiseInvariant
<1>6. phase' = "functions" /\ Len(module'.functions) = n' + 1 /\ n' \in Nat
  BY <1>1 DEF Generating, BackendInvariant
<1>7. Len(module'.functions) # n'
  BY <1>6
<1>8. /\ Translatable'
      /\ module'.strings = file'.strings
      /\ \A e \in module'.globals : e[2] \in {null, Value("global", e[1], 0)}
  BY <1>1, <1>2, <1>6 DEF PromiseInvariant
<1>. QED
  BY <1>3, <1>4, <1>5, <1>6, <1>7, <1>8 DEF PromiseInvariant

\* The arguments stay where they are.
LEMMA ArgumentsKept ==
    ASSUME ArgumentsFound, ArgumentsStored, UNCHANGED <<file, n, args_stored>>,
           \A y : Has(functionVarsAllocas, y) => Has(functionVarsAllocas', y)
    PROVE  ArgumentsFound'
<1>1. Function' = Function /\ Arguments' = Arguments /\ Hidden' = Hidden
  BY SameFile
<1>2. ArgumentsStored'
  BY <1>1 DEF ArgumentsStored, Arguments
<1>3. (\A j \in 1..args_stored : Has(functionVarsAllocas, Arguments[j][1]))
        => \A j \in 1..args_stored : Has(functionVarsAllocas', Arguments[j][1])
  OBVIOUS
<1>. QED
  BY <1>1, <1>2, <1>3 DEF ArgumentsFound

\* Where the next instruction is.
LEMMA NextPosition ==
    ASSUME BackendInvariant, PromiseInvariant, InBody, bb_codegen_number < Len(Function.blocks), i < Len(Block),
           UNCHANGED <<file, n, bb_codegen_number>>, i' = i + 1,
           \/ Len(functionValues') = Len(functionValues) + 1
           \/ bb_codegen_number = Len(Function.blocks) - 1 /\ i = Len(Block) - 1
    PROVE  Progress'
<1>. DEFINE b == bb_codegen_number + 1
            nb == Len(Function.blocks)
<1>1. /\ bb_codegen_number \in Nat /\ i \in Nat /\ b \in 1..nb
      /\ Block = Function.blocks[b] /\ Len(Block) \in Nat /\ i + 1 \in 1..Len(Block)
      /\ Len(functionValues) = Promise!Position(Function.blocks, b, i + 1)
  BY InstructionToTranslate
<1>2. Function' = Function /\ Block' = Block
  BY SameFile
<1>3. Function.blocks \in Seq(Seq(CIRInstruction)) /\ nb \in Nat
  BY CodeLemma DEF InBody
<1>4. PICK first : first \in Nat /\ \A k \in Int : Promise!Position(Function.blocks, b, k) = first + k - 1
  BY <1>1, <1>3, PositionLemma
<1>5. Promise!Position(Function.blocks, b, i' + 1) = Promise!Position(Function.blocks, b, i + 1) + 1
  <2>1. i + 1 \in Int /\ (i + 1) + 1 \in Int
    BY <1>1
  <2>2. /\ Promise!Position(Function.blocks, b, i + 1) = first + (i + 1) - 1
        /\ Promise!Position(Function.blocks, b, (i + 1) + 1) = first + ((i + 1) + 1) - 1
    BY <1>4, <2>1
  <2>. QED
    BY <1>1, <1>4, <2>2
<1>6. /\ bb_codegen_number' \in 0..nb /\ i' \in 0..Len(Block)
  BY <1>1, <1>3
<1>7. CASE Len(functionValues') = Len(functionValues) + 1
  <2>1. Len(functionValues') = Promise!Position(Function.blocks, b, i' + 1)
    BY <1>1, <1>5, <1>7
  <2>2. Promise!Position(Function.blocks, b, i + 1)' = Promise!Position(Function.blocks, b, i' + 1)
    BY <1>2
  <2>. QED
    BY <1>2, <1>6, <2>1, <2>2 DEF Progress
<1>8. CASE bb_codegen_number = nb - 1 /\ i = Len(Block) - 1
  <2>1. ~(i' < Len(Block) \/ bb_codegen_number' < nb - 1)
    BY <1>1, <1>3, <1>8
  <2>. QED
    BY <1>2, <1>6, <2>1 DEF Progress
<1>. QED
  BY <1>7, <1>8

\* The instruction at position p of the function, and what its operands mean.
Promised(c, p) == Promise!Translation(c, p, [j \in DOMAIN c.uses |-> Promise!Denotation(CirOf)[c.uses[j]]])

\* A return, as promised.
LEMMA ReturnTranslates ==
    ASSUME NEW c, NEW p, NEW m, c.op = "Return"
    PROVE  Promise!Translation(c, p, m) = <<Promise!Target("ret", "", m, << >>)>>
BY DEF Promise!Translation, Promise!Arithmetic, Promise!Compare

\* The return of a struct through memory, at the end of the function.
LEMMA ReturnEffect ==
    ASSUME BackendInvariant, PromiseInvariant, NextInstruction, ~Stop, IsSretReturn(Block[i + 1])
    PROVE  LET b == bb_codegen_number + 1
               g == handleSretReturn(Current, b, Block[i + 1])
           IN  /\ module' = [module EXCEPT !.functions[n + 1] = g]
               /\ Writes(Current, g, b, Promised(Block[i + 1], Len(functionValues)), Len(Function.blocks))
               /\ Progress' /\ ArgumentsFound'
               /\ Meant(g, functionValues', CirOf, Promise!Denotation(CirOf))
               /\ Found(g, functionVarsAllocas', CirOf, Len(functionValues'))
<1>. DEFINE c == Block[i + 1]
            b == bb_codegen_number + 1
            nb == Len(Function.blocks)
            g == handleSretReturn(Current, b, c)
            d == Promise!Denotation(CirOf)
<1>1. /\ Generating /\ InBody /\ ArgumentsStored
      /\ bb_codegen_number < nb /\ i < Len(Block) /\ ~Impossible(c)
      /\ module' = [module EXCEPT !.functions[n + 1] = g]
      /\ UNCHANGED <<functionValues, functionVarsAllocas, file, phase, n, bb_codegen_number, args_stored>>
      /\ i' = i + 1
  BY DEF NextInstruction, InBody
<1>2. /\ c.op = "Return" /\ bb_codegen_number = nb - 1 /\ i = Len(Block) - 1
  BY DEF IsSretReturn
<1>3. b \in 1..nb /\ c \in CIRInstruction /\ Complete(c)
  BY <1>1, InstructionToTranslate
<1>4. /\ GoodFunction(Current, nb) /\ Operates(Current) /\ Tables(Len(Current.made)) /\ Len(functionValues) \in Nat
  BY <1>1, CodeLemma
<1>5. ValuesMeant(Current) /\ AllocasFound(Current) /\ ArgumentsFound
  BY <1>1 DEF PromiseInvariant
<1>6. Len(c.uses) = 1
  BY <1>2, <1>3 DEF Complete
<1>7. /\ DOMAIN c.uses = 1..1
      /\ IsValue(At(c.uses[1]), Len(Current.made)) /\ Ordinary(Current, At(c.uses[1]))
      /\ Meaning(Current, At(c.uses[1])) = d[c.uses[1]]
  <2>. DEFINE args == Operands(c)
  <2>1. /\ AllMade(args, Len(Current.made)) /\ DOMAIN args = 1..Len(c.uses)
        /\ \A k \in 1..Len(c.uses) : /\ args[k] = At(c.uses[k])
                                     /\ Ordinary(Current, args[k]) /\ Meaning(Current, args[k]) = d[c.uses[k]]
    BY <1>1, <1>3, <1>4, <1>5, OperandsMeant
  <2>2. 1 \in 1..Len(c.uses) /\ DOMAIN args = DOMAIN c.uses
    BY <1>6 DEF Operands
  <2>. HIDE DEF args, d
  <2>. QED
    BY <1>6, <2>1, <2>2 DEF AllMade
<1>8. AllocasMade(functionVarsAllocas, Len(Current.made)) /\ AllMade(functionValues, Len(Current.made))
  BY <1>4 DEF Tables
<1>9. Promised(c, Len(functionValues)) = <<Promise!Target("ret", "", <<Meaning(Current, At(c.uses[1]))>>, << >>)>>
  <2>1. [j \in DOMAIN c.uses |-> d[c.uses[j]]] = <<d[c.uses[1]]>>
    <3>1. [j \in 1..1 |-> d[c.uses[j]]] = [j \in {1} |-> d[c.uses[j]]]
      OBVIOUS
    <3>2. [j \in {1} |-> d[c.uses[j]]] = <<d[c.uses[1]]>>
      OBVIOUS
    <3>. QED
      BY <1>7, <3>1, <3>2
  <2>2. PICK m : m = [j \in DOMAIN c.uses |-> d[c.uses[j]]]
    OBVIOUS
  <2>3. Promise!Translation(c, Len(functionValues), m) = <<Promise!Target("ret", "", m, << >>)>>
    BY <1>2, ReturnTranslates
  <2>. HIDE DEF d
  <2>. QED
    BY <1>7, <2>1, <2>2, <2>3 DEF Promised, d
<1>10. Writes(Current, g, b, Promised(c, Len(functionValues)), nb)
  BY <1>3, <1>4, <1>7, <1>8, <1>9, SretDecoded
<1>11. Begins(Current, g)
  BY <1>10 DEF Writes
<1>12. Progress'
  BY <1>1, <1>2, NextPosition
<1>13. ArgumentsFound'
  BY <1>1, <1>5, ArgumentsKept
<1>. HIDE DEF g
<1>14. Meant(g, functionValues', CirOf, Promise!Denotation(CirOf))
  BY <1>1, <1>5, <1>8, <1>11, MeantGrows DEF ValuesMeant
<1>15. Found(g, functionVarsAllocas', CirOf, Len(functionValues'))
  <2>1. Len(functionValues) <= Len(functionValues)
    BY <1>4
  <2>. QED
    BY <1>1, <1>4, <1>5, <1>8, <1>11, <2>1, FoundGrows DEF AllocasFound
<1>. QED
  BY <1>1, <1>10, <1>12, <1>13, <1>14, <1>15 DEF g

\* Every other instruction.
LEMMA InstructionEffect ==
    ASSUME BackendInvariant, PromiseInvariant, NextInstruction, ~Stop, ~IsSretReturn(Block[i + 1])
    PROVE  LET b == bb_codegen_number + 1
               g == codegenInstruction(Current, b, Block[i + 1]).f
           IN  /\ module' = [module EXCEPT !.functions[n + 1] = g]
               /\ Writes(Current, g, b, Promised(Block[i + 1], Len(functionValues)), Len(Function.blocks))
               /\ Progress' /\ ArgumentsFound'
               /\ Meant(g, functionValues', CirOf, Promise!Denotation(CirOf))
               /\ Found(g, functionVarsAllocas', CirOf, Len(functionValues'))
<1>. DEFINE c == Block[i + 1]
            b == bb_codegen_number + 1
            nb == Len(Function.blocks)
            r == codegenInstruction(Current, b, c)
            g == r.f
            d == Promise!Denotation(CirOf)
            p == Len(functionValues)
            m == Len(Current.made)
            x == c.x
<1>1. /\ Generating /\ InBody /\ ArgumentsStored
      /\ bb_codegen_number < nb /\ i < Len(Block) /\ ~Impossible(c)
      /\ module' = [module EXCEPT !.functions[n + 1] = g]
      /\ functionValues' = Append(functionValues, r.v)
      /\ functionVarsAllocas' = r.allocas
      /\ UNCHANGED <<file, phase, n, bb_codegen_number, args_stored>>
      /\ i' = i + 1
  BY DEF NextInstruction, InBody, PushValue
<1>2. /\ b \in 1..nb /\ c \in CIRInstruction /\ Complete(c) /\ TranslatedAsPromised(c)
      /\ p < Len(CirOf) /\ CirOf[p + 1] = c /\ d[p] = Promise!MeaningAt(d, c, p)
      /\ c.op = "InitArg" =>
            /\ Has(functionVarsAllocas, c.x)
            /\ \A q \in 1..p : ~(CirOf[q].op = "VarInit" /\ CirOf[q].x = c.x)
  BY <1>1, InstructionToTranslate
<1>3. /\ GoodFunction(Current, nb) /\ Operates(Current) /\ Tables(m) /\ p \in Nat /\ Len(CirOf) \in Nat
  BY <1>1, CodeLemma
<1>4. /\ ValuesMeant(Current) /\ AllocasFound(Current) /\ ArgumentsFound
      /\ \A e \in module.globals : e[2] \in {null, Value("global", e[1], 0)}
      /\ module.strings = file.strings
  BY <1>1 DEF PromiseInvariant, Generating
<1>5. AllocasMade(functionVarsAllocas, m) /\ AllMade(functionValues, m) /\ IsSeq(functionValues)
  BY <1>3 DEF Tables, AllMade
<1>6. Lowers(Current, r, b, Promised(c, p), d[p], nb)
  <2>1. Lowers(Current, r, b, Promise!Translation(c, p, [j \in DOMAIN c.uses |-> d[c.uses[j]]]),
               Promise!MeaningAt(d, c, p), nb)
    BY <1>1, <1>2, <1>3, <1>4, InstructionDecoded
  <2>. QED
    BY <1>2, <2>1 DEF Promised
<1>7. c.op # "VarInit" => r.allocas = functionVarsAllocas
  BY <1>1, <1>2, TableAfter DEF CIRInstruction, Impossible
<1>8. c.op = "VarInit" =>
         x \notin Reserved /\ r.allocas = Put(functionVarsAllocas, x, r.v) /\ PlaceOf(r.f, r.v, x)
  <2>1. SUFFICES ASSUME c.op = "VarInit"
                 PROVE  x \notin Reserved /\ r.allocas = Put(functionVarsAllocas, x, r.v) /\ PlaceOf(r.f, r.v, x)
    OBVIOUS
  <2>2. c.x \notin Reserved
    BY <1>2, <2>1 DEF TranslatedAsPromised
  <2>. DEFINE args == Operands(c)
  <2>3. r = VarInit(Current, b, c, args)
    BY <2>1, TableAfter
  <2>4. AllMade(args, m) /\ \A k \in DOMAIN args : Ordinary(Current, args[k])
    BY <1>1, <1>2, <1>3, <1>4, OperandsMeant
  <2>. HIDE DEF args, r
  <2>5. /\ Lowers(Current, VarInit(Current, b, c, args), b,
                  IF args = << >> THEN << >>
                  ELSE <<Promise!Target("store", "", <<Meaning(Current, args[1]), Promise!Result(Len(functionValues))>>, << >>)>>,
                  Promise!Result(Len(functionValues)), nb)
        /\ VarInit(Current, b, c, args).allocas = Put(functionVarsAllocas, c.x, VarInit(Current, b, c, args).v)
        /\ PlaceOf(VarInit(Current, b, c, args).f, VarInit(Current, b, c, args).v, c.x)
    BY <1>2, <1>3, <1>5, <2>2, <2>4, VarInitDecoded
  <2>. QED
    BY <2>2, <2>3, <2>5
<1>. HIDE DEF r, d
<1>9. Writes(Current, g, b, Promised(c, p), nb) /\ Begins(Current, g) /\ Meaning(g, r.v) = d[p] /\ Ordinary(g, r.v)
  BY <1>6 DEF Lowers, Writes
<1>. HIDE DEF g
<1>10. Len(functionValues') = p + 1
  BY <1>1, <1>5, AppendLemma
<1>11. Progress'
  BY <1>1, <1>10, NextPosition
<1>12. Meant(g, functionValues', CirOf, d)
  <2>1. Meant(g, functionValues, CirOf, d)
    BY <1>4, <1>5, <1>9, MeantGrows DEF ValuesMeant, d
  <2>2. Meant(g, Append(functionValues, r.v), CirOf, d)
    BY <1>2, <1>3, <1>5, <1>9, <2>1, MeantMore
  <2>. QED
    BY <1>1, <2>2
<1>13. Found(g, functionVarsAllocas, CirOf, p + 1)
  <2>1. p <= p + 1 /\ p + 1 \in Nat
    BY <1>3
  <2>. QED
    BY <1>3, <1>4, <1>5, <1>9, <2>1, FoundGrows DEF AllocasFound
<1>14. Found(g, functionVarsAllocas', CirOf, p + 1)
  <2>1. CASE c.op # "VarInit"
    BY <1>1, <1>7, <1>13, <2>1
  <2>2. CASE c.op = "VarInit"
    <3>1. p + 1 \in 1..(p + 1) /\ CirOf[p + 1].op = "VarInit" /\ CirOf[p + 1].x = x
      BY <1>2, <1>3, <2>2
    <3>2. \E q \in 1..(p + 1) : CirOf[q].op = "VarInit" /\ CirOf[q].x = x
      BY <3>1
    <3>. HIDE DEF x, c
    <3>3. x \notin Reserved /\ PlaceOf(g, r.v, x) /\ functionVarsAllocas' = Put(functionVarsAllocas, x, r.v)
      BY <1>1, <1>8, <2>2 DEF g
    <3>. QED
      BY <1>13, <3>2, <3>3, FoundPut
  <2>. QED
    BY <2>1, <2>2
<1>15. ArgumentsFound'
  <2>1. \A y : Has(functionVarsAllocas, y) => Has(functionVarsAllocas', y)
    BY <1>1, <1>7, <1>8, HasPut
  <2>. QED
    BY <1>1, <1>4, <2>1, ArgumentsKept
<1>. QED
  BY <1>1, <1>9, <1>10, <1>11, <1>12, <1>14, <1>15 DEF g, r, d

\* Of h + l arguments a are stored.
LEMMA ArgumentsCounted ==
    ASSUME NEW a \in Nat, NEW l \in Nat, NEW h \in {0, 1}, a # l + h,
           h = 0 => a <= l, h = 1 => (a <= l \/ (l = 0 /\ a = 1)),
           ~(h = 1 /\ a # 0 /\ a = l)
    PROVE  \/ h = 1 /\ a = 0
           \/ h \in {0, 1} /\ a < l /\ a + 1 \in 1..l
OBVIOUS

\* An argument is stored by code that stands for nothing.
LEMMA ArgumentEffect ==
    ASSUME BackendInvariant, PromiseInvariant, StoreArgument, ~Stop
    PROVE  \E g : /\ module' = [module EXCEPT !.functions[n + 1] = g]
                  /\ Writes(Current, g, 1, << >>, Len(Function.blocks))
                  /\ Progress' /\ ArgumentsFound'
                  /\ Meant(g, functionValues', CirOf, Promise!Denotation(CirOf))
                  /\ Found(g, functionVarsAllocas', CirOf, Len(functionValues'))
<1>. DEFINE nb == Len(Function.blocks)
            name == IF Hidden = 1 /\ args_stored = 0 THEN "sret_arg" ELSE Arguments[args_stored + 1][1]
            f == CreateEntryBlockAlloca(Current, name, -1)
            place == Made(f)
            param == Value("param", "", args_stored + 1)
            li == LI("store", "", <<param, place>>, << >>, -1)
            g == Create(f, 1, li)
            d == Promise!Denotation(CirOf)
<1>1. /\ Generating /\ ~ArgumentsStored
      /\ ~(Hidden = 1 /\ args_stored # 0 /\ args_stored = Len(Arguments))
      /\ module' = [module EXCEPT !.functions[n + 1] = g]
      /\ functionVarsAllocas' = Put(functionVarsAllocas, name, place)
      /\ args_stored' = args_stored + 1
      /\ UNCHANGED <<file, phase, n, functionValues, bb_codegen_number, i>>
  BY DEF StoreArgument, Arguments
<1>2. /\ GoodFunction(Current, nb) /\ Operates(Current) /\ Tables(Len(Current.made)) /\ Len(functionValues) \in Nat
      /\ nb \in Nat /\ nb > 0
      /\ DOMAIN Arguments = 1..Len(Arguments) /\ Len(Arguments) \in Nat
  BY <1>1, CodeLemma
<1>3. /\ ValuesMeant(Current) /\ AllocasFound(Current) /\ ArgumentsFound /\ Progress /\ Translatable
  BY <1>1 DEF PromiseInvariant
<1>4. /\ AllocasMade(functionVarsAllocas, Len(Current.made)) /\ AllMade(functionValues, Len(Current.made))
  BY <1>2 DEF Tables
<1>5. Hidden \in {0, 1} /\ args_stored \in Nat /\ args_stored # Len(Arguments) + Hidden
  BY <1>1, <1>3 DEF Hidden, ArgumentsStored, ArgumentsFound, Arguments
<1>6. \/ Hidden = 1 /\ args_stored = 0
      \/ Hidden \in {0, 1} /\ args_stored < Len(Arguments) /\ args_stored + 1 \in 1..Len(Arguments)
  <2>1. Hidden = 0 => args_stored <= Len(Arguments)
    BY <1>3 DEF ArgumentsFound
  <2>2. Hidden = 1 => (args_stored <= Len(Arguments) \/ (Len(Arguments) = 0 /\ args_stored = 1))
    BY <1>3 DEF ArgumentsFound
  <2>. QED
    BY <1>1, <1>2, <1>5, <2>1, <2>2, ArgumentsCounted
<1>7. name \notin Reserved
  <2>1. CASE Hidden = 1 /\ args_stored = 0
    BY <2>1 DEF Reserved
  <2>2. CASE ~(Hidden = 1 /\ args_stored = 0)
    <3>1. args_stored + 1 \in DOMAIN Arguments /\ name = Arguments[args_stored + 1][1]
      BY <1>2, <1>6, <2>2
    <3>2. Function.x \in DOMAIN file.protos /\ Arguments = file.protos[Function.x].args
      BY <1>3 DEF ArgumentsFound, Arguments, Proto
    <3>3. Arguments[args_stored + 1] \in ToSet(file.protos[Function.x].args)
      BY <3>1, <3>2 DEF ToSet
    <3>. QED
      BY <1>3, <3>1, <3>2, <3>3 DEF Translatable
  <2>. QED
    BY <2>1, <2>2
<1>. HIDE DEF name
<1>8. Writes(Current, f, 1, << >>, nb) /\ IsValue(place, Len(f.made))
  BY <1>2, AllocaDecoded, AllocaLemma
<1>9. PlaceOf(f, place, name) /\ f.made[place.p].at = -1
  BY <1>2, PlaceMeans
<1>. HIDE DEF f, place
<1>10. GoodFunction(f, nb) /\ Operates(f) /\ Begins(Current, f)
  BY <1>8 DEF Writes
<1>11. PICK both : both = <<param, place>>
  OBVIOUS
<1>12. IsValue(param, Len(f.made))
  BY DEF Value, IsValue
<1>13. AllMade(both, Len(f.made)) /\ IsSeq(both) /\ both # << >>
  BY <1>8, <1>11, <1>12, TwoMeanings
<1>14. li.op # "alloca" /\ li.args = both /\ StoresSomething(li) /\ li.at = -1
  BY <1>11, <1>13 DEF LI, StoresSomething
<1>. HIDE DEF li, param
<1>15. DecodedInstruction(f, li) = << >>
  BY <1>14 DEF DecodedInstruction, Artefact
<1>16. \A v \in ToSet(li.args) : IsValue(v, Len(f.made))
  BY <1>13, <1>14, SameOperands
<1>17. 1 \in 1..nb
  BY <1>2
<1>18. Writes(f, g, 1, << >>, nb)
  BY <1>10, <1>14, <1>15, <1>16, <1>17, CreateDecoded
<1>. HIDE DEF g
<1>19. Writes(Current, g, 1, << >>, nb)
  <2>1. Writes(Current, g, 1, << >> \o << >>, nb)
    BY <1>2, <1>8, <1>18, WritesAfter
  <2>. QED
    BY <2>1, ConcatLemma, EmptyIsSeq
<1>20. Begins(Current, g) /\ Begins(f, g)
  BY <1>18, <1>19 DEF Writes
<1>21. Progress'
  BY <1>1, <1>3, SameFile DEF Progress
<1>22. Meant(g, functionValues', CirOf, d)
  <2>. HIDE DEF d
  <2>. QED
    BY <1>1, <1>3, <1>4, <1>20, MeantGrows DEF ValuesMeant, d
<1>23. Found(g, functionVarsAllocas', CirOf, Len(functionValues'))
  <2>1. Found(g, functionVarsAllocas, CirOf, Len(functionValues))
    <3>1. Len(functionValues) <= Len(functionValues)
      BY <1>2
    <3>. QED
      BY <1>2, <1>3, <1>4, <1>20, <3>1, FoundGrows DEF AllocasFound
  <2>2. PlaceOf(g, place, name)
    BY <1>8, <1>9, <1>20, MeaningGrows
  <2>3. g.made[place.p].at = -1
    BY <1>8, <1>9, <1>20 DEF PlaceOf, IsValue, Begins
  <2>4. Found(g, Put(functionVarsAllocas, name, place), CirOf, Len(functionValues))
    BY <1>7, <2>1, <2>2, <2>3, FoundPut
  <2>. QED
    BY <1>1, <2>4
<1>24. ArgumentsFound'
  <2>1. Function' = Function /\ Arguments' = Arguments /\ Hidden' = Hidden
    BY <1>1, SameFile
  <2>2. bb_codegen_number = 0 /\ i = 0 /\ functionValues = << >> /\ Function.x \in DOMAIN file.protos
    BY <1>1, <1>3 DEF ArgumentsFound
  <2>3. CASE Hidden = 0
    <3>0. Hidden # 1
      BY <2>3
    <3>1. args_stored + 1 <= Len(Arguments) /\ args_stored + 1 \in Nat
      BY <1>2, <1>5, <1>6, <3>0
    <3>2. name = Arguments[args_stored + 1][1]
      BY <2>3 DEF name
    <3>3. \A j \in 1..args_stored : Has(functionVarsAllocas, Arguments[j][1])
      BY <1>3, <2>3 DEF ArgumentsFound
    <3>4. ASSUME NEW j \in 1..(args_stored + 1)
          PROVE  Has(functionVarsAllocas', Arguments[j][1])
      <4>1. j \in 1..args_stored \/ j = args_stored + 1
        BY <1>5
      <4>. QED
        BY <1>1, <3>2, <3>3, <4>1, HasPut
    <3>. QED
      BY <1>1, <2>1, <2>2, <2>3, <3>1, <3>4 DEF ArgumentsFound
  <2>4. CASE Hidden = 1
    <3>1. args_stored + 1 \in Nat /\ (args_stored + 1 <= Len(Arguments) \/ (Len(Arguments) = 0 /\ args_stored + 1 = 1))
      <4>1. CASE args_stored < Len(Arguments)
        BY <1>2, <1>5, <4>1
      <4>2. CASE ~(args_stored < Len(Arguments))
        <5>1. args_stored = 0 /\ Len(Arguments) = 0
          BY <1>2, <1>6, <4>2
        <5>. QED
          BY <5>1
      <4>. QED
        BY <4>1, <4>2
    <3>. QED
      BY <1>1, <2>1, <2>2, <2>4, <3>1 DEF ArgumentsFound
  <2>. QED
    BY <1>5, <2>3, <2>4
<1>. QED
  BY <1>1, <1>19, <1>21, <1>22, <1>23, <1>24

\* The end of a block.
LEMMA EndBlockPromise ==
    ASSUME BackendInvariant, PromiseInvariant, EndBlock
    PROVE  PromiseInvariant'
<1>. DEFINE nb == Len(Function.blocks)
            b == bb_codegen_number + 1
<1>1. /\ Generating /\ InBody /\ bb_codegen_number < nb /\ i = Len(Block)
      /\ bb_codegen_number' = b /\ i' = 0
      /\ UNCHANGED <<file, phase, n, module, functionValues, functionVarsAllocas, args_stored>>
  BY DEF EndBlock, InBody
<1>2. /\ Function.blocks \in Seq(Seq(CIRInstruction)) /\ nb \in Nat /\ Len(functionValues) \in Nat
      /\ Current = module.functions[n + 1] /\ Operates(Current) /\ n + 1 \in DOMAIN module.functions
  BY <1>1, CodeLemma
<1>3. /\ bb_codegen_number \in Nat /\ b \in 1..nb /\ b \in Nat
      /\ bb_codegen_number < nb - 1 =>
            Len(functionValues) = Promise!Position(Function.blocks, b, i + 1)
  BY <1>1, <1>2 DEF PromiseInvariant, Progress
<1>4. Function' = Function /\ Arguments' = Arguments /\ Hidden' = Hidden
  BY <1>1, SameFile
<1>5. Block = Function.blocks[b] /\ Block' = Function.blocks[b + 1]
  BY <1>1, <1>4 DEF Block
<1>6. /\ Promise!Position(Function.blocks, b + 1, 1) = Promise!Position(Function.blocks, b, Len(Block) + 1)
      /\ Len(Block) \in Nat
  <2>1. PICK blocks : blocks = Function.blocks
    OBVIOUS
  <2>2. /\ Promise!Position(blocks, b, 1) \in Nat /\ Len(blocks[b]) \in Nat
        /\ \A k \in Int : Promise!Position(blocks, b, k) = Promise!Position(blocks, b, 1) + k - 1
        /\ Promise!Position(blocks, b + 1, 1) = Promise!Position(blocks, b, 1) + Len(blocks[b])
    BY <1>2, <1>3, <2>1, PositionLemma
  <2>. HIDE DEF b
  <2>6. Len(blocks[b]) \in Nat
    BY <2>2
  <2>3. PICK k \in Int : k = Len(blocks[b]) + 1
    BY <2>6
  <2>4. Promise!Position(blocks, b, k) = Promise!Position(blocks, b, 1) + k - 1
    BY <2>2
  <2>5. Promise!Position(blocks, b + 1, 1) = Promise!Position(blocks, b, Len(blocks[b]) + 1)
    BY <2>2, <2>3, <2>4
  <2>. QED
    BY <1>5, <2>1, <2>2, <2>5
<1>7. b < nb => Len(Block') \in Nat
  <2>1. ASSUME b < nb
        PROVE  b + 1 \in 1..nb
    BY <1>2, <1>3, <2>1
  <2>2. b < nb => Block' \in Seq(CIRInstruction)
    BY <1>2, <1>5, <2>1, SeqFacts
  <2>. QED
    BY <2>2, SeqFacts
<1>8. Progress'
  <2>1. b < nb => Len(functionValues) = Promise!Position(Function.blocks, b + 1, 0 + 1)
    BY <1>1, <1>2, <1>3, <1>6
  <2>2. b \in 0..nb
    BY <1>2, <1>3
  <2>3. b < nb => 0 \in 0..Len(Block')
    BY <1>7
  <2>. HIDE DEF b
  <2>. QED
    BY <1>1, <1>4, <2>1, <2>2, <2>3 DEF Progress
<1>9. ArgumentsFound'
  BY <1>1, ArgumentsKept DEF PromiseInvariant, InBody
<1>10. module' = [module EXCEPT !.functions[n + 1] = Current]
  <2>1. module.functions = [module.functions EXCEPT ![n + 1] = Current]
    <3>1. PICK S : module.functions \in Seq(S)
      BY DEF BackendInvariant, IsSeq
    <3>. QED
      BY <1>2, <3>1
  <2>. QED
    BY <1>1, <2>1 DEF BackendInvariant
<1>11. /\ Meant(Current, functionValues', CirOf, Promise!Denotation(CirOf))
       /\ Found(Current, functionVarsAllocas', CirOf, Len(functionValues'))
  BY <1>1 DEF PromiseInvariant, ValuesMeant, AllocasFound
<1>. QED
  BY <1>1, <1>2, <1>8, <1>9, <1>10, <1>11, PromiseUpdate

\* The end of a function, and of the functions.
LEMMA EndFunctionPromise ==
    ASSUME BackendInvariant, PromiseInvariant, EndFunction \/ FunctionsDone
    PROVE  PromiseInvariant'
<1>1. Translatable' = Translatable
  BY SameFile DEF EndFunction, FunctionsDone
<1>2. CASE EndFunction
  <2>1. /\ UNCHANGED <<file, phase, module, bb_codegen_number>> /\ n' = n + 1 /\ phase = "functions"
        /\ Len(module.functions) = n + 1 /\ n \in Nat
        /\ bb_codegen_number = Len(Function.blocks)
    BY <1>2 DEF EndFunction, SameFunction, InBody, Generating, BackendInvariant
  <2>2. ~Generating'
    BY <2>1 DEF Generating
  <2>3. bb_codegen_number' = Len(file'.functions[n'].blocks)
    BY <2>1 DEF Function
  <2>. QED
    BY <1>1, <2>1, <2>2, <2>3 DEF PromiseInvariant
<1>3. CASE FunctionsDone
  <2>1. /\ UNCHANGED <<file, module>> /\ phase' = "done" /\ phase = "functions"
    BY <1>3 DEF FunctionsDone, Leave
  <2>. QED
    BY <1>1, <2>1 DEF PromiseInvariant, Generating
<1>. QED
  BY <1>2, <1>3

\* An error, and nothing.
LEMMA StopPromise ==
    ASSUME PromiseInvariant, Stop \/ UNCHANGED vars
    PROVE  PromiseInvariant'
<1>1. CASE Stop
  <2>1. UNCHANGED <<file, module>> /\ phase' = "stopped"
    BY <1>1 DEF Stop
  <2>2. Translatable' = Translatable
    BY <2>1, SameFile
  <2>. QED
    BY <2>1, <2>2 DEF PromiseInvariant, Generating
<1>2. CASE UNCHANGED vars
  <2>1. UNCHANGED vars
    BY <1>2
  <2>2. /\ UNCHANGED <<file, phase, n, module, functionValues, functionVarsAllocas, bb_codegen_number, args_stored, i>>
        /\ Translatable' = Translatable
    BY <2>1, SameFile DEF vars
  <2>3. /\ CirOf' = CirOf /\ Promise!Denotation(CirOf)' = Promise!Denotation(CirOf)
        /\ Function' = Function /\ Arguments' = Arguments /\ Hidden' = Hidden /\ Block' = Block
    BY <2>2, SameFile
  <2>4. ArgumentsStored' = ArgumentsStored
    BY <2>2, <2>3 DEF ArgumentsStored, Arguments
  <2>. QED
    BY <2>2, <2>3, <2>4 DEF PromiseInvariant, Generating, Current, Progress, ValuesMeant, AllocasFound, ArgumentsFound
<1>. QED
  BY <1>1, <1>2

\* A string more.
LEMMA OneMoreString ==
    ASSUME NEW Y, NEW s \in Seq(Y), NEW m \in 0..Len(s)
    PROVE  /\ SubSeq(s, 1, 0) = << >> /\ SubSeq(s, 1, Len(s)) = s
           /\ m # Len(s) => Append(SubSeq(s, 1, m), s[m + 1]) = SubSeq(s, 1, m + 1)
OBVIOUS

\* The beginning of a function.
LEMMA BeginFunctionPromise ==
    ASSUME BackendInvariant, PromiseInvariant, BeginFunction, ~Stop
    PROVE  PromiseInvariant'
<1>. DEFINE f == [made |-> << >>, blocks |-> [b \in DOMAIN Function.blocks |-> << >>]]
            nb == Len(Function.blocks)
<1>1. /\ phase = "functions" /\ n < Len(file.functions) /\ Len(module.functions) = n
      /\ module' = [module EXCEPT !.functions = Append(@, f)]
      /\ functionVarsAllocas' = {} /\ functionValues' = << >>
      /\ bb_codegen_number' = 0 /\ args_stored' = 0 /\ i' = 0
      /\ UNCHANGED <<file, phase, n>> /\ Function.x \in DOMAIN file.protos
  BY DEF BeginFunction, Declarable
<1>2. n + 1 \in DOMAIN file.functions /\ n \in Nat /\ Len(file.functions) \in Nat
  BY <1>1, FilesWellFormed DEF FilesAssumption, BackendInvariant
<1>3. Function.blocks \in Seq(Seq(CIRInstruction)) /\ Function.blocks # << >> /\ nb \in Nat \ {0}
  BY <1>2, FunctionLemma DEF BackendInvariant, Function
<1>4. Operates(f)
  <2>1. DOMAIN f.made = {}
    OBVIOUS
  <2>. QED
    BY <2>1 DEF Operates
<1>. HIDE DEF f
<1>5. /\ DOMAIN module.functions = 1..n
      /\ Len(Append(module.functions, f)) = n + 1
      /\ DOMAIN Append(module.functions, f) = 1..(n + 1)
      /\ \A F \in 1..n : Append(module.functions, f)[F] = module.functions[F]
      /\ Append(module.functions, f)[n + 1] = f
  BY <1>1, AppendLemma DEF BackendInvariant
<1>6. /\ module'.functions = Append(module.functions, f) /\ module'.globals = module.globals
      /\ module'.strings = module.strings
  BY <1>1 DEF BackendInvariant
<1>7. \A F \in DOMAIN module'.functions : Operates(module'.functions[F])
  <2>1. SUFFICES ASSUME NEW F \in 1..(n + 1)
                 PROVE  Operates(Append(module.functions, f)[F])
    BY <1>1, <1>5, <1>6
  <2>2. F = n + 1 \/ F \in 1..n
    BY <1>2
  <2>. QED
    BY <1>4, <1>5, <2>2 DEF PromiseInvariant
<1>8. /\ Translatable' = Translatable /\ CirOf' = CirOf /\ Promise!Denotation(CirOf)' = Promise!Denotation(CirOf)
      /\ Function' = Function /\ Arguments' = Arguments /\ Hidden' = Hidden
  BY <1>1, SameFile
<1>9. ValuesMeant(Current)'
  <2>1. Len(CirOf) \in Nat
    <3>1. CirOf = FlattenSeq(Function.blocks)
      BY SameFlatten DEF CirOf, Promise!Cir, Function
    <3>2. << >> \in Seq(CIRInstruction)
      OBVIOUS
    <3>3. FlattenSeq(Function.blocks) \in Seq(CIRInstruction)
      BY <1>3, <3>2, FlattenAppend
    <3>. QED
      BY <3>1, <3>3, SeqFacts
  <2>2. Len(<< >>) = 0 /\ DOMAIN << >> = {}
    OBVIOUS
  <2>3. \A g, cir, d : Len(cir) \in Nat => Meant(g, << >>, cir, d)
    BY <2>2 DEF Meant
  <2>. QED
    BY <1>1, <1>8, <2>1, <2>3 DEF ValuesMeant
<1>10. AllocasFound(Current)'
  BY <1>1 DEF AllocasFound, Found
<1>11. Progress'
  <2>1. Promise!Position(Function.blocks, 0 + 1, 0 + 1) = 0 /\ Len(<< >>) = 0
    <3>1. Promise!Position(Function.blocks, 1, 1) = 0
      BY <1>3, FirstPosition
    <3>. QED
      BY <3>1
  <2>2. Block' = Function.blocks[1]
    BY <1>1, <1>8 DEF Block
  <2>3. Len(Function.blocks[1]) \in Nat
    <3>1. 1 \in 1..nb
      BY <1>3
    <3>2. Function.blocks[1] \in Seq(CIRInstruction)
      BY <1>3, <3>1, SeqFacts
    <3>. QED
      BY <3>2, SeqFacts
  <2>4. 0 \in 0..nb /\ 0 \in 0..Len(Block')
    BY <1>3, <2>2, <2>3
  <2>. QED
    BY <1>1, <1>8, <2>1, <2>4 DEF Progress
<1>12. ArgumentsFound'
  <2>1. Len(Arguments) \in Nat
    <3>1. Arguments \in Seq(STRING \X STRING)
      BY <1>1, FilesWellFormed DEF FilesAssumption, Arguments, Proto, BackendInvariant
    <3>. QED
      BY <3>1, SeqFacts
  <2>2. 0 <= Len(Arguments) /\ \A j \in 1..0 : FALSE
    BY <2>1
  <2>. QED
    BY <1>1, <1>8, <2>2 DEF ArgumentsFound
<1>13. Len(module'.functions) # n'
  BY <1>1, <1>2, <1>5, <1>6
<1>14. /\ Translatable /\ module.strings = file.strings
       /\ \A e \in module.globals : e[2] \in {null, Value("global", e[1], 0)}
  BY <1>1 DEF PromiseInvariant
<1>. QED
  BY <1>1, <1>6, <1>7, <1>8, <1>9, <1>10, <1>11, <1>12, <1>13, <1>14 DEF PromiseInvariant

\* Strings, initial values, global variables and structs.
LEMMA GlobalDataPromise ==
    ASSUME BackendInvariant, PromiseInvariant, NEW g, NEW s,
           CodegenString \/ GlobalInstruction \/ codegenGlobalVar(g) \/ GlobalVarsDone
             \/ codegenStruct(s) \/ StructsDone,
           ~Stop
    PROVE  PromiseInvariant'
<1>1. /\ n \in Nat
      /\ module = [strings |-> module.strings, globals |-> module.globals, structs |-> module.structs,
                   functions |-> module.functions]
      /\ phase \in {"strings", "init", "globals", "structs"} => module.functions = << >>
  BY DEF BackendInvariant
<1>2. /\ Translatable
      /\ phase = "strings" => n \in 0..Len(file.strings) /\ module.strings = SubSeq(file.strings, 1, n)
      /\ phase \notin {"strings", "stopped"} => module.strings = file.strings
      /\ \A e \in module.globals : e[2] \in {null, Value("global", e[1], 0)}
      /\ \A F \in DOMAIN module.functions : Operates(module.functions[F])
  BY DEF PromiseInvariant
<1>3. file' = file
  BY DEF CodegenString, GlobalInstruction, codegenGlobalVar, GlobalVarsDone, codegenStruct, StructsDone
<1>4. Translatable'
  BY <1>2, <1>3, SameFile
<1>5. /\ phase \in {"strings", "init", "globals", "structs"}
      /\ phase' \in {"strings", "init", "globals", "structs"} \/ (phase' = "functions" /\ n' = 0)
      /\ module'.functions = module.functions
  <2>1. CASE CodegenString
    <3>1. module' = [module EXCEPT !.strings = module'.strings] \/ module' = module
      BY <1>1, <2>1 DEF CodegenString
    <3>. QED
      BY <1>1, <2>1, <3>1 DEF CodegenString, Leave
  <2>2. CASE codegenGlobalVar(g)
    <3>1. /\ phase = "globals" /\ phase' = phase
          /\ \E v \in {null, Value("global", g.x, 0)} : module' = [module EXCEPT !.globals = Put(@, g.x, v)]
      BY <2>2 DEF codegenGlobalVar
    <3>. QED
      BY <1>1, <3>1
  <2>3. CASE codegenStruct(s)
    BY <1>1, <2>3 DEF codegenStruct
  <2>4. CASE GlobalInstruction \/ GlobalVarsDone \/ StructsDone
    BY <2>4 DEF GlobalInstruction, GlobalVarsDone, StructsDone, Leave
  <2>. QED
    BY <2>1, <2>2, <2>3, <2>4
<1>6. ~Generating' /\ ~(phase' = "functions" /\ n' > 0)
  <2>1. Len(module'.functions) = 0
    BY <1>1, <1>5
  <2>. QED
    BY <1>5, <2>1 DEF Generating
<1>7. \A e \in module'.globals : e[2] \in {null, Value("global", e[1], 0)}
  <2>1. CASE codegenGlobalVar(g)
    <3>1. PICK v \in {null, Value("global", g.x, 0)} : module' = [module EXCEPT !.globals = Put(@, g.x, v)]
      BY <2>1 DEF codegenGlobalVar
    <3>2. module'.globals = Put(module.globals, g.x, v)
      BY <1>1, <3>1
    <3>. QED
      BY <1>2, <3>1, <3>2 DEF Put
  <2>2. CASE CodegenString
    <3>1. module'.globals = module.globals
      BY <1>1, <2>2 DEF CodegenString
    <3>. QED
      BY <1>2, <3>1
  <2>3. CASE GlobalInstruction \/ GlobalVarsDone \/ codegenStruct(s) \/ StructsDone
    <3>1. module'.globals = module.globals
      BY <1>1, <2>3 DEF GlobalInstruction, GlobalVarsDone, codegenStruct, StructsDone
    <3>. QED
      BY <1>2, <3>1
  <2>. QED
    BY <2>1, <2>2, <2>3
<1>8. /\ phase' = "strings" => n' \in 0..Len(file'.strings) /\ module'.strings = SubSeq(file'.strings, 1, n')
      /\ phase' \notin {"strings", "stopped"} => module'.strings = file'.strings
  <2>1. CASE CodegenString
    <3>1. file.strings \in Seq(STRING) /\ n \in 0..Len(file.strings) /\ module.strings = SubSeq(file.strings, 1, n)
          /\ phase = "strings"
      BY <1>2, <2>1, FilesWellFormed DEF FilesAssumption, CodegenString, BackendInvariant
    <3>2. Len(file.strings) \in Nat
      BY <3>1, SeqFacts
    <3>3. CASE n < Len(file.strings)
      <4>1. /\ module' = [module EXCEPT !.strings = Append(@, file.strings[n + 1])]
            /\ n' = n + 1 /\ phase' = phase
        BY <2>1, <3>3 DEF CodegenString
      <4>2. module'.strings = Append(module.strings, file.strings[n + 1])
        BY <1>1, <4>1
      <4>3. Append(SubSeq(file.strings, 1, n), file.strings[n + 1]) = SubSeq(file.strings, 1, n + 1)
        BY <3>1, <3>2, <3>3, OneMoreString
      <4>4. n + 1 \in 0..Len(file.strings)
        BY <3>1, <3>2, <3>3
      <4>. QED
        BY <1>3, <3>1, <4>1, <4>2, <4>3, <4>4
    <3>4. CASE ~(n < Len(file.strings))
      <4>1. n = Len(file.strings)
        BY <3>1, <3>2, <3>4
      <4>2. module.strings = file.strings
        BY <3>1, <4>1, OneMoreString
      <4>. QED
        BY <1>3, <2>1, <3>4, <4>2 DEF CodegenString, Leave
    <3>. QED
      BY <3>3, <3>4
  <2>2. CASE codegenGlobalVar(g)
    <3>1. phase' = phase /\ phase = "globals"
          /\ \E v \in {null, Value("global", g.x, 0)} : module' = [module EXCEPT !.globals = Put(@, g.x, v)]
      BY <2>2 DEF codegenGlobalVar
    <3>2. module'.strings = module.strings
      BY <1>1, <3>1
    <3>. QED
      BY <1>2, <1>3, <3>1, <3>2
  <2>3. CASE GlobalInstruction \/ GlobalVarsDone \/ codegenStruct(s) \/ StructsDone
    <3>1. module'.strings = module.strings
      BY <1>1, <2>3 DEF GlobalInstruction, GlobalVarsDone, codegenStruct, StructsDone
    <3>2. phase \in {"init", "globals", "structs"} /\ phase' \in {"init", "globals", "structs", "functions"}
      BY <2>3 DEF GlobalInstruction, GlobalVarsDone, codegenStruct, StructsDone, Leave
    <3>. QED
      BY <1>2, <1>3, <3>1, <3>2
  <2>. QED
    BY <2>1, <2>2, <2>3
<1>. QED
  BY <1>2, <1>4, <1>5, <1>6, <1>7, <1>8 DEF PromiseInvariant

-----------------------------------------------------------------------------
(* The code that is promised, by function and block.                       *)

\* f has an entry for every function and block of the file.
IsTable(f) == f = [F \in DOMAIN file.functions |-> [b \in DOMAIN file.functions[F].blocks |-> f[F][b]]]

\* Two tables with the same entries.
LEMMA SameTable ==
    ASSUME NEW f, NEW g, IsTable(f), IsTable(g),
           \A F \in DOMAIN file.functions : \A b \in DOMAIN file.functions[F].blocks : g[F][b] = f[F][b]
    PROVE  g = f
<1>1. \A F \in DOMAIN file.functions :
         [b \in DOMAIN file.functions[F].blocks |-> g[F][b]] = [b \in DOMAIN file.functions[F].blocks |-> f[F][b]]
  OBVIOUS
<1>. QED
  BY <1>1 DEF IsTable

\* f with v for block b of function F.
Changed(f, F, b, v) == [f EXCEPT ![F][b] = v]

\* Two tables that differ in one entry.
LEMMA ChangedTable ==
    ASSUME NEW f, NEW g, IsTable(f), IsTable(g), NEW v,
           NEW F0 \in DOMAIN file.functions, NEW b0 \in DOMAIN file.functions[F0].blocks,
           \A F \in DOMAIN file.functions : \A b \in DOMAIN file.functions[F].blocks :
              g[F][b] = IF F = F0 /\ b = b0 THEN v ELSE f[F][b]
    PROVE  g = Changed(f, F0, b0, v)
<1>1. /\ DOMAIN f = DOMAIN file.functions /\ DOMAIN g = DOMAIN file.functions
      /\ \A F \in DOMAIN file.functions :
            /\ g[F] = [b \in DOMAIN file.functions[F].blocks |-> g[F][b]]
            /\ f[F] = [b \in DOMAIN file.functions[F].blocks |-> f[F][b]]
  BY DEF IsTable
<1>2. g[F0] = [f[F0] EXCEPT ![b0] = v]
  BY <1>1
<1>3. \A F \in DOMAIN file.functions : F # F0 => g[F] = f[F]
  <2>1. ASSUME NEW F \in DOMAIN file.functions, F # F0
        PROVE  [b \in DOMAIN file.functions[F].blocks |-> g[F][b]] = [b \in DOMAIN file.functions[F].blocks |-> f[F][b]]
    BY <2>1
  <2>. QED
    BY <1>1, <2>1
<1>4. g = [F \in DOMAIN file.functions |-> g[F]] /\ f = [F \in DOMAIN file.functions |-> f[F]]
  BY DEF IsTable
<1>. QED
  BY <1>1, <1>2, <1>3, <1>4 DEF Changed

\* How far the translation is, and what it is so far.
LEMMA TheTables ==
    ASSUME file' = file
    PROVE  IsTable(Lowered) /\ IsTable(Lowered') /\ IsTable(DecodedCode) /\ IsTable(DecodedCode')
<1>1. IsTable(Lowered) /\ IsTable(Lowered')
  BY DEF IsTable, Lowered
<1>2. IsTable(DecodedCode) /\ IsTable(DecodedCode')
  BY DEF IsTable, DecodedCode
<1>. QED
  BY <1>1, <1>2

\* An entry of how far the translation is.
LEMMA LoweredAt ==
    ASSUME NEW F \in DOMAIN file.functions, NEW b \in DOMAIN file.functions[F].blocks
    PROVE  Lowered[F][b] =
              IF F < Len(module.functions) THEN Len(file.functions[F].blocks[b])
              ELSE IF F > Len(module.functions) \/ b > bb_codegen_number + 1 THEN 0
              ELSE IF b <= bb_codegen_number THEN Len(file.functions[F].blocks[b]) ELSE i
BY DEF Lowered

\* The same after a step.
LEMMA LoweredNextAt ==
    ASSUME file' = file, NEW F \in DOMAIN file.functions, NEW b \in DOMAIN file.functions[F].blocks
    PROVE  Lowered'[F][b] =
              IF F < Len(module'.functions) THEN Len(file.functions[F].blocks[b])
              ELSE IF F > Len(module'.functions) \/ b > bb_codegen_number' + 1 THEN 0
              ELSE IF b <= bb_codegen_number' THEN Len(file.functions[F].blocks[b]) ELSE i'
BY DEF Lowered

\* An entry of the code that is generated, before and after a step.
LEMMA CodeAt ==
    ASSUME NEW F \in DOMAIN file.functions, NEW b \in DOMAIN file.functions[F].blocks
    PROVE  /\ DecodedCode[F][b] = IF F \in DOMAIN module.functions THEN Decoded(module.functions[F], b) ELSE << >>
           /\ file' = file =>
                DecodedCode'[F][b] = IF F \in DOMAIN module'.functions THEN Decoded(module'.functions[F], b) ELSE << >>
<1>1. DecodedCode[F][b] = IF F \in DOMAIN module.functions THEN Decoded(module.functions[F], b) ELSE << >>
  BY DEF DecodedCode
<1>2. ASSUME file' = file
      PROVE  DecodedCode'[F][b] = IF F \in DOMAIN module'.functions THEN Decoded(module'.functions[F], b) ELSE << >>
  <2>. PICK fs : fs = module'.functions
    OBVIOUS
  <2>. QED
    BY <1>2 DEF DecodedCode, Decoded, DecodedInstruction, Artefact, ReturnsThroughMemory, TakesPlace, PlaceOf, Meaning
<1>. QED
  BY <1>1, <1>2

\* A step that does not change the functions.
LEMMA SameCode ==
    ASSUME file' = file, module'.functions = module.functions
    PROVE  /\ DecodedCode' = DecodedCode
           /\ bb_codegen_number' = bb_codegen_number /\ i' = i => Lowered' = Lowered
BY DEF DecodedCode, Lowered

\* A step that writes code in a block of the function that is generated.
LEMMA WrittenCode ==
    ASSUME BackendInvariant, PromiseInvariant, Generating, NEW g, NEW b \in DOMAIN Function.blocks, NEW code,
           Writes(Current, g, b, code, Len(Function.blocks)),
           module' = [module EXCEPT !.functions[n + 1] = g], UNCHANGED <<file, n>>
    PROVE  /\ DecodedCode' = Changed(DecodedCode, n + 1, b, DecodedCode[n + 1][b] \o code)
           /\ code = << >> => DecodedCode' = DecodedCode
<1>. DEFINE nb == Len(Function.blocks)
<1>1. /\ n + 1 \in DOMAIN file.functions /\ n + 1 \in DOMAIN module.functions
      /\ Current = module.functions[n + 1] /\ GoodFunction(Current, nb)
      /\ Function.blocks \in Seq(Seq(CIRInstruction))
  BY CodeLemma
<1>2. /\ DOMAIN module'.functions = DOMAIN module.functions
      /\ \A F \in DOMAIN module.functions :
            module'.functions[F] = IF F = n + 1 THEN g ELSE module.functions[F]
  BY CodeUpdate
<1>3. DOMAIN Function.blocks = 1..nb /\ Function = file.functions[n + 1]
  BY <1>1, SeqFacts DEF Function
<1>4. \A F \in DOMAIN file.functions : \A a \in DOMAIN file.functions[F].blocks :
         DecodedCode'[F][a] = IF F = n + 1 /\ a = b THEN DecodedCode[n + 1][b] \o code ELSE DecodedCode[F][a]
  <2>1. SUFFICES ASSUME NEW F \in DOMAIN file.functions, NEW a \in DOMAIN file.functions[F].blocks
                 PROVE  DecodedCode'[F][a] =
                           IF F = n + 1 /\ a = b THEN DecodedCode[n + 1][b] \o code ELSE DecodedCode[F][a]
    OBVIOUS
  <2>2. /\ DecodedCode[F][a] = IF F \in DOMAIN module.functions THEN Decoded(module.functions[F], a) ELSE << >>
        /\ DecodedCode'[F][a] = IF F \in DOMAIN module'.functions THEN Decoded(module'.functions[F], a) ELSE << >>
    BY CodeAt
  <2>3. CASE F = n + 1
    <3>1. a \in 1..nb
      BY <1>3, <2>3
    <3>2. DecodedCode'[F][a] = Decoded(g, a) /\ DecodedCode[F][a] = Decoded(Current, a)
      BY <1>1, <1>2, <2>2, <2>3
    <3>3. Decoded(g, a) = IF a = b THEN Decoded(Current, a) \o code ELSE Decoded(Current, a)
      BY <3>1 DEF Writes
    <3>. QED
      BY <2>3, <3>2, <3>3
  <2>4. CASE F # n + 1
    BY <1>2, <2>2, <2>4
  <2>. QED
    BY <2>3, <2>4
<1>5. b \in DOMAIN file.functions[n + 1].blocks
  BY <1>3
<1>6. IsTable(DecodedCode) /\ IsTable(DecodedCode')
  BY TheTables
<1>7. DecodedCode' = Changed(DecodedCode, n + 1, b, DecodedCode[n + 1][b] \o code)
  <2>1. n + 1 \in DOMAIN file.functions
    BY <1>1
  <2>2. PICK v : v = DecodedCode[n + 1][b] \o code
    OBVIOUS
  <2>3. \A F \in DOMAIN file.functions : \A a \in DOMAIN file.functions[F].blocks :
           DecodedCode'[F][a] = IF F = n + 1 /\ a = b THEN v ELSE DecodedCode[F][a]
    BY <1>4, <2>2
  <2>4. DecodedCode' = Changed(DecodedCode, n + 1, b, v)
    BY <1>5, <1>6, <2>1, <2>3, ChangedTable
  <2>. QED
    BY <2>2, <2>4
<1>8. ASSUME code = << >>
      PROVE  DecodedCode' = DecodedCode
  <2>1. DecodedCode[n + 1][b] = Decoded(Current, b)
    BY <1>1, <1>5, CodeAt
  <2>2. Decoded(Current, b) \o << >> = Decoded(Current, b)
    BY <1>1, <1>3, DecodedIsSeq, ConcatLemma, EmptyIsSeq
  <2>3. \A F \in DOMAIN file.functions : \A a \in DOMAIN file.functions[F].blocks :
           DecodedCode'[F][a] = DecodedCode[F][a]
    BY <1>4, <1>8, <2>1, <2>2
  <2>. QED
    BY <1>6, <2>3, SameTable
<1>. QED
  BY <1>7, <1>8

\* An instruction.
LEMMA InstructionLowers ==
    ASSUME BackendInvariant, PromiseInvariant, NextInstruction, ~Stop
    PROVE  Promise!Lower(n + 1, bb_codegen_number + 1) /\ PromiseInvariant'
<1>. DEFINE c == Block[i + 1]
            b == bb_codegen_number + 1
            nb == Len(Function.blocks)
            code == Promised(c, Len(functionValues))
<1>1. /\ Generating /\ InBody /\ bb_codegen_number < nb /\ i < Len(Block)
      /\ UNCHANGED <<file, phase, n, bb_codegen_number>> /\ i' = i + 1 /\ phase = "functions"
  BY DEF NextInstruction, InBody, Generating
<1>2. PICK g : /\ module' = [module EXCEPT !.functions[n + 1] = g]
               /\ Writes(Current, g, b, code, nb)
               /\ Progress' /\ ArgumentsFound'
               /\ Meant(g, functionValues', CirOf, Promise!Denotation(CirOf))
               /\ Found(g, functionVarsAllocas', CirOf, Len(functionValues'))
  <2>1. CASE IsSretReturn(c)
    BY <2>1, ReturnEffect
  <2>2. CASE ~IsSretReturn(c)
    BY <2>2, InstructionEffect
  <2>. QED
    BY <2>1, <2>2
<1>3. PromiseInvariant'
  <2>1. Operates(g)
    BY <1>2 DEF Writes
  <2>. QED
    BY <1>1, <1>2, <2>1, PromiseUpdate
<1>4. /\ bb_codegen_number \in Nat /\ i \in Nat /\ b \in DOMAIN Function.blocks
      /\ Block = Function.blocks[b]
      /\ Len(functionValues) = Promise!Position(Function.blocks, b, i + 1)
  BY <1>1, InstructionToTranslate
<1>5. /\ n + 1 \in DOMAIN file.functions /\ n \in Nat /\ Len(module.functions) = n + 1
      /\ Function = file.functions[n + 1] /\ DOMAIN Function.blocks = 1..nb
      /\ \A F \in DOMAIN file.functions : F \in Nat
  <2>1. DOMAIN Function.blocks = 1..nb
    BY <1>1, CodeLemma, SeqFacts
  <2>2. \A F \in DOMAIN file.functions : F \in Nat
    BY FilesWellFormed DEF BackendInvariant, FilesAssumption
  <2>. QED
    BY <1>1, <2>1, <2>2, CodeLemma DEF BackendInvariant, Generating, Function
<1>6. Len(module'.functions) = n + 1
  BY <1>1, <1>2, <1>5, CodeUpdate
<1>7. Lowered[n + 1][b] = i
  <2>1. ~(n + 1 < n + 1) /\ ~(n + 1 > n + 1) /\ ~(b > bb_codegen_number + 1) /\ ~(b <= bb_codegen_number)
    BY <1>4, <1>5
  <2>. QED
    BY <1>4, <1>5, <2>1, LoweredAt
<1>8. Lowered' = Changed(Lowered, n + 1, b, i + 1)
  <2>1. ASSUME NEW F \in DOMAIN file.functions, NEW a \in DOMAIN file.functions[F].blocks
        PROVE  Lowered'[F][a] = IF F = n + 1 /\ a = b THEN i + 1 ELSE Lowered[F][a]
    <3>1. /\ Lowered[F][a] = IF F < n + 1 THEN Len(file.functions[F].blocks[a])
                             ELSE IF F > n + 1 \/ a > b THEN 0
                             ELSE IF a <= bb_codegen_number THEN Len(file.functions[F].blocks[a]) ELSE i
          /\ Lowered'[F][a] = IF F < n + 1 THEN Len(file.functions[F].blocks[a])
                              ELSE IF F > n + 1 \/ a > b THEN 0
                              ELSE IF a <= bb_codegen_number THEN Len(file.functions[F].blocks[a]) ELSE i + 1
      BY <1>1, <1>5, <1>6, LoweredAt, LoweredNextAt
    <3>2. F \in Nat
      BY <1>5
    <3>3. F = n + 1 => a \in 1..nb
      BY <1>5
    <3>. QED
      BY <1>4, <1>5, <3>1, <3>2, <3>3
  <2>2. IsTable(Lowered) /\ IsTable(Lowered')
    BY <1>1, TheTables
  <2>3. b \in DOMAIN file.functions[n + 1].blocks
    BY <1>4, <1>5
  <2>. PICK v : v = i + 1
    OBVIOUS
  <2>. HIDE DEF b
  <2>. QED
    BY <1>5, <2>1, <2>2, <2>3, ChangedTable
<1>9. DecodedCode' = Changed(DecodedCode, n + 1, b, DecodedCode[n + 1][b] \o code)
  BY <1>1, <1>2, <1>4, WrittenCode
<1>10. code = Promise!TranslationOf(n + 1, b, i + 1)
  BY <1>4, <1>5 DEF Promise!TranslationOf, Promised, CirOf
<1>11. Outcome = "lowering" /\ Outcome' = "lowering"
  BY <1>1 DEF Outcome
<1>12. i < Len(file.functions[n + 1].blocks[b])
  BY <1>1, <1>4, <1>5
<1>. QED
  BY <1>1, <1>3, <1>7, <1>8, <1>9, <1>10, <1>11, <1>12 DEF Promise!Lower, Changed

\* A step that promises nothing.
Silent == UNCHANGED <<file, DecodedCode, Lowered, Outcome>>

\* Strings, initial values, global variables and structs.
LEMMA GlobalDataSilent ==
    ASSUME BackendInvariant, NEW g, NEW s,
           CodegenString \/ GlobalInstruction \/ codegenGlobalVar(g) \/ GlobalVarsDone
             \/ codegenStruct(s) \/ StructsDone,
           ~Stop
    PROVE  Silent
<1>1. module = [strings |-> module.strings, globals |-> module.globals, structs |-> module.structs,
                functions |-> module.functions]
  BY DEF BackendInvariant
<1>2. UNCHANGED <<file, bb_codegen_number, i>>
  BY DEF CodegenString, GlobalInstruction, codegenGlobalVar, GlobalVarsDone, codegenStruct, StructsDone, SameFunction
<1>3. module'.functions = module.functions
  <2>1. CASE CodegenString
    <3>1. module' = [module EXCEPT !.strings = module'.strings] \/ module' = module
      BY <1>1, <2>1 DEF CodegenString
    <3>. QED
      BY <1>1, <3>1
  <2>2. CASE codegenGlobalVar(g)
    <3>1. \E v \in {null, Value("global", g.x, 0)} : module' = [module EXCEPT !.globals = Put(@, g.x, v)]
      BY <2>2 DEF codegenGlobalVar
    <3>. QED
      BY <1>1, <3>1
  <2>3. CASE codegenStruct(s)
    BY <1>1, <2>3 DEF codegenStruct
  <2>4. CASE GlobalInstruction \/ GlobalVarsDone \/ StructsDone
    BY <2>4 DEF GlobalInstruction, GlobalVarsDone, StructsDone
  <2>. QED
    BY <2>1, <2>2, <2>3, <2>4
<1>4. phase \notin {"done", "stopped"} /\ phase' \notin {"done", "stopped"}
  BY DEF CodegenString, GlobalInstruction, codegenGlobalVar, GlobalVarsDone, codegenStruct, StructsDone, Leave
<1>5. Outcome' = Outcome
  BY <1>4 DEF Outcome
<1>. QED
  BY <1>2, <1>3, <1>5, SameCode DEF Silent

\* The numbers of functions and blocks.
LEMMA Numbers ==
    ASSUME BackendInvariant
    PROVE  /\ Len(file.functions) \in Nat /\ DOMAIN file.functions = 1..Len(file.functions)
           /\ n \in Nat /\ Len(module.functions) \in Nat /\ DOMAIN module.functions = 1..Len(module.functions)
           /\ \A F \in DOMAIN file.functions :
                 /\ DOMAIN file.functions[F].blocks = 1..Len(file.functions[F].blocks)
                 /\ Len(file.functions[F].blocks) \in Nat
<1>1. Len(file.functions) \in Nat /\ DOMAIN file.functions = 1..Len(file.functions)
  BY FilesWellFormed DEF BackendInvariant, FilesAssumption
<1>2. n \in Nat /\ Len(module.functions) \in Nat /\ DOMAIN module.functions = 1..Len(module.functions)
  BY AppendLemma DEF BackendInvariant
<1>3. ASSUME NEW F \in DOMAIN file.functions
      PROVE  /\ DOMAIN file.functions[F].blocks = 1..Len(file.functions[F].blocks)
             /\ Len(file.functions[F].blocks) \in Nat
  <2>1. file.functions[F].blocks \in Seq(Seq(CIRInstruction))
    BY FunctionLemma DEF BackendInvariant
  <2>. QED
    BY <2>1, SeqFacts
<1>. QED
  BY <1>1, <1>2, <1>3

\* The beginning of a function.
LEMMA BeginFunctionSilent ==
    ASSUME BackendInvariant, PromiseInvariant, BeginFunction, ~Stop
    PROVE  Silent
<1>. DEFINE f == [made |-> << >>, blocks |-> [b \in DOMAIN Function.blocks |-> << >>]]
<1>1. /\ phase = "functions" /\ n < Len(file.functions) /\ Len(module.functions) = n
      /\ module' = [module EXCEPT !.functions = Append(@, f)]
      /\ bb_codegen_number' = 0 /\ i' = 0 /\ file' = file /\ phase' = phase
  BY DEF BeginFunction
<1>2. \A b \in DOMAIN Function.blocks : Decoded(f, b) = << >>
  <2>1. ASSUME NEW b \in DOMAIN Function.blocks
        PROVE  Decoded(f, b) = << >>
    <3>1. f.blocks[b] = << >>
      OBVIOUS
    <3>. HIDE DEF f
    <3>2. DOMAIN << >> = {} /\ \A h : [k \in {} |-> h[k]] = << >>
      OBVIOUS
    <3>3. PICK pieces : pieces = [k \in DOMAIN f.blocks[b] |-> DecodedInstruction(f, f.made[f.blocks[b][k]])]
      OBVIOUS
    <3>4. pieces = << >>
      BY <3>1, <3>2, <3>3
    <3>5. Len(<< >>) = 0
      OBVIOUS
    <3>6. FlattenSeq(pieces) = << >>
      BY <3>4, <3>5 DEF FlattenSeq
    <3>. QED
      BY <3>3, <3>6 DEF Decoded
  <2>. QED
    BY <2>1
<1>. HIDE DEF f
<1>3. /\ DOMAIN module.functions = 1..n
      /\ Len(Append(module.functions, f)) = n + 1
      /\ DOMAIN Append(module.functions, f) = 1..(n + 1)
      /\ \A F \in 1..n : Append(module.functions, f)[F] = module.functions[F]
      /\ Append(module.functions, f)[n + 1] = f
  BY <1>1, AppendLemma DEF BackendInvariant
<1>4. module'.functions = Append(module.functions, f)
  BY <1>1 DEF BackendInvariant
<1>5. /\ n \in Nat
      /\ \A F \in DOMAIN file.functions :
            /\ F \in Nat
            /\ \A a \in DOMAIN file.functions[F].blocks :
                  a \in 1..Len(file.functions[F].blocks) /\ Len(file.functions[F].blocks) \in Nat
  BY Numbers
<1>6. DecodedCode' = DecodedCode
  <2>1. ASSUME NEW F \in DOMAIN file.functions, NEW a \in DOMAIN file.functions[F].blocks
        PROVE  DecodedCode'[F][a] = DecodedCode[F][a]
    <3>1. /\ DecodedCode[F][a] = IF F \in 1..n THEN Decoded(module.functions[F], a) ELSE << >>
          /\ DecodedCode'[F][a] = IF F \in 1..(n + 1) THEN Decoded(Append(module.functions, f)[F], a) ELSE << >>
      BY <1>1, <1>3, <1>4, CodeAt
    <3>2. CASE F = n + 1
      <4>1. a \in DOMAIN Function.blocks
        BY <3>2 DEF Function
      <4>2. F \in 1..(n + 1) /\ F \notin 1..n
        BY <1>5, <3>2
      <4>. QED
        BY <1>2, <1>3, <3>1, <3>2, <4>1, <4>2
    <3>3. CASE F # n + 1
      <4>1. F \in 1..(n + 1) <=> F \in 1..n
        BY <1>5, <3>3
      <4>. QED
        BY <1>3, <3>1, <4>1
    <3>. QED
      BY <3>2, <3>3
  <2>. QED
    BY <1>1, <2>1, TheTables, SameTable
<1>7. Lowered' = Lowered
  <2>1. ASSUME NEW F \in DOMAIN file.functions, NEW a \in DOMAIN file.functions[F].blocks
        PROVE  Lowered'[F][a] = Lowered[F][a]
    <3>1. /\ Lowered[F][a] = IF F < n THEN Len(file.functions[F].blocks[a])
                             ELSE IF F > n \/ a > bb_codegen_number + 1 THEN 0
                             ELSE IF a <= bb_codegen_number THEN Len(file.functions[F].blocks[a]) ELSE i
          /\ Lowered'[F][a] = IF F < n + 1 THEN Len(file.functions[F].blocks[a])
                              ELSE IF F > n + 1 \/ a > 0 + 1 THEN 0
                              ELSE IF a <= 0 THEN Len(file.functions[F].blocks[a]) ELSE 0
      BY <1>1, <1>3, <1>4, LoweredAt, LoweredNextAt
    <3>2. /\ F \in Nat /\ a \in Nat /\ a >= 1
          /\ Len(file.functions[F].blocks) \in Nat /\ a <= Len(file.functions[F].blocks)
      BY <1>5
    <3>3. CASE F = n
      <4>1. bb_codegen_number = Len(file.functions[n].blocks)
        BY <1>1, <1>5, <3>3, Numbers DEF PromiseInvariant
      <4>. QED
        BY <1>5, <3>1, <3>2, <3>3, <4>1
    <3>4. CASE F # n
      BY <1>5, <3>1, <3>2, <3>4
    <3>. QED
      BY <3>3, <3>4
  <2>. QED
    BY <1>1, <2>1, TheTables, SameTable
<1>8. Outcome' = Outcome
  BY <1>1 DEF Outcome
<1>. QED
  BY <1>1, <1>6, <1>7, <1>8 DEF Silent

\* An argument.
LEMMA ArgumentSilent ==
    ASSUME BackendInvariant, PromiseInvariant, StoreArgument, ~Stop
    PROVE  Silent /\ PromiseInvariant'
<1>1. /\ Generating /\ phase = "functions"
      /\ UNCHANGED <<file, phase, n, bb_codegen_number, i>>
  BY DEF StoreArgument, Generating
<1>2. PICK g : /\ module' = [module EXCEPT !.functions[n + 1] = g]
               /\ Writes(Current, g, 1, << >>, Len(Function.blocks))
               /\ Progress' /\ ArgumentsFound'
               /\ Meant(g, functionValues', CirOf, Promise!Denotation(CirOf))
               /\ Found(g, functionVarsAllocas', CirOf, Len(functionValues'))
  BY ArgumentEffect
<1>3. PromiseInvariant'
  <2>1. Operates(g)
    BY <1>2 DEF Writes
  <2>. QED
    BY <1>1, <1>2, <2>1, PromiseUpdate
<1>4. 1 \in DOMAIN Function.blocks
  <2>1. /\ Function.blocks \in Seq(Seq(CIRInstruction)) /\ Len(Function.blocks) \in Nat /\ Len(Function.blocks) > 0
    BY <1>1, CodeLemma
  <2>2. DOMAIN Function.blocks = 1..Len(Function.blocks)
    BY <2>1, SeqFacts
  <2>. QED
    BY <2>1, <2>2
<1>5. DecodedCode' = DecodedCode
  <2>. PICK code : code = << >>
    OBVIOUS
  <2>. QED
    BY <1>1, <1>2, <1>4, WrittenCode
<1>6. Len(module'.functions) = Len(module.functions)
  BY <1>1, <1>2, CodeUpdate
<1>7. Lowered' = Lowered
  <2>1. ASSUME NEW F \in DOMAIN file.functions, NEW a \in DOMAIN file.functions[F].blocks
        PROVE  Lowered'[F][a] = Lowered[F][a]
    BY <1>1, <1>6, LoweredAt, LoweredNextAt
  <2>. QED
    BY <1>1, <2>1, TheTables, SameTable
<1>8. Outcome' = Outcome
  BY <1>1 DEF Outcome
<1>. QED
  BY <1>1, <1>3, <1>5, <1>7, <1>8 DEF Silent

\* The end of a block.
LEMMA EndBlockSilent ==
    ASSUME BackendInvariant, PromiseInvariant, EndBlock
    PROVE  Silent
<1>1. /\ Generating /\ bb_codegen_number < Len(Function.blocks) /\ i = Len(Block)
      /\ bb_codegen_number' = bb_codegen_number + 1 /\ i' = 0
      /\ UNCHANGED <<file, phase, n, module>>
  BY DEF EndBlock, InBody
<1>2. /\ Len(module.functions) = n + 1 /\ Function = file.functions[n + 1] /\ bb_codegen_number \in Nat
      /\ Block = file.functions[n + 1].blocks[bb_codegen_number + 1]
  BY <1>1 DEF Generating, Function, Block, BackendInvariant
<1>3. ASSUME NEW F \in DOMAIN file.functions, NEW a \in DOMAIN file.functions[F].blocks
      PROVE  Lowered'[F][a] = Lowered[F][a]
  <2>1. /\ Lowered[F][a] = IF F < n + 1 THEN Len(file.functions[F].blocks[a])
                           ELSE IF F > n + 1 \/ a > bb_codegen_number + 1 THEN 0
                           ELSE IF a <= bb_codegen_number THEN Len(file.functions[F].blocks[a]) ELSE i
        /\ Lowered'[F][a] = IF F < n + 1 THEN Len(file.functions[F].blocks[a])
                            ELSE IF F > n + 1 \/ a > (bb_codegen_number + 1) + 1 THEN 0
                            ELSE IF a <= bb_codegen_number + 1 THEN Len(file.functions[F].blocks[a]) ELSE 0
    BY <1>1, <1>2, LoweredAt, LoweredNextAt
  <2>2. F \in Nat /\ n \in Nat /\ a \in Nat
    BY Numbers
  <2>3. F = n + 1 /\ a = bb_codegen_number + 1 => i = Len(file.functions[F].blocks[a])
    BY <1>1, <1>2
  <2>. QED
    BY <1>2, <2>1, <2>2, <2>3
<1>4. Lowered' = Lowered
  BY <1>1, <1>3, TheTables, SameTable
<1>5. DecodedCode' = DecodedCode
  BY <1>1, SameCode
<1>6. Outcome' = Outcome
  BY <1>1 DEF Outcome
<1>. QED
  BY <1>1, <1>4, <1>5, <1>6 DEF Silent

\* The end of a function.
LEMMA EndFunctionSilent ==
    ASSUME EndFunction
    PROVE  Silent
<1>1. UNCHANGED <<file, module, bb_codegen_number, i, phase>>
  BY DEF EndFunction, SameFunction
<1>2. DecodedCode' = DecodedCode /\ Lowered' = Lowered
  BY <1>1, SameCode
<1>. QED
  BY <1>1, <1>2 DEF Silent, Outcome

\* The end of the functions: everything is translated.
LEMMA FunctionsDoneFinishes ==
    ASSUME BackendInvariant, PromiseInvariant, FunctionsDone
    PROVE  Promise!Finish
<1>1. /\ phase = "functions" /\ n = Len(file.functions) /\ phase' = "done"
      /\ UNCHANGED <<file, module, bb_codegen_number, i>>
  BY DEF FunctionsDone, SameFunction, Leave
<1>2. DecodedCode' = DecodedCode /\ Lowered' = Lowered
  BY <1>1, SameCode
<1>3. Len(module.functions) = n /\ n \in Nat
  BY <1>1, Numbers DEF BackendInvariant
<1>4. ASSUME NEW F \in DOMAIN file.functions, NEW b \in DOMAIN file.functions[F].blocks
      PROVE  Lowered[F][b] = Len(file.functions[F].blocks[b])
  <2>1. /\ F \in 1..n /\ b \in 1..Len(file.functions[F].blocks) /\ Len(file.functions[F].blocks) \in Nat
    BY <1>1, Numbers
  <2>2. Lowered[F][b] = IF F < n THEN Len(file.functions[F].blocks[b])
                        ELSE IF F > n \/ b > bb_codegen_number + 1 THEN 0
                        ELSE IF b <= bb_codegen_number THEN Len(file.functions[F].blocks[b]) ELSE i
    BY <1>3, LoweredAt
  <2>3. F = n => bb_codegen_number = Len(file.functions[F].blocks)
    <3>1. F = n => n > 0
      BY <1>3, <2>1
    <3>. QED
      BY <1>1, <1>3, <3>1 DEF PromiseInvariant
  <2>. QED
    BY <1>3, <2>1, <2>2, <2>3
<1>5. Promise!Everything
  BY <1>4 DEF Promise!Everything
<1>6. Outcome = "lowering" /\ Outcome' = "done"
  BY <1>1 DEF Outcome
<1>. QED
  BY <1>1, <1>2, <1>5, <1>6 DEF Promise!Finish

\* An error.
LEMMA StopRefuses ==
    ASSUME Stop, phase \notin {"done", "stopped"}
    PROVE  Promise!Refuse
<1>1. /\ phase' = "stopped" /\ UNCHANGED <<file, module, bb_codegen_number, i>>
  BY DEF Stop
<1>2. DecodedCode' = DecodedCode /\ Lowered' = Lowered
  BY <1>1, SameCode
<1>3. Outcome = "lowering" /\ Outcome' = "stopped"
  BY <1>1 DEF Outcome
<1>. QED
  BY <1>1, <1>2, <1>3 DEF Promise!Refuse

\* Nothing.
LEMMA StutterSilent ==
    ASSUME UNCHANGED vars
    PROVE  Silent
<1>1. UNCHANGED <<file, phase, module, bb_codegen_number, i>>
  BY DEF vars
<1>2. DecodedCode' = DecodedCode /\ Lowered' = Lowered
  BY <1>1, SameCode
<1>. QED
  BY <1>1, <1>2 DEF Silent, Outcome

-----------------------------------------------------------------------------
(* The specification.                                                      *)

\* Every step keeps the invariant, and does what is promised or nothing.
LEMMA StepKeepsThePromise ==
    ASSUME BackendInvariant, PromiseInvariant, [Next]_vars
    PROVE  PromiseInvariant' /\ [Promise!Next]_(Promise!lvars)
<1>1. Silent => [Promise!Next]_(Promise!lvars)
  BY DEF Silent, Promise!lvars
<1>2. CASE UNCHANGED vars
  BY <1>1, <1>2, StutterSilent, StopPromise
<1>3. CASE Ended
  <2>1. UNCHANGED vars
    BY <1>3 DEF Ended
  <2>. QED
    BY <1>1, <2>1, StutterSilent, StopPromise
<1>4. CASE codegenFile /\ Stop
  <2>1. phase \notin {"done", "stopped"}
    BY <1>4 DEF codegenFile, CodegenString, GlobalInstruction, codegenGlobalVar, GlobalVarsDone, codegenStruct,
                StructsDone, BeginFunction, StoreArgument, NextInstruction, EndBlock, EndFunction, FunctionsDone,
                InBody, Generating
  <2>. QED
    BY <1>4, <2>1, StopRefuses, StopPromise DEF Promise!Next
<1>5. CASE codegenFile /\ ~Stop
  <2>1. CASE \/ CodegenString \/ GlobalInstruction \/ (\E g \in file.globals : codegenGlobalVar(g))
             \/ GlobalVarsDone \/ (\E s \in file.structs : codegenStruct(s)) \/ StructsDone
    BY <1>1, <1>5, <2>1, GlobalDataSilent, GlobalDataPromise
  <2>2. CASE BeginFunction
    BY <1>1, <1>5, <2>2, BeginFunctionSilent, BeginFunctionPromise
  <2>3. CASE StoreArgument
    BY <1>1, <1>5, <2>3, ArgumentSilent
  <2>4. CASE NextInstruction
    <3>1. Promise!Lower(n + 1, bb_codegen_number + 1) /\ PromiseInvariant'
      BY <1>5, <2>4, InstructionLowers
    <3>2. n + 1 \in DOMAIN file.functions /\ bb_codegen_number + 1 \in DOMAIN file.functions[n + 1].blocks
      <4>1. Generating /\ InBody /\ bb_codegen_number < Len(Function.blocks) /\ i < Len(Block)
        BY <2>4 DEF NextInstruction, InBody
      <4>. QED
        BY <4>1, CodeLemma, InstructionToTranslate DEF Function
    <3>. QED
      BY <3>1, <3>2 DEF Promise!Next
  <2>5. CASE EndBlock
    BY <1>1, <2>5, EndBlockSilent, EndBlockPromise
  <2>6. CASE EndFunction
    BY <1>1, <2>6, EndFunctionSilent, EndFunctionPromise
  <2>7. CASE FunctionsDone
    BY <2>7, FunctionsDoneFinishes, EndFunctionPromise DEF Promise!Next
  <2>. QED
    BY <1>5, <2>1, <2>2, <2>3, <2>4, <2>5, <2>6, <2>7 DEF codegenFile
<1>. QED
  BY <1>2, <1>3, <1>4, <1>5 DEF Next

\* The beginning.
LEMMA PromiseInit ==
    ASSUME Init, Translatable
    PROVE  PromiseInvariant /\ Promise!Init
<1>1. /\ file \in Files /\ phase = "strings" /\ n = 0
      /\ module = [strings |-> << >>, globals |-> {}, structs |-> {}, functions |-> << >>]
  BY DEF Init
<1>2. file.strings \in Seq(STRING) /\ Len(file.functions) \in Nat /\ DOMAIN file.functions = 1..Len(file.functions)
  BY <1>1, FilesWellFormed DEF FilesAssumption
<1>3. Len(file.strings) \in Nat /\ SubSeq(file.strings, 1, 0) = << >>
  BY <1>2, PrefixFacts
<1>4. DOMAIN << >> = {} /\ Len(<< >>) = 0
  OBVIOUS
<1>5. PromiseInvariant
  BY <1>1, <1>3, <1>4 DEF PromiseInvariant, Generating
<1>6. DecodedCode = [F \in DOMAIN file.functions |-> [b \in DOMAIN file.functions[F].blocks |-> << >>]]
  BY <1>1, <1>4 DEF DecodedCode
<1>7. Lowered = [F \in DOMAIN file.functions |-> [b \in DOMAIN file.functions[F].blocks |-> 0]]
  BY <1>1, <1>2, <1>4 DEF Lowered
<1>8. Outcome = "lowering"
  BY <1>1 DEF Outcome
<1>. QED
  BY <1>1, <1>5, <1>6, <1>7, <1>8 DEF Promise!Init

\* The tables of the backend always say where the values of the source are, what
\* they mean, and how far the translation is.
THEOREM TablesAlwaysMean == Spec /\ Translatable => []PromiseInvariant
<1>1. Init /\ Translatable => BackendInvariant /\ PromiseInvariant
  BY InitLemma, PromiseInit
<1>2. BackendInvariant /\ PromiseInvariant /\ [Next]_vars => BackendInvariant' /\ PromiseInvariant'
  BY NextLemma, StepKeepsThePromise
<1>. QED
  BY <1>1, <1>2, PTL DEF Spec

\* The generated code is the one that is promised: what codegenFile does is a
\* way to do what module Lowering says, for every file whose instructions the
\* backend translates as promised.
THEOREM PromiseIsKept == Spec /\ Translatable => KeepsThePromise
<1>1. Init /\ Translatable => BackendInvariant /\ PromiseInvariant /\ Promise!Init
  BY InitLemma, PromiseInit
<1>2. BackendInvariant /\ PromiseInvariant /\ [Next]_vars
         => BackendInvariant' /\ PromiseInvariant' /\ [Promise!Next]_(Promise!lvars)
  BY NextLemma, StepKeepsThePromise
<1>. QED
  BY <1>1, <1>2, PTL DEF Spec, KeepsThePromise, Promise!Spec
==============================================================================
