--------------------------- MODULE Sequences_proofs ---------------------------
(***************************************************************************)
(* Facts about sequences that the proofs of the CIR and of its backend     *)
(* share: induction on the natural numbers for a set of them, sequences    *)
(* with one more element, and the concatenation of a sequence of sequences *)
(* (the blocks of a function, one after the other).                        *)
(***************************************************************************)
EXTENDS Integers, Sequences, SequencesExt, FiniteSetTheorems, SequenceTheorems,
        WellFoundedInduction, TLAPS

\* Induction on natural numbers, for a set of them.
LEMMA SetInduction ==
    ASSUME NEW S, 0 \in S, \A m \in Nat : m \in S => m + 1 \in S
    PROVE  Nat \subseteq S
<1>. DEFINE T == Nat \ S
            R == OpToRel(<, Nat)
<1>1. SUFFICES ASSUME T # {}
               PROVE  FALSE
  OBVIOUS
<1>2. IsWellFoundedOn(R, Nat)
  BY NatLessThanWellFounded
<1>3. T \subseteq Nat
  OBVIOUS
<1>. HIDE DEF R, T
<1>4. \E x \in T : \A y \in T : ~ (<<y, x>> \in R)
  BY <1>1, <1>2, <1>3, WFMin
<1>5. PICK x \in T : \A y \in T : ~ (<<y, x>> \in R)
  BY <1>4
<1>6. x \in Nat /\ x \notin S /\ x # 0
  BY <1>5 DEF T
<1>7. x - 1 \in Nat /\ (x - 1) + 1 = x
  BY <1>6
<1>8. x - 1 \in T
  BY <1>6, <1>7 DEF T
<1>9. <<x - 1, x>> \in R
  BY <1>6, <1>7 DEF R, OpToRel
<1>. QED
  BY <1>5, <1>8, <1>9

\* The function by which FlattenSeq is defined.
Flattens(g, ss) == g = [k \in 1..Len(ss) |-> IF k = 1 THEN ss[k] ELSE g[k - 1] \o ss[k]]

\* The recursive function of FlattenSeq exists.
LEMMA FlattensUpTo ==
    ASSUME NEW X, NEW ss \in Seq(Seq(X)), ss # << >>
    PROVE  \E g \in [1..Len(ss) -> Seq(X)] : Flattens(g, ss)
<1>. DEFINE P(m, g) == \A k \in 1..m : g[k] = IF k = 1 THEN ss[k] ELSE g[k - 1] \o ss[k]
            Some(m) == \E g \in [1..m -> Seq(X)] : P(m, g)
            S == {m \in Nat : m < Len(ss) => Some(m + 1)}
<1>0. Len(ss) \in Nat /\ Len(ss) > 0 /\ \A k \in 1..Len(ss) : ss[k] \in Seq(X)
  OBVIOUS
<1>1. 0 \in S
  <2>. DEFINE g == [k \in 1..(0 + 1) |-> ss[1]]
  <2>1. g \in [1..(0 + 1) -> Seq(X)] /\ P(0 + 1, g)
    BY <1>0
  <2>. QED
    BY <2>1
<1>2. ASSUME NEW m \in Nat, m \in S
      PROVE  m + 1 \in S
  <2>0. (m + 1) + 1 = m + 2
    OBVIOUS
  <2>. HIDE DEF Some
  <2>1. SUFFICES ASSUME m + 1 < Len(ss)
                 PROVE  Some(m + 2)
    BY <2>0
  <2>2. PICK g \in [1..(m + 1) -> Seq(X)] : P(m + 1, g)
    <3>1. m < Len(ss)
      BY <1>0, <2>1
    <3>. QED
      BY <1>2, <3>1 DEF Some
  <2>. DEFINE h == [k \in 1..(m + 2) |-> IF k = m + 2 THEN g[m + 1] \o ss[m + 2] ELSE g[k]]
  <2>3. ss[m + 2] \in Seq(X) /\ g[m + 1] \in Seq(X)
    BY <1>0, <2>1, <2>2
  <2>4. g[m + 1] \o ss[m + 2] \in Seq(X)
    BY <2>3
  <2>5. h \in [1..(m + 2) -> Seq(X)]
    <3>1. ASSUME NEW k \in 1..(m + 2)
          PROVE  h[k] \in Seq(X)
      BY <2>2, <2>4
    <3>. QED
      BY <3>1
  <2>6. P(m + 2, h)
    <3>1. SUFFICES ASSUME NEW k \in 1..(m + 2)
                   PROVE  h[k] = IF k = 1 THEN ss[k] ELSE h[k - 1] \o ss[k]
      OBVIOUS
    <3>2. CASE k = m + 2
      <4>1. k # 1 /\ k - 1 = m + 1 /\ m + 1 \in 1..(m + 2) /\ m + 1 # m + 2
        BY <3>2
      <4>2. h[k - 1] = g[m + 1] /\ h[k] = g[m + 1] \o ss[m + 2]
        BY <3>2, <4>1
      <4>. QED
        BY <3>2, <4>1, <4>2
    <3>3. CASE k # m + 2
      <4>1. k \in 1..(m + 1) /\ h[k] = g[k] /\ (k # 1 => k - 1 \in 1..(m + 1) /\ h[k - 1] = g[k - 1])
        BY <3>3
      <4>. QED
        BY <2>2, <4>1
    <3>. QED
      BY <3>2, <3>3
  <2>. QED
    BY <2>5, <2>6 DEF Some
<1>. HIDE DEF S
<1>3. Nat \subseteq S
  BY <1>1, <1>2, SetInduction
<1>4. Len(ss) - 1 \in S
  BY <1>0, <1>3
<1>5. PICK g \in [1..Len(ss) -> Seq(X)] : P(Len(ss), g)
  <2>1. (Len(ss) - 1) + 1 = Len(ss) /\ Len(ss) - 1 < Len(ss)
    BY <1>0
  <2>. QED
    BY <1>4, <2>1 DEF S
<1>6. g = [k \in 1..Len(ss) |-> IF k = 1 THEN ss[k] ELSE g[k - 1] \o ss[k]]
  BY <1>5
<1>. QED
  BY <1>5, <1>6 DEF Flattens

\* Any other such function has the same values.
LEMMA FlattensUnique ==
    ASSUME NEW ss, Len(ss) \in Nat, NEW g, NEW h, Flattens(g, ss), Flattens(h, ss)
    PROVE  g = h
<1>. DEFINE S == {m \in Nat : m + 1 \in 1..Len(ss) => g[m + 1] = h[m + 1]}
<1>1. 0 \in S
  BY DEF Flattens
<1>2. ASSUME NEW m \in Nat, m \in S
      PROVE  m + 1 \in S
  <2>1. SUFFICES ASSUME m + 2 \in 1..Len(ss)
                 PROVE  g[m + 2] = h[m + 2]
    BY <1>2
  <2>2. m + 1 \in 1..Len(ss) /\ m + 2 # 1 /\ (m + 2) - 1 = m + 1
    BY <2>1
  <2>3. g[m + 2] = g[m + 1] \o ss[m + 2] /\ h[m + 2] = h[m + 1] \o ss[m + 2]
    BY <2>1, <2>2 DEF Flattens
  <2>. QED
    BY <1>2, <2>2, <2>3
<1>. HIDE DEF S
<1>3. Nat \subseteq S
  BY <1>1, <1>2, SetInduction
<1>4. ASSUME NEW k \in 1..Len(ss)
      PROVE  g[k] = h[k]
  <2>1. k - 1 \in Nat /\ (k - 1) + 1 = k
    OBVIOUS
  <2>2. k - 1 \in S
    BY <1>3, <2>1
  <2>. QED
    BY <2>1, <2>2 DEF S
<1>. QED
  BY <1>4 DEF Flattens

\* FlattenSeq is the last value of any function that flattens.
LEMMA FlattenSeqDef ==
    ASSUME NEW X, NEW ss \in Seq(Seq(X)), ss # << >>, NEW g, Flattens(g, ss)
    PROVE  FlattenSeq(ss) = g[Len(ss)]
<1>1. Len(ss) \in Nat /\ Len(ss) # 0
  OBVIOUS
<1>. DEFINE f == CHOOSE f : f = [k \in 1..Len(ss) |-> IF k = 1 THEN ss[k] ELSE f[k - 1] \o ss[k]]
<1>2. FlattenSeq(ss) = f[Len(ss)]
  BY <1>1 DEF FlattenSeq
<1>3. Flattens(f, ss)
  BY DEF Flattens
<1>. HIDE DEF f
<1>4. f = g
  BY <1>1, <1>3, FlattensUnique
<1>. QED
  BY <1>2, <1>4

\* A sequence with one more element at its end.
LEMMA AppendFacts ==
    ASSUME NEW Y, NEW s \in Seq(Y), NEW e \in Y
    PROVE  /\ Append(s, e) \in Seq(Y) /\ Append(s, e) # << >>
           /\ Len(s) \in Nat /\ Len(Append(s, e)) = Len(s) + 1
           /\ Append(s, e)[Len(s) + 1] = e
           /\ \A k \in 1..Len(s) : Append(s, e)[k] = s[k] /\ s[k] \in Y
OBVIOUS

\* The same at the beginning.
LEMMA FrontFacts ==
    ASSUME NEW Y, NEW s \in Seq(Y), NEW e \in Y
    PROVE  /\ <<e>> \o s \in Seq(Y)
           /\ Len(s) \in Nat /\ Len(<<e>> \o s) = Len(s) + 1
           /\ (<<e>> \o s)[1] = e
           /\ \A k \in 1..Len(s) : (<<e>> \o s)[k + 1] = s[k]
OBVIOUS

\* The beginnings of a sequence.
LEMMA PrefixFacts ==
    ASSUME NEW Y, NEW s \in Seq(Y)
    PROVE  /\ Len(s) \in Nat
           /\ SubSeq(s, 1, Len(s)) = s
           /\ SubSeq(s, 1, 0) = << >>
           /\ \A m \in 0..(Len(s) - 1) :
                 /\ SubSeq(s, 1, m) \in Seq(Y) /\ s[m + 1] \in Y
                 /\ SubSeq(s, 1, m + 1) = Append(SubSeq(s, 1, m), s[m + 1])
<1>1. Len(s) \in Nat /\ SubSeq(s, 1, Len(s)) = s /\ SubSeq(s, 1, 0) = << >>
  OBVIOUS
<1>2. ASSUME NEW m \in 0..(Len(s) - 1)
      PROVE  /\ SubSeq(s, 1, m) \in Seq(Y) /\ s[m + 1] \in Y
             /\ SubSeq(s, 1, m + 1) = Append(SubSeq(s, 1, m), s[m + 1])
  <2>1. m \in Nat /\ m + 1 \in 1..Len(s)
    BY <1>1
  <2>2. s[m + 1] \in Y /\ SubSeq(s, 1, m) \in Seq(Y)
    BY <2>1
  <2>. QED
    BY <2>1, <2>2
<1>. QED
  BY <1>1, <1>2

\* The pieces one after the other.
LEMMA FlattenAppend ==
    ASSUME NEW X, NEW ss \in Seq(Seq(X)), NEW s \in Seq(X)
    PROVE  /\ FlattenSeq(ss) \in Seq(X)
           /\ FlattenSeq(Append(ss, s)) = FlattenSeq(ss) \o s
<1>. DEFINE tt == Append(ss, s)
<1>1. /\ Len(ss) \in Nat /\ tt \in Seq(Seq(X)) /\ Len(tt) = Len(ss) + 1 /\ tt # << >>
      /\ tt[Len(ss) + 1] = s /\ \A k \in 1..Len(ss) : tt[k] = ss[k]
  BY AppendFacts
<1>. HIDE DEF tt
<1>2. PICK h \in [1..Len(tt) -> Seq(X)] : Flattens(h, tt)
  BY <1>1, FlattensUpTo
<1>3. FlattenSeq(tt) = h[Len(ss) + 1]
  BY <1>1, <1>2, FlattenSeqDef
<1>4. CASE ss = << >>
  <2>1. FlattenSeq(ss) = << >>
    BY <1>4 DEF FlattenSeq
  <2>2. h[1] = s
    BY <1>1, <1>2, <1>4 DEF Flattens
  <2>3. Len(ss) = 0
    BY <1>4
  <2>4. FlattenSeq(tt) = s /\ << >> \in Seq(X) /\ << >> \o s = s
    BY <1>3, <2>2, <2>3
  <2>. QED
    BY <2>1, <2>4 DEF tt
<1>5. CASE ss # << >>
  <2>. DEFINE g == [k \in 1..Len(ss) |-> h[k]]
  <2>1. Flattens(g, ss) /\ g \in [1..Len(ss) -> Seq(X)]
    <3>1. ASSUME NEW k \in 1..Len(ss)
          PROVE  /\ g[k] = IF k = 1 THEN ss[k] ELSE g[k - 1] \o ss[k]
                 /\ g[k] \in Seq(X)
      <4>1. k \in 1..Len(tt) /\ (k # 1 => k - 1 \in 1..Len(ss))
        BY <1>1
      <4>2. h[k] = IF k = 1 THEN tt[k] ELSE h[k - 1] \o tt[k]
        BY <1>2, <4>1 DEF Flattens
      <4>. QED
        BY <1>1, <1>2, <4>1, <4>2
    <3>. QED
      BY <3>1 DEF Flattens
  <2>. HIDE DEF g
  <2>2. FlattenSeq(ss) = g[Len(ss)]
    BY <1>5, <2>1, FlattenSeqDef
  <2>3. Len(ss) \in 1..Len(ss) /\ Len(ss) + 1 # 1 /\ Len(ss) + 1 \in 1..Len(tt) /\ (Len(ss) + 1) - 1 = Len(ss)
    BY <1>1, <1>5
  <2>4. h[Len(ss) + 1] = h[Len(ss)] \o s
    BY <1>1, <1>2, <2>3 DEF Flattens
  <2>5. h[Len(ss)] = g[Len(ss)] /\ g[Len(ss)] \in Seq(X)
    BY <2>1, <2>3 DEF g
  <2>. QED
    BY <1>3, <2>2, <2>4, <2>5 DEF tt
<1>. QED
  BY <1>4, <1>5

\* An empty piece before the others.
LEMMA FlattenEmptyFront ==
    ASSUME NEW X, NEW ss \in Seq(Seq(X))
    PROVE  FlattenSeq(<< << >> >> \o ss) = FlattenSeq(ss)
<1>. DEFINE tt == << << >> >> \o ss
            S == {m \in Nat : m <= Len(ss) => FlattenSeq(SubSeq(tt, 1, m + 1)) = FlattenSeq(SubSeq(ss, 1, m))}
<1>1. /\ Len(ss) \in Nat /\ tt \in Seq(Seq(X)) /\ Len(tt) = Len(ss) + 1
      /\ tt[1] = << >> /\ \A k \in 1..Len(ss) : tt[k + 1] = ss[k]
  <2>1. << >> \in Seq(X)
    OBVIOUS
  <2>. QED
    BY <2>1, FrontFacts
<1>. HIDE DEF tt
<1>2. FlattenSeq(<< >>) = << >>
  BY DEF FlattenSeq
<1>3. 0 \in S
  <2>1. SubSeq(ss, 1, 0) = << >> /\ SubSeq(tt, 1, 0 + 1) = Append(<< >>, << >>)
    <3>1. 0 \in 0..(Len(tt) - 1)
      BY <1>1
    <3>2. SubSeq(tt, 1, 0) = << >> /\ SubSeq(tt, 1, 0 + 1) = Append(SubSeq(tt, 1, 0), tt[0 + 1])
      BY <1>1, <3>1, PrefixFacts
    <3>3. tt[0 + 1] = << >>
      BY <1>1
    <3>. QED
      BY <3>2, <3>3, PrefixFacts
  <2>2. << >> \in Seq(Seq(X)) /\ << >> \in Seq(X)
    OBVIOUS
  <2>3. FlattenSeq(Append(<< >>, << >>)) = FlattenSeq(<< >>) \o << >>
    BY <2>2, FlattenAppend
  <2>4. << >> \o << >> = << >>
    OBVIOUS
  <2>5. FlattenSeq(SubSeq(tt, 1, 0 + 1)) = FlattenSeq(SubSeq(ss, 1, 0))
    BY <1>2, <2>1, <2>3, <2>4
  <2>. QED
    BY <2>5
<1>4. ASSUME NEW m \in Nat, m \in S
      PROVE  m + 1 \in S
  <2>1. SUFFICES ASSUME m + 1 <= Len(ss)
                 PROVE  FlattenSeq(SubSeq(tt, 1, (m + 1) + 1)) = FlattenSeq(SubSeq(ss, 1, m + 1))
    OBVIOUS
  <2>0. m \in 0..(Len(ss) - 1) /\ m + 1 \in 0..(Len(tt) - 1) /\ m + 1 \in 1..Len(ss)
    BY <1>1, <2>1
  <2>2. /\ SubSeq(ss, 1, m) \in Seq(Seq(X)) /\ ss[m + 1] \in Seq(X)
        /\ SubSeq(ss, 1, m + 1) = Append(SubSeq(ss, 1, m), ss[m + 1])
    BY <2>0, PrefixFacts
  <2>3. /\ SubSeq(tt, 1, m + 1) \in Seq(Seq(X))
        /\ SubSeq(tt, 1, (m + 1) + 1) = Append(SubSeq(tt, 1, m + 1), tt[(m + 1) + 1])
    BY <1>1, <2>0, PrefixFacts
  <2>4. tt[(m + 1) + 1] = ss[m + 1]
    BY <1>1, <2>0
  <2>5. FlattenSeq(SubSeq(tt, 1, m + 1)) = FlattenSeq(SubSeq(ss, 1, m))
    BY <1>1, <1>4, <2>1
  <2>6. FlattenSeq(Append(SubSeq(ss, 1, m), ss[m + 1])) = FlattenSeq(SubSeq(ss, 1, m)) \o ss[m + 1]
    BY <2>2, FlattenAppend
  <2>7. FlattenSeq(Append(SubSeq(tt, 1, m + 1), ss[m + 1])) = FlattenSeq(SubSeq(tt, 1, m + 1)) \o ss[m + 1]
    BY <2>2, <2>3, FlattenAppend
  <2>. QED
    BY <2>2, <2>3, <2>4, <2>5, <2>6, <2>7
<1>. HIDE DEF S
<1>5. Nat \subseteq S
  BY <1>3, <1>4, SetInduction
<1>6. Len(ss) \in S
  BY <1>1, <1>5
<1>7. SubSeq(tt, 1, Len(ss) + 1) = tt /\ SubSeq(ss, 1, Len(ss)) = ss
  BY <1>1, PrefixFacts
<1>8. FlattenSeq(SubSeq(tt, 1, Len(ss) + 1)) = FlattenSeq(SubSeq(ss, 1, Len(ss)))
  BY <1>1, <1>6 DEF S
<1>. QED
  BY <1>7, <1>8 DEF tt

\* Where the elements of piece b are in the whole.
LEMMA FlattenElement ==
    ASSUME NEW X, NEW ss \in Seq(Seq(X)), NEW b \in 1..Len(ss)
    PROVE  LET before == FlattenSeq(SubSeq(ss, 1, b - 1))
               up == FlattenSeq(SubSeq(ss, 1, b))
               whole == FlattenSeq(ss)
           IN  /\ before \in Seq(X) /\ whole \in Seq(X) /\ ss[b] \in Seq(X) /\ up = before \o ss[b]
               /\ Len(before) + Len(ss[b]) <= Len(whole)
               /\ \A k \in 1..Len(ss[b]) : whole[Len(before) + k] = ss[b][k]
<1>. DEFINE Prefix(m) == FlattenSeq(SubSeq(ss, 1, m))
            before == Prefix(b - 1)
            S == {m \in Nat : b + m <= Len(ss) =>
                    /\ Prefix(b + m) \in Seq(X)
                    /\ Len(before) + Len(ss[b]) <= Len(Prefix(b + m))
                    /\ \A k \in 1..Len(ss[b]) : Prefix(b + m)[Len(before) + k] = ss[b][k]}
<1>1. Len(ss) \in Nat /\ b \in Nat /\ b <= Len(ss) /\ b >= 1
  OBVIOUS
<1>2. ASSUME NEW m \in 0..(Len(ss) - 1)
      PROVE  /\ Prefix(m) \in Seq(X) /\ ss[m + 1] \in Seq(X)
             /\ Prefix(m + 1) = Prefix(m) \o ss[m + 1]
  <2>1. SubSeq(ss, 1, m) \in Seq(Seq(X)) /\ ss[m + 1] \in Seq(X)
    BY PrefixFacts
  <2>2. SubSeq(ss, 1, m + 1) = Append(SubSeq(ss, 1, m), ss[m + 1])
    BY PrefixFacts
  <2>3. /\ FlattenSeq(SubSeq(ss, 1, m)) \in Seq(X)
        /\ FlattenSeq(Append(SubSeq(ss, 1, m), ss[m + 1])) = FlattenSeq(SubSeq(ss, 1, m)) \o ss[m + 1]
    BY <2>1, FlattenAppend
  <2>. QED
    BY <2>1, <2>2, <2>3
<1>. HIDE DEF Prefix
<1>3. before \in Seq(X) /\ ss[b] \in Seq(X) /\ Prefix(b) = before \o ss[b]
  <2>1. b - 1 \in 0..(Len(ss) - 1) /\ (b - 1) + 1 = b
    BY <1>1
  <2>. QED
    BY <1>2, <2>1
<1>. HIDE DEF before
<1>4. 0 \in S
  <2>1. b + 0 = b
    BY <1>1
  <2>2. /\ Prefix(b) \in Seq(X) /\ Len(before) + Len(ss[b]) <= Len(Prefix(b))
        /\ \A k \in 1..Len(ss[b]) : Prefix(b)[Len(before) + k] = ss[b][k]
    BY <1>3
  <2>. QED
    BY <2>1, <2>2
<1>5. ASSUME NEW m \in Nat, m \in S
      PROVE  m + 1 \in S
  <2>0. m + 1 \in Nat
    OBVIOUS
  <2>1. SUFFICES ASSUME b + (m + 1) <= Len(ss)
                 PROVE  /\ Prefix(b + (m + 1)) \in Seq(X)
                        /\ Len(before) + Len(ss[b]) <= Len(Prefix(b + (m + 1)))
                        /\ \A k \in 1..Len(ss[b]) : Prefix(b + (m + 1))[Len(before) + k] = ss[b][k]
    BY <2>0, Zenon
  <2>2. b + m \in 0..(Len(ss) - 1) /\ (b + m) + 1 = b + (m + 1) /\ b + m <= Len(ss)
    BY <1>1, <2>1
  <2>3. PICK p : p = Prefix(b + m)
    OBVIOUS
  <2>4. PICK s : s = ss[(b + m) + 1]
    OBVIOUS
  <2>5. p \in Seq(X) /\ s \in Seq(X) /\ Prefix(b + (m + 1)) = p \o s
    BY <1>2, <2>2, <2>3, <2>4
  <2>6. /\ Len(before) + Len(ss[b]) <= Len(p)
        /\ \A k \in 1..Len(ss[b]) : p[Len(before) + k] = ss[b][k]
    BY <1>5, <2>2, <2>3
  <2>7. /\ p \o s \in Seq(X) /\ Len(p \o s) = Len(p) + Len(s) /\ Len(p) \in Nat /\ Len(s) \in Nat
        /\ \A k \in 1..Len(p) : (p \o s)[k] = p[k]
    BY <2>5
  <2>8. Len(before) \in Nat /\ Len(ss[b]) \in Nat
    BY <1>3
  <2>9. \A k \in 1..Len(ss[b]) : Len(before) + k \in 1..Len(p)
    BY <2>6, <2>7, <2>8
  <2>10. Len(before) + Len(ss[b]) <= Len(p \o s)
    BY <2>6, <2>7, <2>8
  <2>. QED
    BY <2>5, <2>6, <2>7, <2>9, <2>10
<1>. HIDE DEF S
<1>6. Len(ss) - b \in S
  <2>1. Nat \subseteq S
    BY <1>4, <1>5, SetInduction
  <2>. QED
    BY <1>1, <2>1
<1>7. b + (Len(ss) - b) = Len(ss) /\ SubSeq(ss, 1, Len(ss)) = ss
  BY <1>1, PrefixFacts
<1>8. /\ Prefix(Len(ss)) \in Seq(X)
      /\ Len(before) + Len(ss[b]) <= Len(Prefix(Len(ss)))
      /\ \A k \in 1..Len(ss[b]) : Prefix(Len(ss))[Len(before) + k] = ss[b][k]
  BY <1>1, <1>6, <1>7 DEF S
<1>. QED
  BY <1>3, <1>7, <1>8 DEF Prefix, before

\* Empty pieces at the end.
LEMMA FlattenTrailing ==
    ASSUME NEW X, NEW ss \in Seq(Seq(X)), NEW j \in 1..Len(ss),
           \A k \in 1..Len(ss) : k > j => ss[k] = << >>
    PROVE  FlattenSeq(ss) = FlattenSeq(SubSeq(ss, 1, j))
<1>. DEFINE Prefix(m) == FlattenSeq(SubSeq(ss, 1, m))
            S == {m \in Nat : j + m <= Len(ss) => Prefix(j + m) = Prefix(j)}
<1>1. Len(ss) \in Nat /\ j \in Nat /\ j <= Len(ss) /\ j >= 1
  OBVIOUS
<1>2. ASSUME NEW m \in j..(Len(ss) - 1)
      PROVE  Prefix(m + 1) = Prefix(m)
  <2>1. m \in 0..(Len(ss) - 1)
    BY <1>1
  <2>2. SubSeq(ss, 1, m) \in Seq(Seq(X)) /\ SubSeq(ss, 1, m + 1) = Append(SubSeq(ss, 1, m), ss[m + 1])
    BY <2>1, PrefixFacts
  <2>3. ss[m + 1] = << >>
    BY <1>1
  <2>4. PICK p : p = SubSeq(ss, 1, m)
    OBVIOUS
  <2>5. << >> \in Seq(X) /\ p \in Seq(Seq(X))
    BY <2>2, <2>4
  <2>6. FlattenSeq(p) \in Seq(X) /\ FlattenSeq(Append(p, << >>)) = FlattenSeq(p) \o << >>
    BY <2>5, FlattenAppend
  <2>7. FlattenSeq(p) \o << >> = FlattenSeq(p)
    BY <2>6
  <2>. QED
    BY <2>2, <2>3, <2>4, <2>6, <2>7
<1>. HIDE DEF Prefix
<1>3. 0 \in S
  BY <1>1
<1>4. ASSUME NEW m \in Nat, m \in S
      PROVE  m + 1 \in S
  <2>1. SUFFICES ASSUME j + (m + 1) <= Len(ss)
                 PROVE  Prefix(j + (m + 1)) = Prefix(j)
    OBVIOUS
  <2>2. j + m \in j..(Len(ss) - 1) /\ (j + m) + 1 = j + (m + 1) /\ j + m <= Len(ss)
    BY <1>1, <2>1
  <2>3. Prefix(j + (m + 1)) = Prefix(j + m)
    BY <1>2, <2>2
  <2>. QED
    BY <1>4, <2>2, <2>3
<1>. HIDE DEF S
<1>5. Len(ss) - j \in S
  <2>1. Nat \subseteq S
    BY <1>3, <1>4, SetInduction
  <2>. QED
    BY <1>1, <2>1
<1>6. j + (Len(ss) - j) = Len(ss)
  BY <1>1
<1>7. Prefix(Len(ss)) = Prefix(j)
  BY <1>1, <1>5, <1>6 DEF S
<1>8. SubSeq(ss, 1, Len(ss)) = ss
  BY PrefixFacts
<1>. QED
  BY <1>7, <1>8 DEF Prefix

\* Concatenation, one element longer.
LEMMA ConcatAppend ==
    ASSUME NEW X, NEW q \in Seq(X), NEW s \in Seq(X), NEW x \in X
    PROVE  q \o s \in Seq(X) /\ q \o Append(s, x) = Append(q \o s, x)
<1>1. q \o s \in Seq(X) /\ Append(s, x) \in Seq(X) /\ Len(q) \in Nat /\ Len(s) \in Nat
  OBVIOUS
<1>2. Append(q \o s, x) \in Seq(X) /\ q \o Append(s, x) \in Seq(X)
  BY <1>1
<1>3. /\ Len(q \o Append(s, x)) = (Len(q) + Len(s)) + 1
      /\ Len(Append(q \o s, x)) = (Len(q) + Len(s)) + 1
  BY <1>1
<1>4. ASSUME NEW k \in 1..((Len(q) + Len(s)) + 1)
      PROVE  (q \o Append(s, x))[k] = Append(q \o s, x)[k]
  <2>1. CASE k \in 1..Len(q)
    BY <1>1, <2>1
  <2>2. CASE k \notin 1..Len(q)
    <3>1. k - Len(q) \in 1..(Len(s) + 1)
      BY <1>1, <2>2
    <3>2. (q \o Append(s, x))[k] = Append(s, x)[k - Len(q)]
      BY <1>1, <1>3, <2>2
    <3>3. CASE k = (Len(q) + Len(s)) + 1
      BY <1>1, <3>2, <3>3
    <3>4. CASE k # (Len(q) + Len(s)) + 1
      <4>1. k - Len(q) \in 1..Len(s) /\ k \in 1..(Len(q) + Len(s))
        BY <1>1, <3>1, <3>4
      <4>2. (q \o s)[k] = s[k - Len(q)]
        BY <1>1, <2>2, <4>1
      <4>. QED
        BY <1>1, <3>2, <4>1, <4>2
    <3>. QED
      BY <3>3, <3>4
  <2>. QED
    BY <2>1, <2>2
<1>5. PICK u, v : u = q \o Append(s, x) /\ v = Append(q \o s, x)
  OBVIOUS
<1>6. u \in Seq(X) /\ v \in Seq(X) /\ Len(u) = Len(v) /\ \A k \in 1..Len(u) : u[k] = v[k]
  BY <1>2, <1>3, <1>4, <1>5
<1>7. u = v
  BY <1>6
<1>. QED
  BY <1>1, <1>5, <1>7

\* The pieces of tt are those of ss but for one, that has one more element: no
\* piece after it has any.
LaterAt(ss, tt, j, x) ==
    /\ Len(tt) = Len(ss) /\ j \in 1..Len(ss) /\ tt[j] = Append(ss[j], x)
    /\ \A k \in 1..Len(ss) : k # j => tt[k] = ss[k]
    /\ \A k \in 1..Len(ss) : k > j => ss[k] = << >>

\* Then the element comes last.
LEMMA FlattenLater ==
    ASSUME NEW X, NEW ss \in Seq(Seq(X)), NEW tt \in Seq(Seq(X)), NEW j, NEW x \in X,
           LaterAt(ss, tt, j, x)
    PROVE  FlattenSeq(ss) \in Seq(X) /\ FlattenSeq(tt) = Append(FlattenSeq(ss), x)
<1>. SUFFICES ASSUME Len(tt) = Len(ss), j \in 1..Len(ss), tt[j] = Append(ss[j], x),
                     \A k \in 1..Len(ss) : k # j => tt[k] = ss[k],
                     \A k \in 1..Len(ss) : k > j => ss[k] = << >>
              PROVE  FlattenSeq(ss) \in Seq(X) /\ FlattenSeq(tt) = Append(FlattenSeq(ss), x)
  BY DEF LaterAt
<1>1. Len(ss) \in Nat /\ j \in Nat /\ j <= Len(ss) /\ j >= 1
  OBVIOUS
<1>2. FlattenSeq(ss) = FlattenSeq(SubSeq(ss, 1, j))
  BY FlattenTrailing
<1>3. FlattenSeq(tt) = FlattenSeq(SubSeq(tt, 1, j))
  <2>0. ASSUME NEW k \in 1..Len(ss), k > j
        PROVE  tt[k] = << >>
    <3>1. k # j
      BY <1>1, <2>0
    <3>. QED
      BY <2>0, <3>1
  <2>1. j \in 1..Len(tt) /\ \A k \in 1..Len(tt) : k > j => tt[k] = << >>
    BY <2>0
  <2>. QED
    BY <2>1, FlattenTrailing
<1>4. j - 1 \in 0..(Len(ss) - 1) /\ (j - 1) + 1 = j
  BY <1>1
<1>5. /\ SubSeq(ss, 1, j - 1) \in Seq(Seq(X)) /\ ss[j] \in Seq(X)
      /\ SubSeq(ss, 1, j) = Append(SubSeq(ss, 1, j - 1), ss[j])
  <2>1. /\ SubSeq(ss, 1, j - 1) \in Seq(Seq(X)) /\ ss[(j - 1) + 1] \in Seq(X)
        /\ SubSeq(ss, 1, (j - 1) + 1) = Append(SubSeq(ss, 1, j - 1), ss[(j - 1) + 1])
    BY <1>4, PrefixFacts
  <2>. QED
    BY <1>4, <2>1
<1>6. SubSeq(tt, 1, j) = Append(SubSeq(tt, 1, j - 1), tt[j]) /\ tt[j] \in Seq(X)
  <2>1. /\ tt[(j - 1) + 1] \in Seq(X)
        /\ SubSeq(tt, 1, (j - 1) + 1) = Append(SubSeq(tt, 1, j - 1), tt[(j - 1) + 1])
    BY <1>4, PrefixFacts
  <2>. QED
    BY <1>4, <2>1
<1>7. SubSeq(tt, 1, j - 1) = SubSeq(ss, 1, j - 1)
  <2>0. \A k \in 1..(j - 1) : k \in 1..Len(ss) /\ k # j
    BY ONLY <1>1
  <2>1. \A k \in 1..(j - 1) : tt[k] = ss[k]
    BY ONLY <2>0, \A k \in 1..Len(ss) : k # j => tt[k] = ss[k]
  <2>2. /\ SubSeq(tt, 1, j - 1) = [k \in 1..(j - 1) |-> tt[1 + k - 1]]
        /\ SubSeq(ss, 1, j - 1) = [k \in 1..(j - 1) |-> ss[1 + k - 1]]
    <3>1. (1 + (j - 1)) - 1 = j - 1
      BY <1>1
    <3>. QED
      BY <1>1
  <2>3. \A k \in 1..(j - 1) : 1 + k - 1 = k
    BY <1>1
  <2>. QED
    BY <2>1, <2>2, <2>3
<1>8. PICK p, s : p = SubSeq(ss, 1, j - 1) /\ s = ss[j]
  OBVIOUS
<1>9. /\ FlattenSeq(p) \in Seq(X) /\ FlattenSeq(Append(p, s)) = FlattenSeq(p) \o s
      /\ FlattenSeq(Append(p, Append(s, x))) = FlattenSeq(p) \o Append(s, x)
  <2>1. p \in Seq(Seq(X)) /\ s \in Seq(X) /\ Append(s, x) \in Seq(X)
    BY <1>5, <1>8
  <2>. QED
    BY <2>1, FlattenAppend
<1>10. PICK q : q = FlattenSeq(p)
  OBVIOUS
<1>11. q \o Append(s, x) = Append(q \o s, x) /\ q \o s \in Seq(X)
  <2>1. q \in Seq(X) /\ s \in Seq(X)
    BY <1>5, <1>8, <1>9, <1>10
  <2>2. q \o s \in Seq(X) /\ q \o Append(s, x) = Append(q \o s, x)
    BY ONLY <2>1, x \in X, ConcatAppend
  <2>. QED
    BY <2>2
<1>12. /\ FlattenSeq(ss) = q \o s
       /\ FlattenSeq(tt) = q \o Append(s, x)
  BY <1>2, <1>3, <1>5, <1>6, <1>7, <1>8, <1>9, <1>10
<1>. QED
  BY <1>11, <1>12

\* The elements of a concatenation.
LEMMA ConcatSet ==
    ASSUME NEW X, NEW q \in Seq(X), NEW s \in Seq(X)
    PROVE  \A e : e \in ToSet(q \o s) <=> e \in ToSet(q) \/ e \in ToSet(s)
<1>2. /\ Len(q) \in Nat /\ Len(s) \in Nat /\ Len(q \o s) = Len(q) + Len(s)
      /\ DOMAIN (q \o s) = 1..(Len(q) + Len(s)) /\ DOMAIN q = 1..Len(q) /\ DOMAIN s = 1..Len(s)
      /\ \A k \in 1..Len(q) : (q \o s)[k] = q[k]
      /\ \A k \in 1..Len(s) : (q \o s)[Len(q) + k] = s[k]
  OBVIOUS
<1>3. ASSUME NEW k \in 1..(Len(q) + Len(s))
      PROVE  k \in 1..Len(q) \/ (k - Len(q) \in 1..Len(s) /\ Len(q) + (k - Len(q)) = k)
  BY <1>2
<1>4. /\ \A k \in 1..Len(q) : k \in 1..(Len(q) + Len(s))
      /\ \A k \in 1..Len(s) : Len(q) + k \in 1..(Len(q) + Len(s))
  BY <1>2
<1>5. ASSUME NEW e, e \in ToSet(q \o s)
      PROVE  e \in ToSet(q) \/ e \in ToSet(s)
  <2>1. PICK k \in 1..(Len(q) + Len(s)) : e = (q \o s)[k]
    BY <1>2, <1>5 DEF ToSet
  <2>. QED
    BY <1>2, <1>3, <2>1 DEF ToSet
<1>6. ASSUME NEW e, e \in ToSet(q) \/ e \in ToSet(s)
      PROVE  e \in ToSet(q \o s)
  <2>1. CASE e \in ToSet(q)
    <3>1. PICK k \in 1..Len(q) : e = q[k]
      BY <1>2, <2>1 DEF ToSet
    <3>. QED
      BY <1>2, <1>4, <3>1 DEF ToSet
  <2>2. CASE e \in ToSet(s)
    <3>1. PICK k \in 1..Len(s) : e = s[k]
      BY <1>2, <2>2 DEF ToSet
    <3>. QED
      BY <1>2, <1>4, <3>1 DEF ToSet
  <2>. QED
    BY <1>6, <2>1, <2>2
<1>. QED
  BY <1>5, <1>6

\* The elements of the whole are those of the pieces.
LEMMA FlattenMembers ==
    ASSUME NEW X, NEW ss \in Seq(Seq(X))
    PROVE  \A e : e \in ToSet(FlattenSeq(ss)) <=> \E k \in 1..Len(ss) : e \in ToSet(ss[k])
<1>. DEFINE Prefix(m) == FlattenSeq(SubSeq(ss, 1, m))
            Part(e, m) == \E k \in 1..m : e \in ToSet(ss[k])
            S == {m \in Nat : m <= Len(ss) => \A e : e \in ToSet(Prefix(m)) <=> Part(e, m)}
<1>1. 0 \in S
  <2>1. SubSeq(ss, 1, 0) = << >> /\ FlattenSeq(<< >>) = << >> /\ 1..0 = {}
    BY DEF FlattenSeq
  <2>2. ToSet(<< >>) = {}
    BY DEF ToSet
  <2>. QED
    BY <2>1, <2>2
<1>2. ASSUME NEW m \in Nat, m \in S
      PROVE  m + 1 \in S
  <2>1. SUFFICES ASSUME m + 1 <= Len(ss)
                 PROVE  \A e : e \in ToSet(Prefix(m + 1)) <=> Part(e, m + 1)
    OBVIOUS
  <2>2. m \in 0..(Len(ss) - 1)
    BY <2>1
  <2>3. PICK p, s : p = SubSeq(ss, 1, m) /\ s = ss[m + 1]
    OBVIOUS
  <2>4. p \in Seq(Seq(X)) /\ s \in Seq(X) /\ SubSeq(ss, 1, m + 1) = Append(p, s)
    BY <2>2, <2>3, PrefixFacts
  <2>5. FlattenSeq(p) \in Seq(X) /\ Prefix(m + 1) = FlattenSeq(p) \o s
    BY <2>4, FlattenAppend
  <2>6. PICK q : q = FlattenSeq(p)
    OBVIOUS
  <2>7. \A e : e \in ToSet(q \o s) <=> e \in ToSet(q) \/ e \in ToSet(s)
    BY <2>4, <2>5, <2>6, ConcatSet
  <2>8. \A e : Part(e, m + 1) <=> Part(e, m) \/ e \in ToSet(ss[m + 1])
    <3>1. \A k : k \in 1..(m + 1) <=> k \in 1..m \/ k = m + 1
      OBVIOUS
    <3>. QED
      BY <3>1
  <2>9. \A e : e \in ToSet(Prefix(m)) <=> Part(e, m)
    BY <1>2, <2>1
  <2>. QED
    BY <2>3, <2>5, <2>6, <2>7, <2>8, <2>9
<1>. HIDE DEF S
<1>3. Nat \subseteq S
  BY <1>1, <1>2, SetInduction
<1>4. Len(ss) \in Nat /\ SubSeq(ss, 1, Len(ss)) = ss
  BY PrefixFacts
<1>5. \A e : e \in ToSet(Prefix(Len(ss))) <=> Part(e, Len(ss))
  BY <1>3, <1>4 DEF S
<1>6. Prefix(Len(ss)) = FlattenSeq(ss)
  BY <1>4
<1>7. \A e : e \in ToSet(FlattenSeq(ss)) <=> Part(e, Len(ss))
  BY <1>5, <1>6
<1>. QED
  BY ONLY <1>7
=============================================================================
