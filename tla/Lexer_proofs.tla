---------------------------- MODULE Lexer_proofs ----------------------------
(***************************************************************************)
(* For every file, those that cannot be lexed included: the lexer is on a  *)
(* character of the file or at the end of a line, what it keeps of a token *)
(* is bounded, and the line it counts is the line it reads.                *)
(***************************************************************************)
EXTENDS LexerProperties, WellFoundedInduction, SequenceTheorems, TLAPS

\* Where the lexer is.
PlaceInvariant ==
    /\ source \in Sources
    /\ at \in [line : 1..Len(source), pos : Nat]
    /\ at.pos <= Len(Here)
    /\ last_line \in BOOLEAN /\ again \in BOOLEAN
    /\ again => last_line
    /\ last_line => at.line = Len(source)
    /\ LineIsCounted

\* What may be kept of a token.
IsText(t) == (\E S : t \in Seq(S)) /\ Len(t) <= MaxText

Modes == {"idle", "space", "begin", "word", "import", "zero", "zero and one", "hex", "number",
          "string first", "string", "string end", "char", "char end", "char after", "dots", "symbol"}

LexerInvariant ==
    /\ PlaceInvariant
    /\ IsText(text)
    /\ mode \in Modes
    /\ caller \in {"parser", "pass", "skip"}
    /\ curloc \in 1..line_nb
    /\ errors_found \in BOOLEAN

-----------------------------------------------------------------------------
(* Lines.                                                                  *)

LEMMA SourceLemma ==
    ASSUME NEW s \in Sources
    PROVE  /\ s \in Seq(Seq(STRING)) /\ Len(s) \in Nat \ {0} /\ DOMAIN s = 1..Len(s)
           /\ \A k \in 1..Len(s) : s[k] \in Seq(STRING) /\ Len(s[k]) \in Nat
<1>1. s \in Seq(Seq(STRING)) /\ s # << >>
  BY SourcesWellFormed DEF SourcesAssumption
<1>. QED
  BY <1>1

LEMMA MinOfNumbers ==
    ASSUME NEW S, S \subseteq Nat, S # {}
    PROVE  Min(S) \in S
<1>1. PICK x \in S : \A y \in S : <<y, x>> \notin OpToRel(<, Nat)
  BY NatLessThanWellFounded, WFMin, Zenon
<1>2. \A y \in S : ~(y < x)
  BY <1>1, Zenon DEF OpToRel
<1>3. \E z \in S : \A y \in S : z <= y
  BY <1>2
<1>. QED
  BY <1>3 DEF Min

\* The line after line k, if there is one with something on it.
LEMMA LaterLemma ==
    ASSUME source \in Sources, NEW k \in 1..Len(source)
    PROVE  Later(k) # {} => Min(Later(k)) \in (k + 1)..Len(source)
<1>1. Len(source) \in Nat /\ k \in Nat
  BY SourceLemma
<1>2. Later(k) \subseteq (k + 1)..Len(source) /\ Later(k) \subseteq Nat
  BY <1>1 DEF Later
<1>3. CASE Later(k) # {}
  <2>1. Min(Later(k)) \in Later(k)
    BY <1>2, <1>3, MinOfNumbers
  <2>. QED
    BY <1>2, <2>1
<1>. QED
  BY <1>3

\* Past the end of a line: the place, and the count.
LEMMA LineEndLemma ==
    ASSUME PlaceInvariant, ~EndsBlank, UNCHANGED source,
           at' = [line |-> LineAfter(at.line), pos |-> 0],
           line_nb' = CountAfter(at.line, line_nb),
           last_line' = (last_line \/ Later(at.line) = {}),
           again' = (again \/ last_line)
    PROVE  PlaceInvariant' /\ line_nb \in Nat \ {0} /\ line_nb' \in Nat /\ line_nb <= line_nb'
<1>1. /\ source \in Sources /\ Len(source) \in Nat \ {0} /\ at.line \in 1..Len(source) /\ at.line \in Nat \ {0}
      /\ \A k \in 1..Len(source) : Len(source[k]) \in Nat
  BY SourceLemma DEF PlaceInvariant
<1>2. last_line => Later(at.line) = {}
  BY <1>1 DEF Later, PlaceInvariant
<1>3. CASE Later(at.line) = {}
  <2>1. at.line = Len(source)
    BY <1>1, <1>3 DEF EndsBlank
  <2>2. at'.line = at.line /\ at'.pos = 0 /\ at' \in [line : 1..Len(source), pos : Nat] /\ last_line'
    BY <1>1, <1>3 DEF LineAfter
  <2>3. line_nb' = at.line + 1 /\ line_nb \in {at.line, at.line + 1}
    BY <1>1, <1>3 DEF CountAfter, PlaceInvariant, LineIsCounted
  <2>. QED
    BY <1>1, <1>3, <2>1, <2>2, <2>3 DEF PlaceInvariant, LineIsCounted, Here
<1>4. CASE Later(at.line) # {}
  <2>. DEFINE next == Min(Later(at.line))
  <2>1. next \in (at.line + 1)..Len(source)
    BY <1>1, <1>4, LaterLemma
  <2>. HIDE DEF next
  <2>2. ~last_line /\ ~last_line' /\ ~again /\ ~again' /\ line_nb = at.line
    BY <1>2, <1>4 DEF PlaceInvariant, LineIsCounted
  <2>3. at' = [line |-> next, pos |-> 0] /\ line_nb' = line_nb + (next - at.line)
    BY <1>4, <2>2 DEF LineAfter, CountAfter, next
  <2>4. next \in 1..Len(source) /\ line_nb' = next
    BY <1>1, <2>1, <2>2, <2>3
  <2>5. Here' = source[next]
    BY <2>3 DEF Here
  <2>. QED
    BY <1>1, <2>1, <2>2, <2>3, <2>4, <2>5 DEF PlaceInvariant, LineIsCounted
<1>. QED
  BY <1>3, <1>4

LEMMA NextLineLemma ==
    ASSUME PlaceInvariant, goToNextLine, ~EndsBlank, UNCHANGED source
    PROVE  PlaceInvariant' /\ line_nb \in Nat \ {0} /\ line_nb' \in Nat /\ line_nb <= line_nb'
BY LineEndLemma DEF goToNextLine

\* A character is read: the place stays in the file.
LEMMA CharLemma ==
    ASSUME PlaceInvariant, getCharLine, UNCHANGED source
    PROVE  /\ PlaceInvariant' /\ line_nb \in Nat \ {0} /\ line_nb' \in Nat /\ line_nb <= line_nb'
<1>1. /\ source \in Sources /\ Len(source) \in Nat \ {0} /\ at.line \in 1..Len(source) /\ at.pos \in Nat
      /\ at = [line |-> at.line, pos |-> at.pos]
  BY SourceLemma DEF PlaceInvariant
<1>2. Here \in Seq(STRING) /\ Len(Here) \in Nat
  BY <1>1, SourceLemma DEF Here
<1>3. at.pos < Len(Here)
  BY DEF getCharLine, CanRead
<1>5. CASE EndOfLine
  <2>1. /\ ~EndsBlank
        /\ at' = [line |-> LineAfter(at.line), pos |-> 0]
        /\ line_nb' = CountAfter(at.line, line_nb)
        /\ last_line' = (last_line \/ Later(at.line) = {})
        /\ again' = (again \/ last_line)
    BY <1>5 DEF getCharLine, CanRead, Place
  <2>. QED
    BY <2>1, LineEndLemma
<1>6. CASE ~EndOfLine
  <2>1. at.pos + 2 <= Len(Here)
    BY <1>1, <1>2, <1>3, <1>6 DEF EndOfLine
  <2>2. Step \in {0, 1, 2}
    BY DEF Step
  <2>3. at' = [line |-> at.line, pos |-> at.pos + Step]
    BY <1>1, <1>6 DEF getCharLine, Place
  <2>4. at' \in [line : 1..Len(source), pos : Nat] /\ at'.line = at.line /\ at'.pos <= Len(Here) /\ Here' = Here
    BY <1>1, <1>2, <2>1, <2>2, <2>3 DEF Here
  <2>5. /\ line_nb' = line_nb /\ again' = (again \/ last_line)
        /\ (last_line' <=> last_line) /\ last_line' \in BOOLEAN
    BY <1>6 DEF getCharLine, PlaceInvariant
  <2>6. line_nb \in Nat \ {0}
    BY <1>1 DEF PlaceInvariant, LineIsCounted
  <2>. QED
    BY <1>1, <2>4, <2>5, <2>6 DEF PlaceInvariant, LineIsCounted
<1>. QED
  BY <1>5, <1>6

-----------------------------------------------------------------------------
(* Tokens.                                                                 *)

\* The beginnings of tokens, and what a character more makes of one.
LEMMA OneMore ==
    ASSUME NEW S, NEW t \in Seq(S), NEW c
    PROVE  (\E T : Append(t, c) \in Seq(T)) /\ Len(Append(t, c)) = Len(t) + 1
<1>. DEFINE T == S \union {c}
<1>1. t \in Seq(T) /\ c \in T
  BY SeqMonotonic
<1>. HIDE DEF T
<1>2. Append(t, c) \in Seq(T) /\ Len(Append(t, c)) = Len(t) + 1
  BY <1>1, AppendProperties
<1>. QED
  BY <1>2

LEMMA TextLemma ==
    /\ IsText(<< >>)
    /\ \A c : IsText(<<c>>)
    /\ \A c, d : IsText(<<c, d>>)
    /\ \A t, c : IsText(t) => IsText(Added(t, c)) /\ IsText(AddedDigit(t, c))
<1>1. MaxText \in Nat \ {0, 1}
  BY SourcesWellFormed DEF SourcesAssumption
<1>2. IsText(<< >>)
  BY <1>1 DEF IsText
<1>3. ASSUME NEW c PROVE IsText(<<c>>)
  <2>. DEFINE t == <<c>>
  <2>1. t \in Seq({c}) /\ Len(t) = 1
    OBVIOUS
  <2>. HIDE DEF t
  <2>2. IsText(t)
    BY <1>1, <2>1 DEF IsText
  <2>. QED
    BY <2>2 DEF t
<1>4. ASSUME NEW c, NEW d PROVE IsText(<<c, d>>)
  <2>. DEFINE t == <<c, d>>
  <2>1. t \in Seq({c, d}) /\ Len(t) = 2
    OBVIOUS
  <2>. HIDE DEF t
  <2>2. IsText(t)
    BY <1>1, <2>1 DEF IsText
  <2>. QED
    BY <2>2 DEF t
<1>5. ASSUME NEW t, NEW c, IsText(t)
      PROVE  IsText(Added(t, c))
  <2>1. PICK S : t \in Seq(S)
    BY <1>5 DEF IsText
  <2>2. Len(t) \in Nat /\ Len(t) <= MaxText
    BY <1>5, <2>1 DEF IsText
  <2>3. CASE Len(t) = MaxText
    BY <1>5, <2>3 DEF Added
  <2>4. CASE Len(t) # MaxText
    <3>1. (\E T : Append(t, c) \in Seq(T)) /\ Len(Append(t, c)) = Len(t) + 1
      BY <2>1, OneMore
    <3>2. Len(t) + 1 <= MaxText
      BY <1>1, <2>2, <2>4
    <3>. QED
      BY <2>4, <3>1, <3>2 DEF Added, IsText
  <2>. QED
    BY <2>3, <2>4
<1>. QED
  BY <1>2, <1>3, <1>4, <1>5 DEF AddedDigit

\* A call that returns.
LEMMA ReturnLemma ==
    ASSUME NEW kind, NEW t, IsText(t), Return(kind, t), caller \in {"parser", "pass", "skip"}
    PROVE  /\ mode' = "idle" /\ IsText(text')
           /\ caller' \in {"parser", "pass", "skip"}
           /\ UNCHANGED <<source, curloc, errors_found>>
BY DEF Return

\* A turn of a loop that reads a character keeps the rest.
LEMMA TurnLemma ==
    ASSUME LexerInvariant, getCharLine, UNCHANGED source,
           IsText(text'), mode' \in Modes, caller' \in {"parser", "pass", "skip"},
           curloc' = curloc, errors_found' \in BOOLEAN
    PROVE  LexerInvariant'
<1>1. /\ PlaceInvariant' /\ line_nb \in Nat \ {0} /\ line_nb' \in Nat /\ line_nb <= line_nb'
  BY CharLemma DEF LexerInvariant
<1>2. curloc' \in 1..line_nb'
  BY <1>1 DEF LexerInvariant
<1>. QED
  BY <1>1, <1>2 DEF LexerInvariant

\* What a turn that reads does with the character.
LEMMA ReadingLemma ==
    ASSUME LexerInvariant,
           SkipSpace \/ Word \/ Zero \/ ZeroAndOne \/ Hex \/ Number \/ StringFirst \/ String \/ StringEnd
             \/ Char \/ CharEnd \/ CharAfter \/ Dots \/ Symbol
    PROVE  LexerInvariant'
<1>1. /\ IsText(text) /\ mode \in Modes /\ caller \in {"parser", "pass", "skip"}
      /\ errors_found \in BOOLEAN
  BY DEF LexerInvariant
<1>2. getCharLine
  BY DEF SkipSpace, Word, Zero, ZeroAndOne, Hex, Number, StringFirst, String, StringEnd,
         Char, CharEnd, CharAfter, Dots, Symbol
<1>3. source' = source
  BY DEF SkipSpace, Word, Zero, ZeroAndOne, Hex, Number, StringFirst, String, StringEnd,
         Char, CharEnd, CharAfter, Dots, Symbol, Same, Return
<1>5. ASSUME NEW kind, NEW t, IsText(t), Return(kind, t)
      PROVE  LexerInvariant'
  <2>1. /\ mode' \in Modes /\ IsText(text') /\ caller' \in {"parser", "pass", "skip"}
        /\ curloc' = curloc /\ errors_found' \in BOOLEAN
    BY <1>1, <1>5, ReturnLemma DEF Modes
  <2>. QED
    BY <1>2, <1>3, <2>1, TurnLemma
<1>6. ASSUME IsText(text'), mode' \in Modes, caller' = caller, curloc' = curloc, errors_found' \in BOOLEAN
      PROVE  LexerInvariant'
  BY <1>1, <1>2, <1>3, <1>6, TurnLemma
<1>7. CASE SkipSpace
  BY <1>1, <1>6, <1>7 DEF SkipSpace, Same, Modes
<1>8. CASE Word
  <2>1. \/ Return("word", text)
        \/ /\ text' \in {text, Added(text, NextChar)} /\ mode' \in {mode, "import"} /\ Same
    BY <1>8 DEF Word
  <2>. QED
    BY <1>1, <1>5, <1>6, <2>1, TextLemma DEF Same, Modes
<1>9. CASE Zero
  <2>1. \/ Return("number", <<"0">>)
        \/ /\ text' \in {<<"0", "x">>, AddedDigit(<<"0">>, NextChar)} /\ mode' \in {"hex", "zero and one"} /\ Same
    BY <1>9 DEF Zero
  <2>2. IsText(<<"0">>) /\ IsText(<<"0", "x">>)
    BY TextLemma
  <2>. QED
    BY <1>1, <1>5, <1>6, <2>1, <2>2, TextLemma DEF Same, Modes
<1>10. CASE ZeroAndOne
  <2>1. Return("number", text) \/ (text' = text /\ mode' = "number" /\ Same)
    BY <1>10 DEF ZeroAndOne
  <2>. QED
    BY <1>1, <1>5, <1>6, <2>1 DEF Same, Modes
<1>11. CASE Hex
  <2>1. Return("number", text) \/ (text' = Added(text, NextChar) /\ mode' = mode /\ Same)
    BY <1>11 DEF Hex
  <2>. QED
    BY <1>1, <1>5, <1>6, <2>1, TextLemma DEF Same, Modes
<1>12. CASE Number
  <2>1. \/ Return("number", AddedDigit(text, LastChar))
        \/ text' = AddedDigit(text, LastChar) /\ mode' = mode /\ Same
    BY <1>12 DEF Number
  <2>2. IsText(AddedDigit(text, LastChar))
    BY <1>1, TextLemma
  <2>. QED
    BY <1>1, <1>5, <1>6, <2>1, <2>2 DEF Same, Modes
<1>13. CASE StringFirst \/ Char
  <2>1. text' = <<NextChar>> /\ mode' \in {"string", "char end"} /\ Same
    BY <1>13 DEF StringFirst, Char
  <2>. QED
    BY <1>1, <1>6, <2>1, TextLemma DEF Same, Modes
<1>14. CASE String
  <2>1. text' \in {text, Added(text, NextChar)} /\ mode' \in {mode, "string end"} /\ Same
    BY <1>14 DEF String
  <2>. QED
    BY <1>1, <1>6, <2>1, TextLemma DEF Same, Modes
<1>15. CASE StringEnd \/ CharAfter
  <2>1. Return("string", text) \/ Return("char", text)
    BY <1>15 DEF StringEnd, CharAfter
  <2>. QED
    BY <1>1, <1>5, <2>1
<1>16. CASE CharEnd
  <2>1. text' = text /\ mode' = "char after" /\ caller' = caller /\ curloc' = curloc /\ errors_found' \in BOOLEAN
    BY <1>1, <1>16 DEF CharEnd
  <2>. QED
    BY <1>1, <1>6, <2>1 DEF Modes
<1>17. CASE Dots
  <2>1. \/ Return("dots", text)
        \/ text' = Added(text, ".") /\ mode' = mode /\ Same
        \/ /\ text' = text /\ mode' = "symbol" /\ errors_found' \in BOOLEAN
           /\ caller' = caller /\ curloc' = curloc
    BY <1>17 DEF Dots
  <2>2. IsText(Added(text, "."))
    BY <1>1, TextLemma
  <2>. QED
    BY <1>1, <1>5, <1>6, <2>1, <2>2 DEF Same, Modes
<1>18. CASE Symbol
  <2>1. Return("comment", << >>) \/ Return("pair", <<LastChar, NextChar>>) \/ Return("symbol", <<LastChar>>)
    BY <1>18 DEF Symbol
  <2>2. IsText(<< >>) /\ IsText(<<LastChar, NextChar>>) /\ IsText(<<LastChar>>)
    BY TextLemma
  <2>. QED
    BY <1>5, <2>1, <2>2
<1>. QED
  BY <1>7, <1>8, <1>9, <1>10, <1>11, <1>12, <1>13, <1>14, <1>15, <1>16, <1>17, <1>18

\* A line that is left without being read: after a comment, and after an import.
LEMMA SkippingLemma ==
    ASSUME LexerInvariant, SkipLine \/ Import
    PROVE  LexerInvariant'
<1>1. /\ goToNextLine /\ ~EndsBlank /\ UNCHANGED <<source, text, curloc, errors_found>>
      /\ mode' \in {"space", "begin"} /\ caller' \in {"parser", caller}
  BY DEF SkipLine, Import, Same
<1>2. PlaceInvariant' /\ line_nb \in Nat \ {0} /\ line_nb' \in Nat /\ line_nb <= line_nb'
  BY <1>1, NextLineLemma DEF LexerInvariant
<1>3. curloc' \in 1..line_nb'
  BY <1>1, <1>2 DEF LexerInvariant
<1>4. mode' \in Modes /\ caller' \in {"parser", "pass", "skip"}
  BY <1>1 DEF LexerInvariant, Modes
<1>. QED
  BY <1>1, <1>2, <1>3, <1>4 DEF LexerInvariant, IsText

\* What is done between two characters.
LEMMA BetweenLemma ==
    ASSUME LexerInvariant, Ask \/ Begin \/ UNCHANGED vars
    PROVE  LexerInvariant'
<1>1. /\ UNCHANGED <<source, at, last_line, line_nb, again, errors_found, caller>>
      /\ mode' \in Modes /\ IsText(text') /\ curloc' \in {curloc, line_nb}
  <2>1. CASE Ask
    BY <2>1 DEF Ask, LexerInvariant, Modes
  <2>2. CASE Begin
    <3>1. text' \in {<<LastChar>>, << >>}
      BY <2>2 DEF Begin
    <3>2. IsText(text')
      BY <3>1, TextLemma
    <3>3. mode' \in Modes
      BY <2>2 DEF Begin, Modes
    <3>. QED
      BY <2>2, <3>2, <3>3 DEF Begin
  <2>3. CASE UNCHANGED vars
    BY <2>3 DEF vars, LexerInvariant, Modes
  <2>. QED
    BY <2>1, <2>2, <2>3
<1>2. PlaceInvariant'
  BY <1>1 DEF LexerInvariant, PlaceInvariant, LineIsCounted, Here
<1>3. line_nb \in Nat \ {0}
  <2>1. at.line \in Nat \ {0}
    BY SourceLemma DEF LexerInvariant, PlaceInvariant
  <2>. QED
    BY <2>1 DEF LexerInvariant, PlaceInvariant, LineIsCounted
<1>4. curloc' \in 1..line_nb'
  BY <1>1, <1>3 DEF LexerInvariant
<1>. QED
  BY <1>1, <1>2, <1>4 DEF LexerInvariant

\* The first character is asked for on a line that has one.
LEMMA InitLemma ==
    Init => LexerInvariant
<1>. SUFFICES ASSUME Init
              PROVE  LexerInvariant
  OBVIOUS
<1>1. /\ source \in Sources /\ Len(source) \in Nat \ {0}
      /\ \A k \in 1..Len(source) : Len(source[k]) \in Nat
  BY SourceLemma DEF Init
<1>2. FirstLine \in 1..Len(source)
  <2>1. CASE source[1] = << >>
    <3>1. PICK k \in 2..Len(source) : ~Blank(source[k])
      BY <1>1, <2>1, SourcesWellFormed DEF SourcesAssumption
    <3>2. k \in Later(1)
      BY <3>1 DEF Later
    <3>3. Min(Later(1)) \in (1 + 1)..Len(source)
      BY <1>1, <3>2, LaterLemma
    <3>. QED
      BY <1>1, <2>1, <3>3 DEF FirstLine
  <2>2. CASE source[1] # << >>
    BY <1>1, <2>2 DEF FirstLine
  <2>. QED
    BY <2>1, <2>2
<1>. DEFINE first == FirstLine
<1>3. at = [line |-> first, pos |-> 0] /\ line_nb = first /\ last_line = FALSE /\ again = FALSE
  BY DEF Init
<1>4. first \in 1..Len(source)
  BY <1>2
<1>. HIDE DEF first
<1>5. PlaceInvariant
  <2>1. at.line = first /\ at.pos = 0 /\ at \in [line : 1..Len(source), pos : Nat]
    BY <1>3, <1>4
  <2>2. 0 <= Len(Here)
    BY <1>1, <1>4, <2>1 DEF Here
  <2>. QED
    BY <1>1, <1>3, <2>1, <2>2 DEF PlaceInvariant, LineIsCounted
<1>6. curloc \in 1..line_nb
  <2>1. curloc = 1
    BY DEF Init
  <2>. QED
    BY <1>1, <1>3, <1>4, <2>1
<1>7. IsText(text)
  BY TextLemma DEF Init
<1>. QED
  BY <1>5, <1>6, <1>7 DEF Init, LexerInvariant, Modes

-----------------------------------------------------------------------------
\* The invariant holds in every file, whatever its characters.
THEOREM LexerInvariance == Spec => []LexerInvariant
<1>1. LexerInvariant /\ [Next]_vars => LexerInvariant'
  <2>. SUFFICES ASSUME LexerInvariant, [Next]_vars
                PROVE  LexerInvariant'
    OBVIOUS
  <2>1. \/ SkipSpace \/ Word \/ Zero \/ ZeroAndOne \/ Hex \/ Number \/ StringFirst \/ String \/ StringEnd
        \/ Char \/ CharEnd \/ CharAfter \/ Dots \/ Symbol
        \/ SkipLine \/ Import
        \/ Ask \/ Begin \/ UNCHANGED vars
    BY DEF Next, gettok, Ended
  <2>. QED
    BY <2>1, ReadingLemma, SkippingLemma, BetweenLemma
<1>. QED
  BY <1>1, InitLemma, PTL DEF Spec

\* The place of the next character is in the file and what is kept of a token
\* is bounded, also where gettok reads past a line and stops.
THEOREM LexerTypesCorrect == Spec => []TypeOK
<1>1. LexerInvariant => TypeOK
  <2>. SUFFICES ASSUME LexerInvariant
                PROVE  TypeOK
    OBVIOUS
  <2>1. /\ DOMAIN source = 1..Len(source) /\ Len(source) \in Nat \ {0}
        /\ \A k \in 1..Len(source) : Len(source[k]) \in Nat
        /\ at.line \in 1..Len(source) /\ at.pos \in Nat /\ at.pos <= Len(Here)
    BY SourceLemma DEF LexerInvariant, PlaceInvariant
  <2>2. Len(Here) \in Nat /\ at.pos \in 0..Len(Here)
    BY <2>1 DEF Here
  <2>3. line_nb \in 1..(Len(source) + 1)
    BY <2>1 DEF LexerInvariant, PlaceInvariant, LineIsCounted
  <2>. QED
    BY <2>1, <2>2, <2>3 DEF LexerInvariant, PlaceInvariant, TypeOK, Modes, IsText
<1>. QED
  BY <1>1, LexerInvariance, PTL

\* The line that errors and tokens are given is the line that is read, through
\* blank lines, comments and imports.
THEOREM LinesAlwaysCounted == Spec => []LineIsCounted
<1>1. LexerInvariant => LineIsCounted
  BY DEF LexerInvariant, PlaceInvariant
<1>. QED
  BY <1>1, LexerInvariance, PTL
=============================================================================
