-------------------------- MODULE LexerProperties --------------------------
(***************************************************************************)
(* What the lexer must do: the caller gets the tokens that are written,    *)
(* each with its line, and every call returns.                             *)
(***************************************************************************)
EXTENDS Lexer

\* The values of the variables; the place of the next character is in the file.
TypeOK ==
    /\ at.line \in DOMAIN source /\ at.pos \in 0..Len(Here)
    /\ last_line \in BOOLEAN /\ again \in BOOLEAN /\ errors_found \in BOOLEAN
    /\ again => last_line
    /\ line_nb \in 1..(Len(source) + 1) /\ curloc \in 1..line_nb
    /\ mode \in {"idle", "space", "begin", "word", "import", "zero", "zero and one", "hex", "number",
                 "string first", "string", "string end", "char", "char end", "char after",
                 "dots", "symbol"}
    /\ Len(text) <= MaxText
    /\ caller \in {"parser", "pass", "skip"}

\* The line that errors and debug information name is the one that is read,
\* whatever blank lines, comments and imports were passed without being read;
\* after the last one it is one more.
LineIsCounted == line_nb = IF last_line THEN at.line + 1 ELSE at.line

-----------------------------------------------------------------------------
(* The tokens of a line, by the longest match.                             *)

\* The end of the run of characters from p on that are in S.
RunEnd(l, p, S) == Max({q \in p..Len(l) : \A r \in p..q : l[r] \in S})

InNumber(l, r) ==
    l[r] \in Digits \union {"_"} \/ (l[r] = "." /\ r < Len(l) /\ l[r + 1] \in Digits)
NumberEnd(l, p) ==
    IF p < Len(l) /\ l[p] = "0" /\ l[p + 1] = "x"
    THEN Max({p + 1} \union {q \in (p + 2)..Len(l) : \A r \in (p + 2)..q : l[r] \in Digits \union {"a"}})
    ELSE Max({q \in p..Len(l) : \A r \in p..q : InNumber(l, r)})

StringEndAt(l, p) == Min({q \in (p + 2)..Len(l) : l[q] = Quote})

\* A backslash and the letter after it are one character.
Meant(letter) == CASE letter = "n" -> "\n" [] letter = "t" -> "\t" [] letter = "0" -> "\\0"
Unescaped(t) ==
    LET f[k \in 0..Len(t)] ==
            IF k = 0 THEN << >>
            ELSE IF k > 1 /\ t[k - 1] = "\\" THEN Append(Front(f[k - 1]), Meant(t[k]))
            ELSE Append(f[k - 1], t[k])
    IN  f[Len(t)]

Plain == {"/", "=", "(", "}", "|", ">"}
Token(kind, t, nb) == [kind |-> kind, text |-> t, line |-> nb]

\* A token whose first character is the last of its line is said to be on the
\* line after it.
LineTokens(l, nb, after) ==
    LET Loc(p) == IF p = Len(l) THEN after ELSE nb
        T[p \in 1..(Len(l) + 1)] ==
            IF p > Len(l) THEN << >>
            ELSE LET Kind(kind, q, t) == <<Token(kind, t, Loc(p))>> \o T[q + 1]
                 IN  CASE l[p] \in Space -> T[p + 1]
                       [] l[p] \in Letters \union {"_"} ->
                            LET q == RunEnd(l, p, WordChar)
                            IN  IF SubSeq(l, p, q) = ImportWord THEN << >>
                                ELSE Kind("word", q, SubSeq(l, p, q))
                       [] l[p] \in Digits ->
                            LET q == NumberEnd(l, p)
                            IN  Kind("number", q, SelectSeq(SubSeq(l, p, q), LAMBDA c : c # "_"))
                       [] l[p] = Quote ->
                            LET q == StringEndAt(l, p)
                            IN  Kind("string", q, Unescaped(SubSeq(l, p + 1, q - 1)))
                       [] l[p] = "'" -> Kind("char", IF l[p + 1] = "\\" THEN p + 3 ELSE p + 2, Unescaped(SubSeq(l, p + 1, IF l[p + 1] = "\\" THEN p + 2 ELSE p + 1)))
                       [] l[p] = "." -> LET q == RunEnd(l, p, {"."}) IN Kind("dots", q, SubSeq(l, p, q))
                       [] l[p] = "/" /\ p < Len(l) /\ l[p + 1] = "/" -> << >>
                       [] p < Len(l) /\ l[p + 1] \in Paired -> Kind("pair", p, <<l[p], l[p + 1]>>)
                       [] OTHER -> Kind("symbol", p, <<l[p]>>)
    IN  T[1]

Written ==
    FlattenSeq([k \in DOMAIN source |->
        LineTokens(source[k], k, IF Later(k) = {} THEN k + 1 ELSE Min(Later(k)))])

-----------------------------------------------------------------------------
(* The files that are read as they are written.                            *)

\* Whatever stands before a place on the line: in a string, or in a comment.
Before(l, p, c) == Cardinality({q \in 1..(p - 1) : l[q] = c})
InString(l, p) == Before(l, p, Quote) % 2 = 1
CommentAt(l) == {p \in 1..(Len(l) - 1) : l[p] = "/" /\ l[p + 1] = "/" /\ ~InString(l, p)}

\* Strings and characters are closed on their line and not empty, escapes are
\* those the lexer knows, and a number does not end in the point of 0.
LineReadable(l) ==
    /\ ~InString(l, Len(l) + 1)
    /\ \A p \in DOMAIN l :
          /\ l[p] = Quote /\ ~InString(l, p) => l[p + 1] # Quote
          /\ l[p] = "\\" => p < Len(l) /\ l[p + 1] \in {"n", "t", "0"} /\
                (InString(l, p) \/ (p > 1 /\ l[p - 1] = "'" /\ Before(l, p, "'") % 2 = 1))
          /\ l[p] = "'" /\ ~InString(l, p) /\ Before(l, p, "'") % 2 = 0 =>
                LET q == IF p < Len(l) /\ l[p + 1] = "\\" THEN p + 3 ELSE p + 2
                IN  q <= Len(l) /\ l[q] = "'"
          /\ l[p] = "." /\ ~(p > 1 /\ l[p - 1] = ".") => RunEnd(l, p, {"."}) \in {p, p + 2}
          /\ l[p] = "0" =>
                \A q \in {p + 1, p + 2} \cap DOMAIN l : l[q] = "." => q < Len(l) /\ l[q + 1] \in Digits

\* A comment has a space after its slashes, and more.
CommentsReadable(l) == \A p \in CommentAt(l) : p + 3 <= Len(l) /\ l[p + 2] = " "

\* The last character of a line does not go on with the first of the next.
Apart(l, m) ==
    LET c == Last(l)
        d == m[1]
    IN  /\ ~(c \in WordChar /\ d \in WordChar)
        /\ ~(c \in Digits \union {"."} /\ d \in {".", "_"})
        /\ ~(c \in Plain /\ d \in Paired) /\ ~(c = "/" /\ d = "/")

Filled == {k \in DOMAIN source : ~Blank(source[k])}
Readable ==
    /\ ~Blank(Last(source))
    /\ CommentAt(Last(source)) = {}
    /\ \A k \in Filled :
          /\ LineReadable(source[k]) /\ CommentsReadable(source[k])
          /\ CommentAt(source[k]) = {} =>
                Apart(source[k], IF Later(k) = {} THEN source[k] ELSE source[Min(Later(k))])
          /\ IsPrefix(ImportWord, source[k]) =>
                k # Len(source) /\ Len(source[k]) > Len(ImportWord) + 1

-----------------------------------------------------------------------------
\* The caller gets the tokens as they are written, in order, none lost or made
\* up between the lines, with the lines they are on.
TokensAsWritten ==
    Readable => IsPrefix(tokens, Written) /\ (Finished => tokens = Written) /\ ~errors_found

\* Every call of getNextToken returns, and the lexer comes to the end.
CallsReturn == Readable => <>Finished
=============================================================================
