------------------------------- MODULE Lexer -------------------------------
(***************************************************************************)
(* The lexer of C. (lexer.cpp), and HandleComment of main.cpp, which moves  *)
(* it over the lines: how the characters of a file become tokens.          *)
(*                                                                         *)
(* A line is a sequence of characters; the file has no newline at its end, *)
(* as imports.cpp writes it.  An action is one turn of a loop of gettok:   *)
(* at most one character is read.  gettok keeps a character of lookahead,  *)
(* LastChar, and reading the last character of a line moves to the next    *)
(* line, so that nothing is left of the end of a line.                     *)
(*                                                                         *)
(* The caller asks for tokens until the file has been read again from the  *)
(* start of its last line, where the parser has stopped.                   *)
(***************************************************************************)
EXTENDS Integers, Sequences, SequencesExt, FiniteSetsExt

CONSTANTS
    Sources,        \* the files read
    ImportWord,     \* the characters that stand for the word import
    MaxText,        \* bound: how many characters of a token are kept
    MaxTokens       \* bound: how many tokens are kept

VARIABLES
    source,
    at,             \* where the next character is: [line, pos], pos from 0
    last_line,      \* getline has failed
    line_nb,        \* Comp_context->lexloc
    LastChar,
    mode,           \* the loop of gettok it is in; "idle" between two calls
    text,           \* IdentifierStr, NumStr, strStatic, charStatic
    curloc,         \* Comp_context->curloc
    tokens,         \* what the caller has got: [kind, text, line]
    caller,         \* "parser", or in HandleComment "pass" and "skip"
    errors_found,
    again           \* a character was read after the last one

vars == <<source, at, last_line, line_nb, LastChar, mode, text, curloc, tokens, caller,
          errors_found, again>>

-----------------------------------------------------------------------------
(* Characters.                                                             *)

Letters == {"a", "x"}
Digits == {"0", "1"}
Quote == "\""
Space == {" ", "\t", "\n"}
WordChar == Letters \union Digits \union {"_"}
Paired == {"|", "=", ">", "<", "&"}

Blank(l) == ToSet(l) \subseteq Space

\* There is a line to begin with: init_line skips what is empty.
SourcesAssumption ==
    /\ \A s \in Sources :
          /\ s \in Seq(Seq(STRING)) /\ s # << >>
          /\ s[1] # << >> \/ \E k \in 2..Len(s) : ~Blank(s[k])
    /\ MaxText \in Nat \ {0, 1}
ASSUME SourcesWellFormed == SourcesAssumption

Added(t, c) == IF Len(t) = MaxText THEN t ELSE Append(t, c)

-----------------------------------------------------------------------------
(* Lines.                                                                  *)

Here == source[at.line]
Later(k) == {j \in (k + 1)..Len(source) : ~Blank(source[j])}

\* goToNextLine: blank lines are passed; at the end getline leaves its string.
LineAfter(k) == IF Later(k) = {} THEN k ELSE Min(Later(k))

\* Mistake: the blank lines that are passed are not counted.
CountAfter_once(k, nb) == IF last_line THEN nb ELSE nb + 1

\* lexloc.line_nb; bound: the last line is counted once however often it is read.
CountAfter(k, nb) == IF last_line THEN nb ELSE IF Later(k) = {} THEN nb + 1 ELSE nb + (Min(Later(k)) - k)

\* After blank lines that end the file the string is blank for ever.
EndsBlank == Later(at.line) = {} /\ at.line < Len(source)

goToNextLine ==
    /\ at' = [line |-> LineAfter(at.line), pos |-> 0]
    /\ line_nb' = CountAfter(at.line, line_nb)
    /\ last_line' = (last_line \/ Later(at.line) = {})
    /\ again' = (again \/ last_line)

\* peekCharLine
peekCharLine(place) ==
    IF place.pos < Len(source[place.line]) THEN source[place.line][place.pos + 1] ELSE "\\0"

\* getCharLine, the last character of a line, an escape, or any other.
EndOfLine == at.pos + 1 = Len(Here)
Escape == ~EndOfLine /\ Here[at.pos + 1] = "\\"
EscapeLetters == {"n", "t", "0"}
KnownEscape == Escape /\ Here[at.pos + 2] \in EscapeLetters

\* The character that a known escape stands for.
Escaped(c) == CASE c = "n" -> "\n" [] c = "t" -> "\t" [] c = "0" -> "\\0"

NextChar == IF KnownEscape THEN Escaped(Here[at.pos + 2]) ELSE Here[at.pos + 1]

\* Mistake: an escape does not move on, like an unknown one.
Step_stays == IF Escape THEN 0 ELSE 1

Step == IF KnownEscape THEN 2 ELSE IF Escape THEN 0 ELSE 1

\* Mistake: the position in the line is not reset.
Place_keepsPos ==
    IF EndOfLine THEN [at EXCEPT !.line = LineAfter(@)] ELSE [at EXCEPT !.pos = @ + Step]

Place ==
    IF EndOfLine THEN [line |-> LineAfter(at.line), pos |-> 0] ELSE [at EXCEPT !.pos = @ + Step]

\* Past the characters of a line, after an escape, the memory behind is read;
\* on blank lines at the end of the file goToNextLine calls itself for ever.
CanRead == at.pos < Len(Here) /\ ~(EndOfLine /\ EndsBlank)

getCharLine ==
    /\ CanRead
    /\ LastChar' = NextChar
    /\ at' = Place
    /\ line_nb' = IF EndOfLine THEN CountAfter(at.line, line_nb) ELSE line_nb
    /\ last_line' = (last_line \/ (EndOfLine /\ Later(at.line) = {}))
    /\ again' = (again \/ last_line)

-----------------------------------------------------------------------------
(* gettok.                                                                 *)

Same == UNCHANGED <<source, curloc, tokens, caller, errors_found>>

\* getNextToken has returned: in HandleComment the token is dropped.
Return(kind, t) ==
    /\ mode' = "idle"
    /\ text' = t
    /\ IF caller = "pass" THEN caller' = "skip" /\ UNCHANGED tokens
       ELSE /\ caller' = IF kind = "comment" THEN "pass" ELSE "parser"
            /\ tokens' = IF kind = "comment" \/ Len(tokens) = MaxTokens THEN tokens
                         ELSE Append(tokens, [kind |-> kind, text |-> t, line |-> curloc])
    /\ UNCHANGED <<source, curloc, errors_found>>

\* The parser asks, until it has been told of the end; HandleComment asks for
\* the token after the comment and then, on the next line, for the one there.
Ask ==
    /\ mode = "idle" /\ caller \in {"parser", "pass"}
    /\ ~again
    /\ mode' = IF LastChar \in Space THEN "space" ELSE "begin"
    /\ UNCHANGED <<source, at, last_line, line_nb, LastChar, text, curloc, tokens, caller,
                   errors_found, again>>

\* HandleComment: go_to_next_line, and the first token there.
SkipLine ==
    /\ mode = "idle" /\ caller = "skip"
    /\ ~EndsBlank
    /\ goToNextLine
    /\ caller' = "parser"
    /\ mode' = IF LastChar \in Space THEN "space" ELSE "begin"
    /\ UNCHANGED <<source, LastChar, text, curloc, tokens, errors_found>>

SkipSpace ==
    /\ mode = "space"
    /\ getCharLine
    /\ mode' = IF NextChar \in Space THEN "space" ELSE "begin"
    /\ UNCHANGED text /\ Same

Begin ==
    /\ mode = "begin"
    /\ curloc' = line_nb
    /\ mode' = CASE LastChar \in Letters \union {"_"} -> "word"
                 [] LastChar = "0" -> "zero"
                 [] LastChar \in Digits \ {"0"} -> "number"
                 [] LastChar = Quote -> "string first"
                 [] LastChar = "'" -> "char"
                 [] LastChar = "." -> "dots"
                 [] OTHER -> "symbol"
    /\ text' = IF LastChar \in Letters \union {"_", "."} THEN <<LastChar>> ELSE << >>
    /\ UNCHANGED <<source, at, last_line, line_nb, LastChar, tokens, caller, errors_found, again>>

Word ==
    /\ mode = "word"
    /\ getCharLine
    /\ IF NextChar \in WordChar
       THEN text' = Added(text, NextChar) /\ UNCHANGED mode /\ Same
       ELSE IF text = ImportWord
       THEN mode' = "import" /\ UNCHANGED text /\ Same
       ELSE Return("word", text)

\* The rest of the line of an import is not read.
Import ==
    /\ mode = "import"
    /\ ~EndsBlank
    /\ goToNextLine
    /\ mode' = IF LastChar \in Space THEN "space" ELSE "begin"
    /\ UNCHANGED <<LastChar, text>> /\ Same

Digit(c) == c \in Digits \union {".", "_"}
AddedDigit(t, c) == IF c = "_" THEN t ELSE Added(t, c)

Zero ==
    /\ mode = "zero"
    /\ getCharLine
    /\ IF NextChar = "x" THEN mode' = "hex" /\ text' = <<"0", "x">> /\ Same
       ELSE IF Digit(NextChar) THEN mode' = "zero and one" /\ text' = AddedDigit(<<"0">>, NextChar) /\ Same
       ELSE Return("number", <<"0">>)

ZeroAndOne ==
    /\ mode = "zero and one"
    /\ getCharLine
    /\ IF Digit(NextChar) THEN mode' = "number" /\ UNCHANGED text /\ Same
       ELSE Return("number", text)

Hex ==
    /\ mode = "hex"
    /\ getCharLine
    /\ IF NextChar \in Digits \union {"a"}
       THEN text' = Added(text, NextChar) /\ UNCHANGED mode /\ Same
       ELSE Return("number", text)

\* A point goes on with a number when a digit follows.
GoesOn(c, peeked) == c \in Digits \/ c = "_" \/ (c = "." /\ peeked \in Digits)

Number ==
    /\ mode = "number"
    /\ getCharLine
    /\ IF GoesOn(NextChar, peekCharLine(Place))
       THEN text' = AddedDigit(text, LastChar) /\ UNCHANGED mode /\ Same
       ELSE Return("number", AddedDigit(text, LastChar))

\* The first character of a string is not compared.
StringFirst ==
    /\ mode = "string first"
    /\ getCharLine
    /\ mode' = "string" /\ text' = <<NextChar>> /\ Same

String ==
    /\ mode = "string"
    /\ getCharLine
    /\ IF NextChar # Quote THEN text' = Added(text, NextChar) /\ UNCHANGED mode
       ELSE mode' = "string end" /\ UNCHANGED text
    /\ Same

StringEnd == mode = "string end" /\ getCharLine /\ Return("string", text)

Char ==
    /\ mode = "char"
    /\ getCharLine
    /\ mode' = "char end" /\ text' = <<NextChar>> /\ Same

CharEnd ==
    /\ mode = "char end"
    /\ getCharLine
    /\ mode' = "char after" /\ UNCHANGED text
    /\ errors_found' = (errors_found \/ NextChar # "'")
    /\ UNCHANGED <<source, curloc, tokens, caller>>

CharAfter == mode = "char after" /\ getCharLine /\ Return("char", text)

\* Neither one point nor three: an error, and the next character is a token.
Dots ==
    /\ mode = "dots"
    /\ getCharLine
    /\ IF NextChar = "." THEN text' = Added(text, ".") /\ UNCHANGED mode /\ Same
       ELSE IF Len(text) \in {1, 3} THEN Return("dots", text)
       ELSE /\ mode' = "symbol" /\ UNCHANGED text
            /\ errors_found' = TRUE
            /\ UNCHANGED <<source, curloc, tokens, caller>>

\* An operator of two characters leaves its second one to the next token.
Symbol ==
    /\ mode = "symbol"
    /\ getCharLine
    /\ IF LastChar = "/" /\ NextChar = "/" THEN Return("comment", << >>)
       ELSE IF NextChar \in Paired THEN Return("pair", <<LastChar, NextChar>>)
       ELSE Return("symbol", <<LastChar>>)

-----------------------------------------------------------------------------
FirstLine == IF source[1] = << >> THEN Min(Later(1)) ELSE 1

\* init_line reads the first line when the first character is asked for.
Init ==
    /\ source \in Sources
    /\ at = [line |-> FirstLine, pos |-> 0]
    /\ last_line = FALSE
    /\ line_nb = FirstLine
    /\ LastChar = " " /\ mode = "idle" /\ text = << >> /\ curloc = 1
    /\ tokens = << >> /\ caller = "parser"
    /\ errors_found = FALSE /\ again = FALSE

gettok ==
    \/ SkipSpace \/ Begin \/ Word \/ Import \/ Zero \/ ZeroAndOne \/ Hex \/ Number
    \/ StringFirst \/ String \/ StringEnd \/ Char \/ CharEnd \/ CharAfter \/ Dots \/ Symbol

\* The parser has the tokens of the file, or the lexer reads where it must not.
Finished == mode = "idle" /\ caller # "skip" /\ again
Crashed ==
    \/ mode \notin {"idle", "begin", "import"} /\ ~CanRead
    \/ (mode = "import" \/ (mode = "idle" /\ caller = "skip")) /\ EndsBlank
Ended == (Finished \/ Crashed) /\ UNCHANGED vars

Next == Ask \/ SkipLine \/ gettok \/ Ended

Spec == Init /\ [][Next]_vars

\* The compiler runs until it has its tokens.
FairSpec == Spec /\ WF_vars(Ask \/ SkipLine \/ gettok)
=============================================================================
