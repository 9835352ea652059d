--------------------------- MODULE ParserProperties ---------------------------
(***************************************************************************)
(* What the parser makes of a file.  Besides its tokens a file has the     *)
(* trees that it means (ast), and what is wrong with it (damage): NoName,  *)
(* the bracket that was left out, or the token that is out of place.       *)
(***************************************************************************)
EXTENDS Parser

\* The position is in the file, the last line is read again at most MaxLaps
\* times, and each list of FileAST holds declarations of its kind, or the null
\* module that HandleMod keeps.
TypeOK ==
    /\ s.at \in 1 .. Len(file.toks) /\ s.laps \in 0 .. MaxLaps + 1
    /\ s.how \in {"parsing", "parsed", "crashed", "hung"}
    /\ \A kind \in Declarations : \A tree \in ToSet(fileAST[kind]) :
           tree.node = kind \/ (kind = "mod" /\ tree = NullTree)

\* A source without a mistake is parsed without an error into the trees that it
\* means: precedence and associativity (ast.cpp:511), the scopes of else if
\* (1944), the lookahead that tells a call, a constant and a path from a variable
\* (380), the order of reordered members (1404), and every declaration after a
\* template, whose null is no error (2345, 2391).
SourceIsParsed ==
    Parsed /\ file.damage = NoName => s.how = "parsed" /\ ~s.errors /\ fileAST = file.ast

\* A file with a declaration or a statement that is opened or closed once too few
\* is not compiled as if nothing were wrong: an error is reported, or the parser
\* never ends.  The brackets that only expressions have, and the '(' of
\* expressions, are not in it: a stray one is taken for a unary operator
\* (ast.cpp:1797), and a missing ']' of an index is not looked for (574).
Enclosing == {"{", "}", ")"}
MissingBracketIsReported ==
    Parsed /\ file.damage \in Enclosing => s.errors \/ s.how = "hung"

\* ParseFile ends for every file, with or without a mistake, but one that lacks a
\* '}', whose body goes on over the last line that the lexer reads again for ever
\* (lexer.cpp:45), and one with a macro, which an error before it can leave between
\* the declarations, where the loop does not move on (ast.cpp:2383).
ParseEnds ==
    file.damage # "}" /\ "#" \notin ToSet(file.toks) => <>(s.how \in {"parsed", "crashed"})
===============================================================================
