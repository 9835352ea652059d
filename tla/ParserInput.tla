----------------------------- MODULE ParserInput -----------------------------
(***************************************************************************)
(* What the parser of C. (ast.cpp) reads and makes: the tokens of a file,  *)
(* the state that its functions share, and the trees they return.          *)
(*                                                                         *)
(* A token is the text it was lexed from.  An operator of two characters   *)
(* is followed by the token of its second character, which the lexer reads *)
(* again.  Comments are left to the module Lexer.                          *)
(***************************************************************************)
EXTENDS Integers, Sequences, SequencesExt, FiniteSets, FiniteSetsExt, TLC

CONSTANTS
    Files,          \* records with the tokens of a file and where its lines start
    Identifiers,
    TypeSizes,      \* the types before any typedef, and their sizes in bytes
    GcMode,         \* Comp_context: whether main starts with a call of gc_init
    EnvVariables,   \* the trees of the strings that name a variable of the environment
    MaxLaps,        \* how often the last line is read again before that counts as for ever
    NoName

VARIABLES file, s

Numbers == {"0", "1", "2", "3"}
Strings == {"\"s\"", "\"auto_reorder\""}
Chars == {"'c'"}

Keywords ==
    {"func", "extern", "if", "then", "else", "for", "in", "return", "binary", "unary", "var",
     "struct", "class", "addr", "deref", "sizeof", "ptr", "while", "loop", "goto", "label",
     "match", "members", "type", "break", "typeId", "null", "cast", "union", "enum", "mod",
     "true", "false", "defer", "never", "Vector"}

\* installPrecendenceOperators
Precedences ==
    [op \in {"="} |-> 5] @@ [op \in {"||"} |-> 10] @@ [op \in {"&&"} |-> 11] @@
    [op \in {"|"} |-> 12] @@ [op \in {"^"} |-> 13] @@ [op \in {"&"} |-> 14] @@
    [op \in {"!=", "=="} |-> 15] @@ [op \in {"<", "<=", ">", ">="} |-> 16] @@
    [op \in {"<<", ">>"} |-> 20] @@ [op \in {"+", "-"} |-> 25] @@
    [op \in {"*", "%", "/"} |-> 30] @@ [op \in {"[", ".", "(", "~"} |-> 35]

\* The lexer makes one token of any character and one of | = > < & after it.
MultiChar == {"||", "&&", "!=", "==", "<=", ">=", "<<", ">>", "=>"}
Symbols == {"=", "|", "^", "&", "<", ">", "+", "-", "*", "%", "/", "[", ".", "(", "~",
            ")", "]", "{", "}", ",", ":", ";", "#", "!"}

\* Mistake: the operators of two characters are not in the table.
TokPrecedence_oneCharacter(t) == IF t \in DOMAIN Precedences \ MultiChar THEN Precedences[t] ELSE -1

\* GetTokPrecedence and getTokPrecedenceMultiChar: what is not in the table binds nothing.
TokPrecedence(t) == IF t \in DOMAIN Precedences THEN Precedences[t] ELSE -1

-----------------------------------------------------------------------------
(* The state of the parser: the position of CurTok and how often the end    *)
(* was passed; what was lexed last of each kind (IdentifierStr, NumVal,     *)
(* strStatic, OpStringMultiChar); errors_found; the names declared so far;  *)
(* TypeTemplateCallAst and struct_parsing_template_name; the flags          *)
(* is_template_parsing_struct, _enum and _definition; and how it goes on.   *)

Start ==
    [at |-> 0, laps |-> 0, id |-> NoName, num |-> NoName, str |-> NoName, op |-> NoName,
     errors |-> FALSE, structs |-> {}, enums |-> {}, types |-> DOMAIN TypeSizes, vars |-> {},
     templateStructs |-> {}, templateEnums |-> {}, template |-> NoName,
     structTemplate |-> NoName, flags |-> {}, how |-> "parsing"]

\* Past the end the lexer starts again with the line it has, the last one.
getNextToken(p) ==
    LET passes == p.at = Len(file.toks)
        at == IF passes THEN Max(file.starts) ELSE p.at + 1
        laps == IF passes THEN p.laps + 1 ELSE p.laps
        t == file.toks[at]
        lexed(kind, old) == IF t \in kind THEN t ELSE old
    IN  [p EXCEPT !.at = at, !.laps = laps,
                  !.id = lexed(Identifiers \cup Keywords, @), !.num = lexed(Numbers, @),
                  !.str = lexed(Strings, @), !.op = lexed(MultiChar, @),
                  !.how = IF laps > MaxLaps THEN "hung" ELSE @]

CurTok(p) == file.toks[p.at]

\* Mistake: the end is seen only by a parser that stops right there.
last_line_justRead(p) == p.at = Len(file.toks)

\* The last character of the file has been read, so getline has failed.  (When
\* the last token is one character, the lookahead of the token before it has
\* read that one already: it tells the two apart for a semicolon at the end only.)
last_line(p) == p.laps > 0 \/ p.at = Len(file.toks)

LogError(p) == [p EXCEPT !.errors = TRUE]
Crash(p) == [p EXCEPT !.how = "crashed"]

-----------------------------------------------------------------------------
(* Trees                                                                   *)

Tree(node, name, kids) == [node |-> node, name |-> name, kids |-> kids]
Leaf(node, name) == Tree(node, name, << >>)

NullTree == Leaf("nothing", NoName)
NoType == Leaf("no type", NoName)       \* Cpoint_Type(), which is_empty

\* What a function of the parser gives back: a null pointer is not ok.
Returned(tree, p) == [ok |-> tree # NullTree, tree |-> tree, s |-> p]
ReturnedNull(p) == Returned(NullTree, p)

\* ExprAST::contains_expr, for Return and Unreachable.
RECURSIVE contains_expr(_, _)
contains_expr(E, what) ==
    LET AnyOf(kids) == \E i \in DOMAIN kids : contains_expr(kids[i], what)
    IN  CASE E.node = "return" -> what = "return"
          [] E.node = "unreachable" -> what = "unreachable"       \* the macro
          [] E.node = "call" -> what = "unreachable" /\ E.name = "cpoint_internal_unreachable"
          [] E.node = "match" -> \A i \in 2 .. Len(E.kids) : contains_expr(Last(E.kids[i].kids), what)
          [] E.node = "if" ->
                 Len(E.kids) = 3 /\ contains_expr(E.kids[2], what) /\ contains_expr(E.kids[3], what)
          [] E.node \in {"for", "while"} -> contains_expr(Last(E.kids), what)
          [] E.node = "loop" -> what # "return" /\ AnyOf(E.kids)
          [] E.node \in {"scope", "closure", "loop in"} -> AnyOf(E.kids)
          [] OTHER -> FALSE

\* A for or a case of a match has a null body, and contains_expr gets to it: it
\* does not ask what comes after an answer that settles the matter.
RECURSIVE AsksNullBody(_, _)
AsksNullBody(E, what) ==
    LET Asks(body) == body = NullTree \/ AsksNullBody(body, what)
        OneOf(kids) == \E i \in DOMAIN kids :
            AsksNullBody(kids[i], what) /\ \A j \in 1 .. i - 1 : ~contains_expr(kids[j], what)
    IN  CASE E.node \in {"for", "while"} -> Asks(Last(E.kids))
          [] E.node = "match" -> \E i \in 2 .. Len(E.kids) : Asks(Last(E.kids[i].kids))
          [] E.node = "if" ->
                 /\ Len(E.kids) = 3 /\ E.kids[3] # NullTree
                 /\ \/ AsksNullBody(E.kids[2], what)
                    \/ contains_expr(E.kids[2], what) /\ AsksNullBody(E.kids[3], what)
          [] E.node = "loop" -> what # "return" /\ OneOf(E.kids)
          [] E.node \in {"scope", "closure", "loop in"} -> OneOf(E.kids)
          [] OTHER -> FALSE
============================================================================
