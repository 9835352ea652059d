------------------------------ MODULE MCLexer ------------------------------
(***************************************************************************)
(* Files for TLC to lex: a line of a few fragments between two others, so  *)
(* that every kind of token meets every other and the end of a line.       *)
(***************************************************************************)
EXTENDS LexerProperties

Words == {<<"a">>, <<"x", "_", "1">>, <<"_">>}
Numbers == {<<"0">>, <<"0", "1">>, <<"1", "_", "0", ".", "1">>, <<"1", ".", "a">>, <<"0", "x", "a", "1">>,
            <<"0", ".", "1">>, <<"0", ".", "a">>}
Strings == {<<Quote, "a", Quote>>, <<Quote, "a", "\\", "t", "\\", "0", Quote>>, <<Quote, "\\", "n", "/", "/", Quote>>, <<Quote, Quote>>, <<Quote, "a">>}
Chars == {<<"'", "a", "'">>, <<"'", "\\", "n", "'">>, <<"'", "\\", "0", "'">>, <<"'", "a">>}
Signs == {<<"(">>, <<"}">>, <<"=">>, <<"=", "=">>, <<"|", "|">>, <<".", ".", ".">>, <<".", ".">>, <<"/">>}
Comments == {<<"/", "/", " ", "a">>, <<"/", "/", "a">>, <<"/", "/">>, <<"/", "/", " ">>}
Odd == {<<"\\", "a">>, <<"\\", "t", "a">>, <<"1", "\\", "0">>, <<Quote, "\\", "n">>, <<"x", "x", "x", " ", "a">>}

Fragments == Words \union Numbers \union Strings \union Chars \union Signs \union Comments \union Odd

Gaps == {<< >>, <<" ">>}
Lines == {f \o g \o h : f \in Fragments, g \in Gaps, h \in Fragments \union {<< >>}}

Blanks == {<< >>, <<<< >>>>, <<<<" ", " ">>, << >>>>}
MCImportWord == <<"x", "x", "x">>
MCSources ==
    {b \o <<l, <<"}">>>> : b \in Blanks, l \in Lines}
    \union {<<f>> \o b \o <<g>> : f, g \in Fragments, b \in Blanks}
    \union {<<f>> \o b : f \in Words \union Signs, b \in Blanks}
=============================================================================
