---------------------------- MODULE Preprocessor ----------------------------
(***************************************************************************)
(* The preprocessor's context (preprocessor.cpp): a vector of variables,   *)
(* which instructions in ?[...] add to, remove from and test, and which    *)
(* are replaced in the other lines.                                        *)
(*                                                                         *)
(* A line is a record of its kind and of the words in it that matter: the  *)
(* operands of an instruction, the path of an import, the identifiers of a *)
(* line of code.  A word is one occurrence that `find` can match.          *)
(***************************************************************************)
EXTENDS Sequences, Integers, SequencesExt

Instructions == {"if", "endif", "define", "undefine", "warning", "error"}

IsInstruction(line) == line.kind \in Instructions

Variable(name, value) == [name |-> name, value |-> value]

NoValue == ""

\* get_word: a target triplet is cut at its dashes.
TripletWord(triplet, p) == IF p \in DOMAIN triplet THEN triplet[p] ELSE NoValue

\* setup_preprocessor: the variables there are before any instruction.
DefaultVariables(triplet) ==
    <<Variable("OS", TripletWord(triplet, 3)), Variable("ARCH", TripletWord(triplet, 1)),
      Variable("VENDOR", TripletWord(triplet, 2))>>

Defined(vars, name) == \E i \in DOMAIN vars : vars[i].name = name

\* The first variable of that name.
ValueOf(vars, name) ==
    IF Defined(vars, name)
    THEN vars[CHOOSE i \in DOMAIN vars :
                 vars[i].name = name /\ \A j \in 1 .. i - 1 : vars[j].name # name].value
    ELSE NoValue

AddVariable(vars, name, value) == Append(vars, Variable(name, value))

\* erase() moves the next variable to index i and the loop goes on with i + 1:
\* a variable right after one that was removed is not looked at.
RemoveVariable(vars, name) ==
    LET removed[i \in DOMAIN vars] ==
            vars[i].name = name /\ (i = 1 \/ ~removed[i - 1])
    IN  FoldLeftDomain(LAMBDA kept, i : IF removed[i] THEN kept ELSE Append(kept, vars[i]),
                       << >>, vars)

\* The replacements are made variable after variable.
ReplaceWord(vars, word) ==
    FoldLeft(LAMBDA w, v : IF w = v.name THEN v.value ELSE w, word, vars)

ReplaceVariables(vars, words) == [i \in DOMAIN words |-> ReplaceWord(vars, words[i])]

\* The search goes on where the value was put: if the value holds the name it
\* finds it again, for ever.
ReplaceEnds(vars, words) ==
    \A i \in DOMAIN words, v \in DOMAIN vars :
        vars[v].name = vars[v].value =>
            ReplaceWord(SubSeq(vars, 1, v - 1), words[i]) # vars[v].name

\* Mistake: the second comparison is not looked at.
ConditionHolds_firstOnly(vars, words) ==
    ~Defined(vars, words[1]) \/ ValueOf(vars, words[1]) = words[2]

\* preprocess_if: `l == r`, or two comparisons with `or` in between.  When the
\* first variable is unknown a message is printed, and nothing is skipped.
ConditionHolds(vars, words) ==
    \/ ~Defined(vars, words[1])
    \/ ValueOf(vars, words[1]) = words[2]
    \/ Len(words) = 4 /\ ValueOf(vars, words[3]) = words[4]

\* Mistake: the word after the name is not read.
VariablesAfter_noValue(vars, line) ==
    CASE line.kind = "define" -> AddVariable(vars, line.words[1], line.words[1])
      [] line.kind = "undefine" -> RemoveVariable(vars, line.words[1])
      [] OTHER -> vars

\* What an instruction does to the variables.
VariablesAfter(vars, line) ==
    CASE line.kind = "define" -> AddVariable(vars, line.words[1], line.words[2])
      [] line.kind = "undefine" -> RemoveVariable(vars, line.words[1])
      [] OTHER -> vars

StartsSkipping(vars, line) == line.kind = "if" /\ ~ConditionHolds(vars, line.words)
============================================================================
