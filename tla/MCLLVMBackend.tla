--------------------------- MODULE MCLLVMBackend ---------------------------
(***************************************************************************)
(* CIR files for TLC to compile: every instruction in every form, the      *)
(* control flow that the CIR generator makes of ifs and loops, global      *)
(* data, and what the backend cannot do yet.                               *)
(***************************************************************************)
EXTENDS LLVMBackendProperties

Instr(op, ty, uses) ==
    [op |-> op, ty |-> ty, from |-> ty, uses |-> uses, x |-> "", pos |-> 0, bbs |-> << >>]
Naming(ins, x) == [ins EXCEPT !.x = x]
From(ins, ty) == [ins EXCEPT !.from = ty]
Going(ins, bbs) == [ins EXCEPT !.bbs = bbs]

Number == Naming(Instr("ConstNumber", "i32", << >>), "1")
True == Naming(Instr("ConstBool", "bool", << >>), "true")
Void == Instr("ConstVoid", "void", << >>)
Never == Instr("ConstNever", "never", << >>)
Arg(x) == Naming(Instr("InitArg", "ptr", << >>), x)
Var(x, uses) == Naming(Instr("VarInit", "i32", uses), x)
LoadAs(ty, u) == Instr("LoadVar", ty, <<u>>)
Load(u) == LoadAs("i32", u)
Store(u, v) == Instr("StoreVar", "void", <<u, v>>)
Call(x, ty, uses) == Naming(Instr("Call", ty, uses), x)
Return(u) == Instr("Return", "never", <<u>>)
Goto(b) == Going(Instr("Goto", "never", << >>), <<b>>)
GotoIf(u, b, c) == Going(Instr("GotoIf", "never", <<u>>), <<b, c>>)
Text(k) == [Instr("LoadString", "ptr", << >>) EXCEPT !.pos = k]
LoadGlobal(x) == Naming(Instr("LoadGlobal", "i32", << >>), x)
StoreGlobal(x, u) == Naming(Instr("StoreGlobal", "void", <<u>>), x)

-----------------------------------------------------------------------------
(* Files.                                                                  *)

Protos(args, ret) ==
    [x \in {"f", "main", "panicx", "big", "print"} |->
        CASE x = "f" -> [args |-> args, ret |-> ret, variadic |-> FALSE]
          [] x = "main" -> [args |-> << >>, ret |-> "i32", variadic |-> FALSE]
          [] x = "panicx" -> [args |-> << >>, ret |-> "never", variadic |-> FALSE]
          [] x = "big" -> [args |-> << >>, ret |-> "large", variadic |-> FALSE]
          [] x = "print" -> [args |-> <<<<"text", "ptr">>>>, ret |-> "void", variadic |-> TRUE]]

Small == [x |-> "point", members |-> <<<<"a", "i32">>, <<"b", "i32">>>>]
Large == [x |-> "large", members |-> <<<<"a", "i64">>, <<"b", "i64">>>>]

Main == [x |-> "main", blocks |-> <<<<Number, Return(0)>>>>]

File(args, ret, blocks) ==
    [strings |-> <<"hello", "world">>, init |-> <<Naming(Number, "7")>>,
     globals |-> {[x |-> "g", ty |-> "i32", extern |-> FALSE, init |-> 0],
                  [x |-> "h", ty |-> "i32", extern |-> FALSE, init |-> -1]},
     structs |-> {Small, Large}, protos |-> Protos(args, ret),
     functions |-> <<[x |-> "f", blocks |-> blocks], Main>>]

XY(ty) == <<<<"x", ty>>, <<"y", ty>>>>
LoadXYAs(ty) == <<Arg("x"), Arg("y"), LoadAs(ty, 0), LoadAs(ty, 1)>>
LoadXY == LoadXYAs("i32")
Computing(ty, ret, ins) == File(XY(ty), ret, <<LoadXYAs(ty) \o <<ins, Return(4)>>>>)
Doing(ins) == File(XY("i32"), "void", <<LoadXY \o <<ins, Void, Return(5)>>>>)

-----------------------------------------------------------------------------
(* One instruction.                                                        *)

NumberTypes == {"i8", "u8", "i32", "i64", "u64", "float", "double"}

ArithmeticFiles ==
    {Computing(ty, ty, Instr(op, ty, <<2, 3>>)) : op \in Arithmetic, ty \in {"i32", "u64", "double"}}
CompareFiles ==
    {Computing(ty, "bool", From(Instr(op, "bool", <<2, 3>>), ty)) : op \in Compare, ty \in {"i32", "float"}}
    \union {Computing("u64", "bool", From(Instr(op, "bool", <<2, 3>>), "u64")) : op \in {"Eq", "NotEq"}}
CastFiles ==
    {Computing(from, to, From(Instr("Cast", to, <<2>>), from)) :
        from, to \in NumberTypes \union {"bool", "ptr"}}
    \union {Computing("i32", "void", From(Instr("Cast", "void", <<2>>), "i32"))}

\* Values of every kind are returned, loaded, called with, stored and printed.
OtherFiles ==
    {Computing("i32", ins.ty, ins) :
        ins \in {Naming(Instr("Sizeof", "i32", << >>), "large"), Instr("Sizeof", "i32", <<2>>),
                 Instr("Deref", "i32", <<0>>), Instr("GepArray", "ptr", <<0, 2>>),
                 Naming(From(Instr("GepStruct", "ptr", <<0>>), "point"), "a"),
                 Instr("ConstNull", "ptr", << >>), True, Text(0), Text(1),
                 LoadGlobal("g"), Call("f", "i32", <<3, 2>>)}}
    \union {Doing(ins) :
               ins \in {Store(0, 3), StoreGlobal("h", 2), Call("f", "void", <<2, 2>>), Var("x", <<3>>),
                        Call("panicx", "void", << >>), Call("big", "large", << >>)}}
    \union {File(XY("i32"), "void", <<LoadXY \o <<Text(0), Call("print", "void", uses), Void, Return(6)>>>>) :
               uses \in {<<4>>, <<4, 2, 3>>}}

\* What LLVM refuses: arguments that are missing, too many or of another type, a
\* result of another type, a condition that is no bool, a pointer as a number,
\* the step 1 of a for over a float, a value that the other branch computes.
IllTypedFiles ==
    {Computing("i32", "i32", ins) :
        ins \in {Call("f", "i32", << >>), Call("f", "i32", <<2>>), Call("f", "i32", <<2, 3, 2>>),
                 Call("f", "i32", <<0, 2>>), True, Text(0), Instr("Add", "i32", <<0, 2>>)}}
    \union {Doing(Call("print", "void", << >>)), Doing(Call("print", "void", <<2>>)),
            File(XY("float"), "float", <<LoadXYAs("float") \o
                <<Naming(Instr("ConstNumber", "float", << >>), "1"), Instr("Add", "float", <<2, 4>>), Return(5)>>>>),
            File(XY("i32"), "i32", <<LoadXY \o <<GotoIf(2, 2, 2)>>, <<Return(2)>>>>),
            File(XY("bool"), "bool", <<LoadXYAs("bool") \o <<GotoIf(2, 2, 3)>>, <<LoadAs("bool", 0), Return(5)>>, <<Return(5)>>>>)}

-----------------------------------------------------------------------------
(* Control flow.                                                           *)

\* if c { v } else { w }, whose branches declare a variable, call or leave.
Branch(first) == {<<Number>>, <<Var("t", <<2>>), Load(first)>>, <<Call("f", "i32", <<1>>), Load(0)>>}
IfFile(then, else) ==
    LET t == 5 + Len(then)
        e == t + 1 + Len(else)
    IN  File(<<<<"x", "i32">>>>, "i32",
             <<<<Arg("x"), Load(0), Number, From(Instr("Greater", "bool", <<1, 2>>), "i32"), GotoIf(3, 2, 3)>>,
               Append(then, Goto(4)), Append(else, Goto(4)),
               <<Going(Instr("Phi", "i32", <<t - 1, e - 1>>), <<2, 3>>), Return(e + 1)>>>>)
IfFiles == {IfFile(t, <<Number>>) : t \in Branch(5)} \union {IfFile(<<Number>>, e) : e \in Branch(7)}

\* while c { body }: the block after the loop is laid out after or before the body.
LoopFile(body, afterLast) ==
    LET entry == <<Var("x", << >>), Goto(2)>>
        cond == <<Load(0), From(Instr("Eq", "bool", <<2, 2>>), "i32"), GotoIf(3, 3, 4)>>
        cond2 == <<Load(0), From(Instr("Eq", "bool", <<2, 2>>), "i32"), GotoIf(3, 4, 3)>>
        after(p) == <<Load(0), Return(p)>>
    IN  File(<< >>, "i32",
             IF afterLast
             THEN <<entry, cond, Append(body, Goto(2)), after(5 + Len(body) + 1)>>
             ELSE <<entry, cond2, after(5), Append(body, Goto(2))>>)
LoopBodies(p) ==
    {<<Number, Var("t", <<p>>), Store(0, p)>>, <<Number, Var("t", << >>), Store(p + 1, p)>>,
     <<Text(1), Call("print", "void", <<p>>)>>, << >>}
LoopFiles == {LoopFile(b, TRUE) : b \in LoopBodies(5)} \union {LoopFile(b, FALSE) : b \in LoopBodies(7)}

NeverFiles ==
    {File(XY("i32"), "i32", <<<<Arg("x"), Arg("y"), Call("panicx", "never", << >>)>>>>),
     File(XY("i32"), "never", <<<<Arg("x"), Arg("y"), Never>>>>),
     File(XY("bool"), "bool", <<<<Arg("x"), LoadAs("bool", 0), GotoIf(1, 2, 3)>>, <<Call("panicx", "never", << >>)>>,
                                <<LoadAs("bool", 0), Return(4)>>>>)}

-----------------------------------------------------------------------------
(* Global data, and what is refused.                                       *)

Plainly == File(XY("i32"), "i32", <<LoadXY \o <<Return(2)>>>>)
Global(ty, extern, init) == [x |-> "k", ty |-> ty, extern |-> extern, init |-> init]

GlobalFiles ==
    {[Plainly EXCEPT !.globals = @ \union {Global(ty, e, k)}, !.init = @ \o <<True, Text(0), Naming(From([Number EXCEPT !.ty = "double"], "double"), "0")>>] :
        ty \in {"i32", "u8", "double", "bool", "ptr", "numptr", "point"}, e \in BOOLEAN, k \in {-1, 0, 1, 2, 3}}

Nested == [x |-> "nested", members |-> <<<<"p", "point">>>>]
Empty == [x |-> "empty", members |-> << >>]
Floats == [x |-> "floats", members |-> <<<<"a", "float">>, <<"b", "float">>>>]
Pointer == [x |-> "pointer", members |-> <<<<"a", "ptr">>>>]
StructFiles ==
    {[Plainly EXCEPT !.structs = @ \union {s}] : s \in {Nested, Empty, Floats, Pointer}}
    \union {[File(<<<<"x", s.x>>>>, "i32", <<<<Arg("x"), LoadAs(s.x, 0), Call("f", "i32", <<1>>), Return(2)>>>>)
                EXCEPT !.structs = @ \union {s}] : s \in {Small, Large, Empty, Floats, Pointer}}

\* Functions that return a large struct, in their last block or before.
SretFiles ==
    {File(<< >>, "large", <<<<Call("big", "large", << >>), Return(0)>>>>),
     File(<< >>, "large", <<<<Goto(2)>>, <<Call("big", "large", << >>), Text(0), Return(1)>>>>),
     File(<< >>, "large", <<<<True, GotoIf(0, 2, 3)>>, <<Call("big", "large", << >>), Return(2)>>,
                            <<Call("big", "large", << >>), Return(4)>>>>)}

RefusedFiles ==
    {Computing("i32", "i32", ins) :
        ins \in {Instr("InlineAsm", "void", << >>), Instr("Shift", "i32", <<2, 3>>), Call("unknown", "i32", << >>), Load(7),
                 LoadGlobal("unknown"), StoreGlobal("unknown", 2), Goto(5), Load(-1)}}
    \union {[Plainly EXCEPT !.init = @ \o <<Number, Instr("Add", "i32", <<0, 1>>)>>],
            File(XY("i32"), "large", <<LoadXY \o <<Return(2)>>>>), File(<< >>, "large", <<<<Void, Return(0)>>>>),
            File(XY("i32"), "i32", <<LoadXY \o <<Void, Store(0, 4), Return(2)>>>>),
            File(XY("i32"), "i32", <<LoadXY \o <<Number, Void, Return(5)>>>>),
            File(XY("i32"), "i32", <<LoadXY \o <<Return(2), Return(3)>>>>)}

MCFiles == ArithmeticFiles \union CompareFiles \union CastFiles \union OtherFiles \union IllTypedFiles \union IfFiles
           \union LoopFiles \union NeverFiles \union GlobalFiles \union StructFiles \union SretFiles
           \union RefusedFiles

-----------------------------------------------------------------------------
(* Assignments to elements and members, and the return of a large struct.  *)

ElementFiles ==
    {File(XY("i32"), "void", <<LoadXY \o <<Instr("GepArray", "ptr", <<0, 2>>),
                                           Instr("StoreInPtr", "void", <<4, 3>>), Void, Return(6)>>>>)}
=============================================================================
