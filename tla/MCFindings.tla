----------------------------- MODULE MCFindings -----------------------------
(***************************************************************************)
(* The smallest file that shows where the generation of the CIR departs    *)
(* from what the backend says of it.                                       *)
(***************************************************************************)
EXTENDS MCCIR

\* tests/test31.cpoint: a break in an if in a for.
BreakInIfBody ==
    <<For(ScopeExpr(<<IfExpr(Test("x"), ScopeExpr(<<BreakExpr>>)), Call("printd")>>))>>
BreakInIf == {<<VoidFunction(BreakInIfBody)>>}
BreakInIfNodes == NodesOf({<<VoidFunction(BreakInIfBody)>>})
=============================================================================
