----------------------------- MODULE MCCompiler -----------------------------
(***************************************************************************)
(* The structured files of MCCIR, through both halves of the compiler.     *)
(***************************************************************************)
EXTENDS Compiler, MCCIR
=============================================================================
