----------------------------- MODULE MCBlocks -----------------------------
(***************************************************************************)
(* Assembler on all small programs with nested procedures: variables,      *)
(* calls, and statements that read into a variable.  Procedures and        *)
(* variables share the names, so that there are homonyms in one block and  *)
(* in enclosing ones.                                                      *)
(***************************************************************************)
EXTENDS Assembler

MCProductions ==
  {"PROG", "SUBPROG", "ECONST", "EVAR", "VAR", "EOPTVARID", "OPTVARID",
   "EPROC", "PROC", "PROCH", "ESENTENCE", "CALLST", "CALL", "READST", "READ",
   "EOPTRDID"}

Naming == Permutations(Names)
============================================================================
