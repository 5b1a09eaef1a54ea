----------------------------- MODULE MCControl -----------------------------
(***************************************************************************)
(* Assembler on all small programs with ifs, loops, statement lists and    *)
(* procedures, nested and one behind the other, in which the lexer may     *)
(* throw at any symbol.                                                    *)
(***************************************************************************)
EXTENDS Assembler

MCProductions ==
  {"PROG", "SUBPROG", "ECONST", "EVAR", "VAR", "EOPTVARID", "EPROC", "PROC", "PROCH",
   "ESENTENCE", "CONDST", "CONDITION", "CONDHEADER", "WHILEST", "WHILE",
   "WHILEHEADER", "WHILEFLAG", "ASSIGNST", "ASSIGN", "COMPST", "COMPLEX",
   "MULTIST", "EOPTMULTIST", "OPTMULTIST", "ASSERTION", "EQOP", "RASSERTION",
   "EXPR", "EOPTEXPRITEM", "EXPRITEM", "EOPTFACTOR", "NUMFACTOR"}
============================================================================
