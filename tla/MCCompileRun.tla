--------------------------- MODULE MCCompileRun ---------------------------
(***************************************************************************)
(* CompileRun on all small programs with nested procedures, calls, loops,  *)
(* conditions, reads, sums and comparisons.                                *)
(***************************************************************************)
EXTENDS CompileRun

MCProductions ==
  {"PROG", "SUBPROG", "ECONST", "EVAR", "VAR", "EOPTVARID", "OPTVARID", "EPROC", "PROC",
   "PROCH", "ESENTENCE", "CALLST", "CALL", "READST", "READ", "EOPTRDID",
   "CONDST", "CONDITION", "CONDHEADER", "WHILEST", "WHILE", "WHILEHEADER",
   "WHILEFLAG", "RASSERTION", "EXPR", "EOPTEXPRITEM", "EXPRITEM",
   "EOPTFACTOR", "IDFACTOR", "OPTEXPRITEM", "AOP"}
============================================================================
