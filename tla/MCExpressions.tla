--------------------------- MODULE MCExpressions ---------------------------
(***************************************************************************)
(* Expressions on small programs that compute: every kind of expression,   *)
(* and every statement that contains one.                                  *)
(***************************************************************************)
EXTENDS Expressions

MCProductions ==
  DOMAIN Rules \ {"PROC", "PROCH", "MULTIST", "EOPTMULTIST", "OPTMULTIST",
                  "OPTCONSTDEF", "OPTVARID", "WHILEST"}
============================================================================
