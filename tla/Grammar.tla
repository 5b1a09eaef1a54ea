------------------------------ MODULE Grammar ------------------------------
(***************************************************************************)
(* The PL/0 grammar of parser/lalrparser.h (RULE_LIST).  A symbol is the   *)
(* string the program looks it up by: a nonterminal carries the prefix S,  *)
(* a terminal the prefix T, and ID and NUM stand for any identifier and    *)
(* any number.  Rules are named as in the enumeration ruletype_t.          *)
(***************************************************************************)
EXTENDS Sequences

ID  == "i"
NUM == "n"
EOF == "$"

\* Named, because the solvers behind the proofs cannot read them in a string.
COMMA     == "T,"
SEMICOLON == "T;"

Rule(lhs, rhs) == [lhs |-> lhs, rhs |-> rhs]

Rules == [
  PL0          |-> Rule("Spl0",         <<"Sprog">>),
  PROG         |-> Rule("Sprog",        <<"Ssubprog", "T.">>),
  SUBPROG      |-> Rule("Ssubprog",     <<"Sconst", "Svar", "Sproc", "Ssentence">>),
  ECONST       |-> Rule("Sconst",       <<>>),
  CONST        |-> Rule("Sconst",       <<"Tconst", "Sconstdef", "Soptconstdef", SEMICOLON>>),
  CONSTDEF     |-> Rule("Sconstdef",    <<ID, "T=", NUM>>),
  EOPTCONSTDEF |-> Rule("Soptconstdef", <<>>),
  OPTCONSTDEF  |-> Rule("Soptconstdef", <<COMMA, "Sconstdef", "Soptconstdef">>),
  EVAR         |-> Rule("Svar",         <<>>),
  VAR          |-> Rule("Svar",         <<"Tvar", ID, "Soptid", SEMICOLON>>),
  EOPTVARID    |-> Rule("Soptid",       <<>>),
  OPTVARID     |-> Rule("Soptid",       <<COMMA, ID, "Soptid">>),
  EPROC        |-> Rule("Sproc",        <<>>),
  PROC         |-> Rule("Sproc",        <<"Sprocheader", "Ssubprog", SEMICOLON, "Sproc">>),
  PROCH        |-> Rule("Sprocheader",  <<"Tprocedure", ID, SEMICOLON>>),
  ESENTENCE    |-> Rule("Ssentence",    <<>>),
  ASSIGNST     |-> Rule("Ssentence",    <<"Sassign">>),
  CONDST       |-> Rule("Ssentence",    <<"Scondition">>),
  WHILEST      |-> Rule("Ssentence",    <<"Swhile">>),
  CALLST       |-> Rule("Ssentence",    <<"Scall">>),
  READST       |-> Rule("Ssentence",    <<"Sread">>),
  WRITEST      |-> Rule("Ssentence",    <<"Swrite">>),
  COMPST       |-> Rule("Ssentence",    <<"Scomplex">>),
  ASSIGN       |-> Rule("Sassign",      <<ID, "T:=", "Sexpr">>),
  COMPLEX      |-> Rule("Scomplex",     <<"Tbegin", "Smultist", "Tend">>),
  MULTIST      |-> Rule("Smultist",     <<"Ssentence", "Soptmultist">>),
  EOPTMULTIST  |-> Rule("Soptmultist",  <<>>),
  OPTMULTIST   |-> Rule("Soptmultist",  <<SEMICOLON, "Ssentence", "Soptmultist">>),
  ASSERTION    |-> Rule("Sassert",      <<"Sexpr", "Srelop", "Sexpr">>),
  RASSERTION   |-> Rule("Sassert",      <<"Todd", "Sexpr">>),
  EXPR         |-> Rule("Sexpr",        <<"Soptexpritem", "Sexpritem">>),
  NEXPROP      |-> Rule("Sexprop",      <<"T-">>),
  PEXPROP      |-> Rule("Sexprop",      <<"T+">>),
  EXPRITEM     |-> Rule("Sexpritem",    <<"Soptfactor", "Sfactor">>),
  IDFACTOR     |-> Rule("Sfactor",      <<ID>>),
  NUMFACTOR    |-> Rule("Sfactor",      <<NUM>>),
  EXPRFACTOR   |-> Rule("Sfactor",      <<"T(", "Sexpr", "T)">>),
  EOPTFACTOR   |-> Rule("Soptfactor",   <<>>),
  OPTFACTOR    |-> Rule("Soptfactor",   <<"Soptfactor", "Sfactor", "Smdop">>),
  MOP          |-> Rule("Smdop",        <<"T*">>),
  DOP          |-> Rule("Smdop",        <<"T/">>),
  EOPTEXPRITEM |-> Rule("Soptexpritem", <<>>),
  OPTEXPRITEM  |-> Rule("Soptexpritem", <<"Soptexpritem", "Sexpritem", "Sasop">>),
  FEXPRITEM    |-> Rule("Soptexpritem", <<"Sexprop", "Sexpritem", "Sasop">>),
  AOP          |-> Rule("Sasop",        <<"T+">>),
  SOP          |-> Rule("Sasop",        <<"T-">>),
  EQOP         |-> Rule("Srelop",       <<"T=">>),
  LOP          |-> Rule("Srelop",       <<"T<">>),
  LEOP         |-> Rule("Srelop",       <<"T<=">>),
  GOP          |-> Rule("Srelop",       <<"T>">>),
  GEOP         |-> Rule("Srelop",       <<"T>=">>),
  NEOP         |-> Rule("Srelop",       <<"T#">>),
  CONDHEADER   |-> Rule("Scondheader",  <<"Tif", "Sassert", "Tthen">>),
  CONDITION    |-> Rule("Scondition",   <<"Scondheader", "Ssentence">>),
  CALL         |-> Rule("Scall",        <<"Tcall", ID>>),
  WHILEFLAG    |-> Rule("Swhileflag",   <<"Twhile">>),
  WHILEHEADER  |-> Rule("Swhileheader", <<"Swhileflag", "Sassert", "Tdo">>),
  WHILE        |-> Rule("Swhile",       <<"Swhileheader", "Ssentence">>),
  READ         |-> Rule("Sread",        <<"Tread", "T(", "Soptreadid", ID, "T)">>),
  EOPTRDID     |-> Rule("Soptreadid",   <<>>),
  OPTRDID      |-> Rule("Soptreadid",   <<"Soptreadid", ID, COMMA>>),
  WRITE        |-> Rule("Swrite",       <<"Twrite", "T(", "Soptwriteid", "Sexpr", "T)">>),
  EOPTWRID     |-> Rule("Soptwriteid",  <<>>),
  OPTWRID      |-> Rule("Soptwriteid",  <<"Soptwriteid", "Sexpr", COMMA>>)
]

Nonterminals == {Rules[r].lhs : r \in DOMAIN Rules}
Symbols == Nonterminals \cup UNION {{Rules[r].rhs[i] : i \in DOMAIN Rules[r].rhs} :
                                   r \in DOMAIN Rules}
Terminals == Symbols \ Nonterminals
============================================================================
