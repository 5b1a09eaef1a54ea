-------------------------- MODULE AssemblerProofs --------------------------
(***************************************************************************)
(* Theorems about the compiler, for every source program: any names and    *)
(* numbers, any nesting of procedures, ifs and loops, any number of        *)
(* lexical errors anywhere, and code of any length.                        *)
(***************************************************************************)
EXTENDS Assembler, RecursionLemmas, FiniteSetTheorems, TLAPS

\* The symbol table, with what SymbolManagerProofs proves about it.
Table == INSTANCE SymbolManagerProofs
  WITH Values <- Numbers, Addresses <- Nat, FirstAddresses <- {3},
       MaxLayers <- MaxPending, MaxEntries <- MaxPending
----------------------------------------------------------------------------
(***************************************************************************)
(* What the proofs need to know of the grammar.  The provers are given a   *)
(* rule's two sides through lhs and rhs, and the rules in groups: the      *)
(* whole record at once is too much for them.                              *)
(***************************************************************************)
lhs(q) == Rules[q].lhs
rhs(q) == Rules[q].rhs

\* The rules, group by group.
LEMMA DeclarationsRules ==
  /\ lhs("PL0") = "Spl0" /\ rhs("PL0") = <<"Sprog">>
  /\ lhs("PROG") = "Sprog" /\ rhs("PROG") = <<"Ssubprog", "T.">>
  /\ lhs("SUBPROG") = "Ssubprog" /\ rhs("SUBPROG") = <<"Sconst", "Svar", "Sproc", "Ssentence">>
  /\ lhs("ECONST") = "Sconst" /\ rhs("ECONST") = <<>>
  /\ lhs("CONST") = "Sconst" /\ rhs("CONST") = <<"Tconst", "Sconstdef", "Soptconstdef", SEMICOLON>>
  /\ lhs("CONSTDEF") = "Sconstdef" /\ rhs("CONSTDEF") = <<ID, "T=", NUM>>
  /\ lhs("EOPTCONSTDEF") = "Soptconstdef" /\ rhs("EOPTCONSTDEF") = <<>>
  /\ lhs("OPTCONSTDEF") = "Soptconstdef" /\ rhs("OPTCONSTDEF") = <<COMMA, "Sconstdef", "Soptconstdef">>
  /\ lhs("EVAR") = "Svar" /\ rhs("EVAR") = <<>>
  /\ lhs("VAR") = "Svar" /\ rhs("VAR") = <<"Tvar", ID, "Soptid", SEMICOLON>>
  /\ lhs("EOPTVARID") = "Soptid" /\ rhs("EOPTVARID") = <<>>
  /\ lhs("OPTVARID") = "Soptid" /\ rhs("OPTVARID") = <<COMMA, ID, "Soptid">>
  /\ lhs("EPROC") = "Sproc" /\ rhs("EPROC") = <<>>
  /\ lhs("PROC") = "Sproc" /\ rhs("PROC") = <<"Sprocheader", "Ssubprog", SEMICOLON, "Sproc">>
  /\ lhs("PROCH") = "Sprocheader" /\ rhs("PROCH") = <<"Tprocedure", ID, SEMICOLON>>
BY ZenonT(60) DEF Rules, Rule, lhs, rhs

\* Statements.
LEMMA StatementsRules ==
  /\ lhs("ESENTENCE") = "Ssentence" /\ rhs("ESENTENCE") = <<>>
  /\ lhs("ASSIGNST") = "Ssentence" /\ rhs("ASSIGNST") = <<"Sassign">>
  /\ lhs("CONDST") = "Ssentence" /\ rhs("CONDST") = <<"Scondition">>
  /\ lhs("WHILEST") = "Ssentence" /\ rhs("WHILEST") = <<"Swhile">>
  /\ lhs("CALLST") = "Ssentence" /\ rhs("CALLST") = <<"Scall">>
  /\ lhs("READST") = "Ssentence" /\ rhs("READST") = <<"Sread">>
  /\ lhs("WRITEST") = "Ssentence" /\ rhs("WRITEST") = <<"Swrite">>
  /\ lhs("COMPST") = "Ssentence" /\ rhs("COMPST") = <<"Scomplex">>
  /\ lhs("ASSIGN") = "Sassign" /\ rhs("ASSIGN") = <<ID, "T:=", "Sexpr">>
  /\ lhs("COMPLEX") = "Scomplex" /\ rhs("COMPLEX") = <<"Tbegin", "Smultist", "Tend">>
  /\ lhs("MULTIST") = "Smultist" /\ rhs("MULTIST") = <<"Ssentence", "Soptmultist">>
  /\ lhs("EOPTMULTIST") = "Soptmultist" /\ rhs("EOPTMULTIST") = <<>>
  /\ lhs("OPTMULTIST") = "Soptmultist" /\ rhs("OPTMULTIST") = <<SEMICOLON, "Ssentence", "Soptmultist">>
BY ZenonT(60) DEF Rules, Rule, lhs, rhs

\* Expressions.
LEMMA ExpressionsRules ==
  /\ lhs("ASSERTION") = "Sassert" /\ rhs("ASSERTION") = <<"Sexpr", "Srelop", "Sexpr">>
  /\ lhs("RASSERTION") = "Sassert" /\ rhs("RASSERTION") = <<"Todd", "Sexpr">>
  /\ lhs("EXPR") = "Sexpr" /\ rhs("EXPR") = <<"Soptexpritem", "Sexpritem">>
  /\ lhs("NEXPROP") = "Sexprop" /\ rhs("NEXPROP") = <<"T-">>
  /\ lhs("PEXPROP") = "Sexprop" /\ rhs("PEXPROP") = <<"T+">>
  /\ lhs("EXPRITEM") = "Sexpritem" /\ rhs("EXPRITEM") = <<"Soptfactor", "Sfactor">>
  /\ lhs("IDFACTOR") = "Sfactor" /\ rhs("IDFACTOR") = <<ID>>
  /\ lhs("NUMFACTOR") = "Sfactor" /\ rhs("NUMFACTOR") = <<NUM>>
  /\ lhs("EXPRFACTOR") = "Sfactor" /\ rhs("EXPRFACTOR") = <<"T(", "Sexpr", "T)">>
  /\ lhs("EOPTFACTOR") = "Soptfactor" /\ rhs("EOPTFACTOR") = <<>>
  /\ lhs("OPTFACTOR") = "Soptfactor" /\ rhs("OPTFACTOR") = <<"Soptfactor", "Sfactor", "Smdop">>
  /\ lhs("MOP") = "Smdop" /\ rhs("MOP") = <<"T*">>
  /\ lhs("DOP") = "Smdop" /\ rhs("DOP") = <<"T/">>
  /\ lhs("EOPTEXPRITEM") = "Soptexpritem" /\ rhs("EOPTEXPRITEM") = <<>>
  /\ lhs("OPTEXPRITEM") = "Soptexpritem" /\ rhs("OPTEXPRITEM") = <<"Soptexpritem", "Sexpritem", "Sasop">>
  /\ lhs("FEXPRITEM") = "Soptexpritem" /\ rhs("FEXPRITEM") = <<"Sexprop", "Sexpritem", "Sasop">>
BY ZenonT(60) DEF Rules, Rule, lhs, rhs

\* Operators.
LEMMA OperatorsRules ==
  /\ lhs("AOP") = "Sasop" /\ rhs("AOP") = <<"T+">>
  /\ lhs("SOP") = "Sasop" /\ rhs("SOP") = <<"T-">>
  /\ lhs("EQOP") = "Srelop" /\ rhs("EQOP") = <<"T=">>
  /\ lhs("LOP") = "Srelop" /\ rhs("LOP") = <<"T<">>
  /\ lhs("LEOP") = "Srelop" /\ rhs("LEOP") = <<"T<=">>
  /\ lhs("GOP") = "Srelop" /\ rhs("GOP") = <<"T>">>
  /\ lhs("GEOP") = "Srelop" /\ rhs("GEOP") = <<"T>=">>
  /\ lhs("NEOP") = "Srelop" /\ rhs("NEOP") = <<"T#">>
BY ZenonT(60) DEF Rules, Rule, lhs, rhs

\* Ifs, loops, input and output.
LEMMA ControlAndIORules ==
  /\ lhs("CONDHEADER") = "Scondheader" /\ rhs("CONDHEADER") = <<"Tif", "Sassert", "Tthen">>
  /\ lhs("CONDITION") = "Scondition" /\ rhs("CONDITION") = <<"Scondheader", "Ssentence">>
  /\ lhs("CALL") = "Scall" /\ rhs("CALL") = <<"Tcall", ID>>
  /\ lhs("WHILEFLAG") = "Swhileflag" /\ rhs("WHILEFLAG") = <<"Twhile">>
  /\ lhs("WHILEHEADER") = "Swhileheader" /\ rhs("WHILEHEADER") = <<"Swhileflag", "Sassert", "Tdo">>
  /\ lhs("WHILE") = "Swhile" /\ rhs("WHILE") = <<"Swhileheader", "Ssentence">>
  /\ lhs("READ") = "Sread" /\ rhs("READ") = <<"Tread", "T(", "Soptreadid", ID, "T)">>
  /\ lhs("EOPTRDID") = "Soptreadid" /\ rhs("EOPTRDID") = <<>>
  /\ lhs("OPTRDID") = "Soptreadid" /\ rhs("OPTRDID") = <<"Soptreadid", ID, COMMA>>
  /\ lhs("WRITE") = "Swrite" /\ rhs("WRITE") = <<"Twrite", "T(", "Soptwriteid", "Sexpr", "T)">>
  /\ lhs("EOPTWRID") = "Soptwriteid" /\ rhs("EOPTWRID") = <<>>
  /\ lhs("OPTWRID") = "Soptwriteid" /\ rhs("OPTWRID") = <<"Soptwriteid", "Sexpr", COMMA>>
BY ZenonT(60) DEF Rules, Rule, lhs, rhs

Declarations == {
  "PL0", "PROG", "SUBPROG", "ECONST", "CONST", "CONSTDEF", "EOPTCONSTDEF",
  "OPTCONSTDEF", "EVAR", "VAR", "EOPTVARID", "OPTVARID", "EPROC", "PROC",
  "PROCH"}
Statements == {
  "ESENTENCE", "ASSIGNST", "CONDST", "WHILEST", "CALLST", "READST",
  "WRITEST", "COMPST", "ASSIGN", "COMPLEX", "MULTIST", "EOPTMULTIST",
  "OPTMULTIST"}
Expressions == {
  "ASSERTION", "RASSERTION", "EXPR", "NEXPROP", "PEXPROP", "EXPRITEM",
  "IDFACTOR", "NUMFACTOR", "EXPRFACTOR", "EOPTFACTOR", "OPTFACTOR", "MOP",
  "DOP", "EOPTEXPRITEM", "OPTEXPRITEM", "FEXPRITEM"}
Operators == {
  "AOP", "SOP", "EQOP", "LOP", "LEOP", "GOP", "GEOP", "NEOP"}
ControlAndIO == {
  "CONDHEADER", "CONDITION", "CALL", "WHILEFLAG", "WHILEHEADER", "WHILE",
  "READ", "EOPTRDID", "OPTRDID", "WRITE", "EOPTWRID", "OPTWRID"}

\* The groups are all the rules there are.
LEMMA RuleNames ==
  DOMAIN Rules = Declarations \cup Statements \cup Expressions \cup Operators
                   \cup ControlAndIO
BY DEF Rules, Declarations, Statements, Expressions, Operators, ControlAndIO

\* A rule's header, for the rules that begin with one, begins nothing else.
HeaderSymbols == {"Sprocheader", "Scondheader", "Swhileheader", "Swhileflag"}
HeadersInPlace(q) ==
  \A k \in DOMAIN rhs(q) :
    /\ rhs(q)[k] = "Sprocheader"  => q = "PROC" /\ k = 1
    /\ rhs(q)[k] = "Scondheader"  => q = "CONDITION" /\ k = 1
    /\ rhs(q)[k] = "Swhileheader" => q = "WHILE" /\ k = 1
    /\ rhs(q)[k] = "Swhileflag"   => q = "WHILEHEADER" /\ k = 1

\* The separators are different from each other and from all names.
LEMMA Separators ==
  /\ SEMICOLON \notin HeaderSymbols /\ SEMICOLON # ID /\ SEMICOLON # NUM
  /\ COMMA \notin HeaderSymbols /\ COMMA # ID /\ COMMA # NUM
BY Zenon DEF SEMICOLON, COMMA, HeaderSymbols, ID, NUM

\* Headers stand at the front of the rule they head and nowhere else.
LEMMA HeadersInPlaceEverywhere == \A q \in DOMAIN Rules : HeadersInPlace(q)
<1>1. \A q \in Declarations : HeadersInPlace(q)
  BY SMTT(60), Separators, DeclarationsRules DEF Declarations, HeadersInPlace, HeaderSymbols, ID, NUM
<1>2. \A q \in Statements : HeadersInPlace(q)
  BY SMTT(60), Separators, StatementsRules DEF Statements, HeadersInPlace, HeaderSymbols, ID, NUM
<1>3. \A q \in Expressions : HeadersInPlace(q)
  BY SMTT(60), Separators, ExpressionsRules DEF Expressions, HeadersInPlace, HeaderSymbols, ID, NUM
<1>4. \A q \in Operators : HeadersInPlace(q)
  BY SMTT(60), Separators, OperatorsRules DEF Operators, HeadersInPlace, HeaderSymbols, ID, NUM
<1>5. \A q \in ControlAndIO : HeadersInPlace(q)
  BY SMTT(60), Separators, ControlAndIORules DEF ControlAndIO, HeadersInPlace, HeaderSymbols, ID, NUM
<1> QED
  BY RuleNames, <1>1, <1>2, <1>3, <1>4, <1>5

\* Which rules make a header, and which the symbols that stand for operators;
\* the symbols of names and numbers are made by none.
LhsInPlace(q) ==
  /\ lhs(q) \notin {ID, NUM}
  /\ lhs(q) = "Sprocheader"  => q = "PROCH"
  /\ lhs(q) = "Scondheader"  => q = "CONDHEADER"
  /\ lhs(q) = "Swhileheader" => q = "WHILEHEADER"
  /\ lhs(q) = "Swhileflag"   => q = "WHILEFLAG"
  /\ lhs(q) \in {"Smdop", "Sasop"} => q \in {"MOP", "DOP", "AOP", "SOP"}
  /\ lhs(q) = "Sexprop" => q \in {"NEXPROP", "PEXPROP"}
  /\ lhs(q) = "Srelop" => q \in {"EQOP", "LOP", "LEOP", "GOP", "GEOP", "NEOP"}

\* Which rules make operators, headers and declarations.
LEMMA LhsInPlaceEverywhere == \A q \in DOMAIN Rules : LhsInPlace(q)
<1>1. \A q \in Declarations : LhsInPlace(q)
  BY SMTT(60), Separators, DeclarationsRules DEF Declarations, LhsInPlace, ID, NUM
<1>2. \A q \in Statements : LhsInPlace(q)
  BY SMTT(60), Separators, StatementsRules DEF Statements, LhsInPlace, ID, NUM
<1>3. \A q \in Expressions : LhsInPlace(q)
  BY SMTT(60), Separators, ExpressionsRules DEF Expressions, LhsInPlace, ID, NUM
<1>4. \A q \in Operators : LhsInPlace(q)
  BY SMTT(60), Separators, OperatorsRules DEF Operators, LhsInPlace, ID, NUM
<1>5. \A q \in ControlAndIO : LhsInPlace(q)
  BY SMTT(60), Separators, ControlAndIORules DEF ControlAndIO, LhsInPlace, ID, NUM
<1> QED
  BY RuleNames, <1>1, <1>2, <1>3, <1>4, <1>5

RhsIsSequence(q) == Len(rhs(q)) \in Nat /\ DOMAIN rhs(q) = 1..Len(rhs(q))

\* Every right-hand side is a sequence.
LEMMA RhsAreSequences == \A q \in DOMAIN Rules : RhsIsSequence(q)
<1>1. \A q \in Declarations : RhsIsSequence(q)
  BY SMTT(60), DeclarationsRules DEF Declarations, RhsIsSequence, ID, NUM
<1>2. \A q \in Statements : RhsIsSequence(q)
  BY SMTT(60), StatementsRules DEF Statements, RhsIsSequence, ID, NUM
<1>3. \A q \in Expressions : RhsIsSequence(q)
  BY SMTT(60), ExpressionsRules DEF Expressions, RhsIsSequence, ID, NUM
<1>4. \A q \in Operators : RhsIsSequence(q)
  BY SMTT(60), OperatorsRules DEF Operators, RhsIsSequence, ID, NUM
<1>5. \A q \in ControlAndIO : RhsIsSequence(q)
  BY SMTT(60), ControlAndIORules DEF ControlAndIO, RhsIsSequence, ID, NUM
<1> QED
  BY RuleNames, <1>1, <1>2, <1>3, <1>4, <1>5

\* Blocks: which rules make them and their parts, and where these stand.
BlocksInPlace(q) ==
  /\ lhs(q) \notin {"T.", SEMICOLON}
  /\ lhs(q) = "Sprog"    => q = "PROG"
  /\ lhs(q) = "Ssubprog" => q = "SUBPROG"
  /\ lhs(q) = "Sproc"    => q \in {"PROC", "EPROC"}
  /\ \A k \in DOMAIN rhs(q) :
       /\ rhs(q)[k] = "Sprog"    => q = "PL0"
       /\ rhs(q)[k] = "Ssubprog" => (q = "PROG" /\ k = 1) \/ (q = "PROC" /\ k = 2)
       /\ rhs(q)[k] = "Sproc"    => (q = "SUBPROG" /\ k = 3) \/ (q = "PROC" /\ k = 4)

\* The separators are no nonterminals.
LEMMA SeparatorsAreTerminals ==
  /\ COMMA \notin {"Sprog", "Ssubprog", "Sproc"} /\ SEMICOLON \notin {"Sprog", "Ssubprog", "Sproc"}
  /\ \A s \in {"Spl0", "Sprog", "Ssubprog", "Sconst", "Sconstdef", "Soptconstdef", "Svar",
              "Soptid", "Sproc", "Sprocheader"} : s # SEMICOLON
  /\ \A s \in {"Ssentence", "Sassign", "Scomplex", "Smultist", "Soptmultist"} : s # SEMICOLON
  /\ \A s \in {"Sassert", "Sexpr", "Sexprop", "Sexpritem", "Sfactor", "Soptfactor", "Smdop",
              "Soptexpritem", "Sasop", "Srelop"} : s # SEMICOLON
  /\ \A s \in {"Scondheader", "Scondition", "Scall", "Swhileflag", "Swhileheader", "Swhile",
              "Sread", "Soptreadid", "Swrite", "Soptwriteid"} : s # SEMICOLON
BY Zenon DEF SEMICOLON, COMMA

\* Blocks are in place in every rule.
LEMMA BlocksInPlaceEverywhere == \A q \in DOMAIN Rules : BlocksInPlace(q)
<1>1. \A q \in Declarations : BlocksInPlace(q)
  BY SMTT(60), SeparatorsAreTerminals, DeclarationsRules DEF Declarations, BlocksInPlace, ID, NUM
<1>2. \A q \in Statements : BlocksInPlace(q)
  BY SMTT(60), SeparatorsAreTerminals, StatementsRules DEF Statements, BlocksInPlace, ID, NUM
<1>3. \A q \in Expressions : BlocksInPlace(q)
  BY SMTT(60), SeparatorsAreTerminals, ExpressionsRules DEF Expressions, BlocksInPlace, ID, NUM
<1>4. \A q \in Operators : BlocksInPlace(q)
  BY SMTT(60), SeparatorsAreTerminals, OperatorsRules DEF Operators, BlocksInPlace, ID, NUM
<1>5. \A q \in ControlAndIO : BlocksInPlace(q)
  BY SMTT(60), SeparatorsAreTerminals, ControlAndIORules DEF ControlAndIO, BlocksInPlace, ID, NUM
<1> QED
  BY RuleNames, <1>1, <1>2, <1>3, <1>4, <1>5

\* The right-hand sides of the rules that make blocks, symbol by symbol.
LEMMA BlockShapes ==
  /\ Len(rhs("PL0")) = 1 /\ rhs("PL0")[1] = "Sprog"
  /\ Len(rhs("PROG")) = 2 /\ rhs("PROG")[1] = "Ssubprog" /\ rhs("PROG")[2] = "T."
  /\ Len(rhs("SUBPROG")) = 4 /\ rhs("SUBPROG")[1] = "Sconst" /\ rhs("SUBPROG")[2] = "Svar"
  /\ rhs("SUBPROG")[3] = "Sproc" /\ rhs("SUBPROG")[4] = "Ssentence"
  /\ Len(rhs("EPROC")) = 0
  /\ Len(rhs("PROC")) = 4 /\ rhs("PROC")[1] = "Sprocheader" /\ rhs("PROC")[2] = "Ssubprog"
  /\ rhs("PROC")[3] = SEMICOLON /\ rhs("PROC")[4] = "Sproc"
  /\ lhs("PL0") = "Spl0" /\ lhs("PROG") = "Sprog" /\ lhs("SUBPROG") = "Ssubprog"
  /\ lhs("EPROC") = "Sproc" /\ lhs("PROC") = "Sproc" /\ lhs("PROCH") = "Sprocheader"
  /\ {"PL0", "PROG", "SUBPROG", "EPROC", "PROC", "PROCH"} \subseteq DOMAIN Rules
<1>1. Declarations \subseteq DOMAIN Rules
  BY RuleNames
<1> QED BY <1>1, DeclarationsRules DEF Declarations

\* The separators are no nonterminals.
LEMMA CommaIsTerminal ==
  /\ \A s \in {"Spl0", "Sprog", "Ssubprog", "Sconst", "Sconstdef", "Soptconstdef", "Svar",
              "Soptid", "Sproc", "Sprocheader"} : s # COMMA
  /\ \A s \in {"Ssentence", "Sassign", "Scomplex", "Smultist", "Soptmultist"} : s # COMMA
  /\ \A s \in {"Sassert", "Sexpr", "Sexprop", "Sexpritem", "Sfactor", "Soptfactor", "Smdop",
              "Soptexpritem", "Sasop", "Srelop"} : s # COMMA
  /\ \A s \in {"Scondheader", "Scondition", "Scall", "Swhileflag", "Swhileheader", "Swhile",
              "Sread", "Soptreadid", "Swrite", "Soptwriteid"} : s # COMMA
BY Zenon DEF COMMA

\* The declarations of constants, of variables, and of blocks: the symbols they
\* consist of, and where these stand.  Only the last symbol of SUBPROG is one
\* that statements are made of.
ConstantRules == {"ECONST", "CONST", "CONSTDEF", "EOPTCONSTDEF", "OPTCONSTDEF"}
VariableRules == {"EVAR", "VAR", "EOPTVARID", "OPTVARID"}
ConstantSymbols == {"Sconst", "Sconstdef", "Soptconstdef"}
VariableSymbols == {"Svar", "Soptid"}
DeclarationSymbols ==
  ConstantSymbols \cup VariableSymbols \cup {COMMA, SEMICOLON, ID, NUM}
    \cup {"Spl0", "Sprog", "Ssubprog", "T.", "Sproc", "Tconst", "T=", "Tvar",
          "Sprocheader", "Tprocedure"}
PartsInPlace(q) ==
  /\ lhs(q) \in ConstantSymbols <=> q \in ConstantRules
  /\ lhs(q) \in VariableSymbols <=> q \in VariableRules
  /\ lhs(q) \in DeclarationSymbols <=> q \in Declarations
  /\ \A k \in DOMAIN rhs(q) :
       /\ rhs(q)[k] # "Spl0"
       /\ rhs(q)[k] \in ConstantSymbols => q \in ConstantRules \/ (q = "SUBPROG" /\ k = 1)
       /\ rhs(q)[k] \in VariableSymbols => q \in VariableRules \/ (q = "SUBPROG" /\ k = 2)
       /\ q \in Declarations =>
            rhs(q)[k] \in DeclarationSymbols \/ (q = "SUBPROG" /\ k = 4)

\* Declarations are in place in every rule.
LEMMA PartsInPlaceEverywhere == \A q \in DOMAIN Rules : PartsInPlace(q)
<1>1. \A q \in Declarations : PartsInPlace(q)
  BY SMTT(60), Separators, SeparatorsAreTerminals, CommaIsTerminal, DeclarationsRules
     DEF Declarations, PartsInPlace, ConstantRules, VariableRules, ConstantSymbols,
         VariableSymbols, DeclarationSymbols, ID, NUM
<1>2. \A q \in Statements : PartsInPlace(q)
  BY SMTT(60), Separators, SeparatorsAreTerminals, CommaIsTerminal, StatementsRules
     DEF Statements, Declarations, PartsInPlace, ConstantRules, VariableRules, ConstantSymbols,
         VariableSymbols, DeclarationSymbols, ID, NUM
<1>3. \A q \in Expressions : PartsInPlace(q)
  BY SMTT(60), Separators, SeparatorsAreTerminals, CommaIsTerminal, ExpressionsRules
     DEF Expressions, Declarations, PartsInPlace, ConstantRules, VariableRules, ConstantSymbols,
         VariableSymbols, DeclarationSymbols, ID, NUM
<1>4. \A q \in Operators : PartsInPlace(q)
  BY SMTT(60), Separators, SeparatorsAreTerminals, CommaIsTerminal, OperatorsRules
     DEF Operators, Declarations, PartsInPlace, ConstantRules, VariableRules, ConstantSymbols,
         VariableSymbols, DeclarationSymbols, ID, NUM
<1>5. \A q \in ControlAndIO : PartsInPlace(q)
  BY SMTT(60), Separators, SeparatorsAreTerminals, CommaIsTerminal, ControlAndIORules
     DEF ControlAndIO, Declarations, PartsInPlace, ConstantRules, VariableRules, ConstantSymbols,
         VariableSymbols, DeclarationSymbols, ID, NUM
<1> QED
  BY RuleNames, <1>1, <1>2, <1>3, <1>4, <1>5
----------------------------------------------------------------------------
(***************************************************************************)
(* The rules the source is in.                                             *)
(***************************************************************************)

Arithmetic  == {OPR_ADD, OPR_SUB, OPR_MUL, OPR_DIV}
Comparisons == {OPR_CMPE, OPR_CMPNE, OPR_CMPL, OPR_CMPGE, OPR_CMPG, OPR_CMPLE}

\* The values a symbol can have on the automaton's stack.
ValuesOf(s) ==
  IF s \in Terminals THEN Tokens(s)
  ELSE IF s \in {"Smdop", "Sasop"} THEN {Operator(o) : o \in Arithmetic}
  ELSE IF s = "Sexprop" THEN {Operator(OPR_SUB), Operator(OPR_NOP)}
  ELSE IF s = "Srelop" THEN {Operator(o) : o \in Comparisons}
  ELSE IF s \in {"Soptfactor", "Soptexpritem"}
  THEN {nullptr} \cup {Operator(o) : o \in Arithmetic}
  ELSE {nullptr}

AllValues == UNION {ValuesOf(s) : s \in Symbols}
Items == [rule : DOMAIN Rules, vals : Seq(AllValues)]

\* The values an item has are values of the symbols of its right-hand side.
ItemFits(it) ==
  /\ Len(it.vals) <= Len(rhs(it.rule))
  /\ \A j \in 1..Len(it.vals) : it.vals[j] \in ValuesOf(rhs(it.rule)[j])

\* The next symbol of it to be recognized is s.
Awaits(it, s) ==
  Len(it.vals) < Len(rhs(it.rule)) /\ rhs(it.rule)[Len(it.vals) + 1] = s

\* Every item but the last waits for the left-hand side of the one behind it.
OnTrack(its) ==
  /\ its \in Seq(Items) /\ Len(its) > 0
  /\ its[1].rule = "PL0"
  /\ \A k \in 1..Len(its) : ItemFits(its[k])
  /\ \A k \in 1..(Len(its) - 1) : Awaits(its[k], lhs(its[k + 1].rule))

\* The items of rule p that have recognized something.
Begun(its, p) == {k \in 1..Len(its) : its[k].rule = p /\ its[k].vals # <<>>}

\* The items of a rule that have recognized something can be counted.
LEMMA BegunIsFinite ==
  ASSUME NEW its, OnTrack(its), NEW p
  PROVE  IsFiniteSet(Begun(its, p)) /\ Cardinality(Begun(its, p)) \in Nat
<1>1. IsFiniteSet(1..Len(its))
  BY FS_Interval DEF OnTrack
<1>2. Begun(its, p) \subseteq 1..Len(its)
  BY DEF Begun
<1>3. IsFiniteSet(Begun(its, p))
  BY <1>1, <1>2, FS_Subset
<1> QED BY <1>3, FS_CardinalityType

\* The innermost item.
LEMMA Innermost ==
  ASSUME OnTrack(items)
  PROVE  /\ Len(items) \in Nat /\ Len(items) >= 1
         /\ items[Len(items)] \in Items
         /\ r = items[Len(items)].rule /\ v = items[Len(items)].vals
         /\ r \in DOMAIN Rules /\ v \in Seq(AllValues) /\ Len(v) \in Nat
         /\ Len(rhs(r)) \in Nat /\ DOMAIN rhs(r) = 1..Len(rhs(r))
         /\ Len(v) <= Len(rhs(r))
         /\ \A j \in 1..Len(v) : v[j] \in ValuesOf(rhs(r)[j])
         /\ Complete <=> Len(v) = Len(rhs(r))
         /\ Upcoming = rhs(r)[Len(v) + 1]
         /\ ~Complete => Awaits(items[Len(items)], Upcoming)
<1>1. Len(items) \in Nat /\ Len(items) >= 1 /\ items[Len(items)] \in Items
  BY DEF OnTrack
<1>2. Last(items) = items[Len(items)]
  BY DEF Last
<1>3. r = items[Len(items)].rule /\ v = items[Len(items)].vals
  BY <1>2 DEF r, v
<1>4. r \in DOMAIN Rules /\ v \in Seq(AllValues)
  BY <1>1, <1>3 DEF Items
<1>5. Len(rhs(r)) \in Nat /\ DOMAIN rhs(r) = 1..Len(rhs(r))
  BY <1>4, RhsAreSequences DEF RhsIsSequence
<1>6. ItemFits(items[Len(items)])
  BY <1>1 DEF OnTrack
<1>7. (Complete <=> Len(v) = Len(rhs(r))) /\ Upcoming = rhs(r)[Len(v) + 1]
  BY DEF Complete, Upcoming, rhs
<1> QED
  BY <1>1, <1>3, <1>4, <1>5, <1>6, <1>7 DEF ItemFits, Awaits

\* One of the rules for the symbol that comes next begins.
LEMMA Expanded ==
  ASSUME OnTrack(items), NEW p \in DOMAIN Rules, ~Complete, Upcoming = lhs(p)
  PROVE  LET its == Append(items, Item(p, <<>>))
         IN  OnTrack(its) /\ \A q : Begun(its, q) = Begun(items, q)
<1> DEFINE its == Append(items, Item(p, <<>>))
           n == Len(items)
<1>1. Item(p, <<>>) \in Items /\ Item(p, <<>>).rule = p /\ Item(p, <<>>).vals = <<>>
  BY DEF Item, Items
<1>2. n \in Nat /\ n >= 1 /\ Awaits(items[n], lhs(p))
  BY Innermost
<1>3. /\ its \in Seq(Items) /\ Len(its) = n + 1
      /\ \A k \in 1..n : its[k] = items[k]
      /\ its[n + 1] = Item(p, <<>>)
  BY <1>1, <1>2 DEF OnTrack
<1>4. ItemFits(Item(p, <<>>))
  <2>1. Len(rhs(p)) \in Nat
    BY RhsAreSequences DEF RhsIsSequence
  <2> QED BY <1>1, <2>1 DEF ItemFits
<1> HIDE DEF its
<1>5. OnTrack(its)
  <2>1. \A k \in 1..Len(its) : ItemFits(its[k])
    <3> SUFFICES ASSUME NEW k \in 1..Len(its) PROVE ItemFits(its[k])
      OBVIOUS
    <3>1. k \in 1..n \/ k = n + 1
      BY <1>2, <1>3
    <3> QED BY <3>1, <1>3, <1>4 DEF OnTrack
  <2>2. \A k \in 1..(Len(its) - 1) : Awaits(its[k], lhs(its[k + 1].rule))
    <3> SUFFICES ASSUME NEW k \in 1..n PROVE Awaits(its[k], lhs(its[k + 1].rule))
      BY <1>2, <1>3
    <3>1. CASE k = n
      BY <1>1, <1>2, <1>3, <3>1
    <3>2. CASE k \in 1..(n - 1)
      <4>1. its[k] = items[k] /\ its[k + 1] = items[k + 1]
        BY <1>2, <1>3, <3>2
      <4> QED BY <3>2, <4>1 DEF OnTrack
    <3> QED BY <1>2, <3>1, <3>2
  <2> QED BY <1>2, <1>3, <2>1, <2>2 DEF OnTrack
<1>6. ASSUME NEW q PROVE Begun(its, q) = Begun(items, q)
  <2>1. \A k \in 1..(n + 1) : k \in 1..n \/ k = n + 1
    BY <1>2
  <2>2. 1..n \subseteq 1..(n + 1)
    BY <1>2
  <2> QED BY <1>1, <1>3, <2>1, <2>2 DEF Begun
<1> QED BY <1>5, <1>6 DEF its

\* The innermost item's next symbol is recognized.
LEMMA RecognizedNext ==
  ASSUME NEW its, OnTrack(its), NEW s, Awaits(its[Len(its)], s),
         s \in Symbols, NEW value \in ValuesOf(s)
  PROVE  LET new == Recognized(its, value)
             n == Len(its)
         IN  /\ OnTrack(new)
             /\ Len(new) = n /\ new[n].rule = its[n].rule
             /\ \A q : Begun(new, q) = Begun(its, q) \cup (IF its[n].rule = q THEN {n} ELSE {})
<1> DEFINE new == Recognized(its, value)
           n == Len(its)
           top == Item(its[n].rule, Append(its[n].vals, value))
<1>1. n \in 1..n /\ n \in Nat /\ its[n] \in Items /\ its \in Seq(Items)
  BY DEF OnTrack
<1>2. its[n].vals \in Seq(AllValues) /\ value \in AllValues
  BY <1>1 DEF Items, AllValues
<1>3. top \in Items /\ top.rule = its[n].rule /\ top.vals = Append(its[n].vals, value)
  BY <1>1, <1>2 DEF Items, Item
<1>4. new = [its EXCEPT ![n] = top]
  <2>1. [its[n] EXCEPT !.vals = Append(@, value)] = top
    <3> DEFINE it == its[n]
               vals == Append(it.vals, value)
    <3>1. it \in [rule : DOMAIN Rules, vals : Seq(AllValues)] /\ vals \in Seq(AllValues)
      BY <1>1, <1>2 DEF Items
    <3> HIDE DEF it, vals
    <3>2. [it EXCEPT !.vals = vals] = [rule |-> it.rule, vals |-> vals]
      BY <3>1
    <3> QED BY <3>2 DEF it, vals, Item
  <2>2. new = [its EXCEPT ![n] = [its[n] EXCEPT !.vals = Append(@, value)]]
    BY DEF Recognized
  <2> HIDE DEF top
  <2> QED BY <2>1, <2>2
<1>5. /\ new \in Seq(Items) /\ Len(new) = n /\ new[n] = top
      /\ \A k \in 1..n : k # n => new[k] = its[k]
  BY <1>1, <1>3, <1>4
<1>6. ItemFits(top)
  <2>1. ItemFits(its[n])
    BY <1>1 DEF OnTrack
  <2>2. Len(rhs(its[n].rule)) \in Nat
    BY <1>1, RhsAreSequences DEF RhsIsSequence, Items
  <2> DEFINE vals == its[n].vals
  <2>3. /\ Len(vals) \in Nat /\ Len(Append(vals, value)) = Len(vals) + 1
        /\ \A j \in 1..Len(vals) : Append(vals, value)[j] = vals[j]
        /\ Append(vals, value)[Len(vals) + 1] = value
    BY <1>2
  <2>4. \A j \in 1..(Len(vals) + 1) : j \in 1..Len(vals) \/ j = Len(vals) + 1
    BY <2>3
  <2> HIDE DEF vals
  <2> QED BY <1>3, <2>1, <2>2, <2>3, <2>4 DEF ItemFits, Awaits, vals
<1> HIDE DEF new, top
<1>7. OnTrack(new)
  <2>1. \A k \in 1..n : ItemFits(new[k])
    BY <1>5, <1>6 DEF OnTrack
  <2>2. \A k \in 1..(n - 1) : Awaits(new[k], lhs(new[k + 1].rule))
    <3> SUFFICES ASSUME NEW k \in 1..(n - 1) PROVE Awaits(new[k], lhs(new[k + 1].rule))
      OBVIOUS
    <3>1. k \in 1..n /\ k # n /\ k + 1 \in 1..n
      BY <1>1
    <3>2. new[k] = its[k] /\ new[k + 1].rule = its[k + 1].rule
      BY <1>3, <1>5, <3>1
    <3> QED BY <3>2 DEF OnTrack
  <2>3. new[1].rule = "PL0"
    BY <1>1, <1>3, <1>5 DEF OnTrack
  <2> QED BY <1>1, <1>5, <2>1, <2>2, <2>3 DEF OnTrack
<1>8. ASSUME NEW q
      PROVE  Begun(new, q) = Begun(its, q) \cup (IF its[n].rule = q THEN {n} ELSE {})
  <2>1. top.vals # <<>>
    BY <1>2, <1>3
  <2> QED BY <1>1, <1>3, <1>5, <2>1 DEF Begun
<1> QED BY <1>3, <1>5, <1>7, <1>8 DEF new

\* The innermost item is taken away.
LEMMA FrontItems ==
  ASSUME NEW its, OnTrack(its), its[Len(its)].rule # "PL0"
  PROVE  LET new == Front(its)
             n == Len(its)
         IN  /\ OnTrack(new) /\ Len(new) = n - 1 /\ n > 1
             /\ Awaits(new[n - 1], lhs(its[n].rule))
             /\ new[n - 1] = its[n - 1]
             /\ \A q : Begun(new, q) = Begun(its, q) \ {n}
<1> DEFINE new == Front(its)
           n == Len(its)
<1>1. n \in Nat /\ n > 1 /\ its \in Seq(Items)
  BY DEF OnTrack
<1>2. /\ new \in Seq(Items) /\ Len(new) = n - 1
      /\ \A k \in 1..(n - 1) : new[k] = its[k]
  BY <1>1 DEF Front
<1>3. n - 1 \in 1..(n - 1) /\ (n - 1) + 1 = n /\ n \in 1..n
  BY <1>1
<1>4. Awaits(its[n - 1], lhs(its[n].rule))
  BY <1>3 DEF OnTrack
<1> HIDE DEF new
<1>5. OnTrack(new)
  <2>1. \A k \in 1..(n - 1) : ItemFits(new[k])
    BY <1>1, <1>2 DEF OnTrack
  <2>2. \A k \in 1..(n - 2) : Awaits(new[k], lhs(new[k + 1].rule))
    BY <1>1, <1>2 DEF OnTrack
  <2>3. (n - 1) - 1 = n - 2
    BY <1>1
  <2> QED BY <1>1, <1>2, <2>1, <2>2, <2>3 DEF OnTrack
<1>6. ASSUME NEW q PROVE Begun(new, q) = Begun(its, q) \ {n}
  <2>1. \A k \in 1..n : k = n \/ k \in 1..(n - 1)
    BY <1>1
  <2>2. \A k \in 1..(n - 1) : k \in 1..n /\ k # n
    BY <1>1
  <2> QED BY <1>2, <2>1, <2>2 DEF Begun
<1> QED BY <1>1, <1>2, <1>3, <1>4, <1>5, <1>6 DEF new

\* Rule p begins with a symbol that only rule h makes and nothing else contains.
Headed(p, h) ==
  /\ p \in DOMAIN Rules /\ h \in DOMAIN Rules /\ p # h
  /\ lhs(h) \notin Terminals
  /\ \A q \in DOMAIN Rules : lhs(q) = lhs(h) => q = h
  /\ \A q \in DOMAIN Rules : \A k \in DOMAIN rhs(q) :
       rhs(q)[k] = lhs(h) => q = p /\ k = 1
  /\ Len(rhs(p)) > 0 /\ rhs(p)[1] = lhs(h)

\* PROCH heads PROC and nothing else (Assembler.cpp:30 and 44), and so do the
\* headers of if and while: the pushes and pops of the backfill stacks pair up.
LEMMA HeadedRules ==
  /\ Headed("PROC", "PROCH") /\ Headed("CONDITION", "CONDHEADER")
  /\ Headed("WHILE", "WHILEHEADER") /\ Headed("WHILEHEADER", "WHILEFLAG")
<1>1. {"PROC", "PROCH", "CONDITION", "CONDHEADER", "WHILE", "WHILEHEADER", "WHILEFLAG"}
        \subseteq DOMAIN Rules
  BY RuleNames DEF Declarations, ControlAndIO
<1>2. \A q \in DOMAIN Rules : lhs(q) \notin Terminals
  BY DEF Terminals, Nonterminals, lhs
<1>3. \A q \in DOMAIN Rules : HeadersInPlace(q) /\ LhsInPlace(q)
  BY HeadersInPlaceEverywhere, LhsInPlaceEverywhere
<1>4. /\ lhs("PROCH") = "Sprocheader" /\ Len(rhs("PROC")) = 4 /\ rhs("PROC")[1] = "Sprocheader"
  BY DeclarationsRules
<1>5. /\ lhs("CONDHEADER") = "Scondheader"
      /\ Len(rhs("CONDITION")) = 2 /\ rhs("CONDITION")[1] = "Scondheader"
      /\ lhs("WHILEHEADER") = "Swhileheader"
      /\ Len(rhs("WHILE")) = 2 /\ rhs("WHILE")[1] = "Swhileheader"
      /\ lhs("WHILEFLAG") = "Swhileflag"
      /\ Len(rhs("WHILEHEADER")) = 3 /\ rhs("WHILEHEADER")[1] = "Swhileflag"
  BY ControlAndIORules
<1>6. Headed("PROC", "PROCH")
  BY <1>1, <1>2, <1>3, <1>4 DEF Headed, HeadersInPlace, LhsInPlace
<1>7. Headed("CONDITION", "CONDHEADER")
  BY <1>1, <1>2, <1>3, <1>5 DEF Headed, HeadersInPlace, LhsInPlace
<1>8. Headed("WHILE", "WHILEHEADER")
  BY <1>1, <1>2, <1>3, <1>5 DEF Headed, HeadersInPlace, LhsInPlace
<1>9. Headed("WHILEHEADER", "WHILEFLAG")
  BY <1>1, <1>2, <1>3, <1>5 DEF Headed, HeadersInPlace, LhsInPlace
<1> QED BY <1>6, <1>7, <1>8, <1>9

\* How many items of rule p have their header.
Depth(its, p) == Cardinality(Begun(its, p))

\* A terminal is read: nothing is headed by one.
LEMMA Shifted ==
  ASSUME OnTrack(items), ~Complete, Upcoming \in Terminals, NEW token \in Tokens(Upcoming)
  PROVE  LET its == Recognized(items, token)
         IN  /\ OnTrack(its)
             /\ \A p, h : Headed(p, h) => Depth(its, p) = Depth(items, p)
<1> DEFINE its == Recognized(items, token)
           n == Len(items)
<1>1. Awaits(items[n], Upcoming) /\ n \in Nat /\ n >= 1 /\ r = items[n].rule /\ v = items[n].vals
  BY Innermost
<1>2. Upcoming \in Symbols /\ token \in ValuesOf(Upcoming)
  BY DEF Terminals, ValuesOf
<1>3. /\ OnTrack(its)
      /\ \A q : Begun(its, q) = Begun(items, q) \cup (IF items[n].rule = q THEN {n} ELSE {})
  BY <1>1, <1>2, RecognizedNext
<1> HIDE DEF its
<1>4. ASSUME NEW p, NEW h, Headed(p, h) PROVE Begun(its, p) = Begun(items, p)
  <2>1. CASE items[n].rule = p
    <3>1. v # <<>>
      <4>1. SUFFICES ASSUME v = <<>> PROVE FALSE
        OBVIOUS
      <4>2. Upcoming = lhs(h)
        BY <1>1, <2>1, <4>1, <1>4, Innermost DEF Headed
      <4> QED BY <1>4, <4>2 DEF Headed
    <3>2. n \in Begun(items, p)
      BY <1>1, <2>1, <3>1 DEF Begun
    <3> QED BY <1>3, <2>1, <3>2
  <2>2. CASE items[n].rule # p
    BY <1>3, <2>2
  <2> QED BY <2>1, <2>2
<1>5. \A p, h : Headed(p, h) => Depth(its, p) = Depth(items, p)
  BY <1>4 DEF Depth
<1> QED BY <1>3, <1>5 DEF its

\* A rule is reduced: its item goes, and the one below has its symbol.
LEMMA Reduced ==
  ASSUME OnTrack(items), Complete, r # "PL0", NEW value \in ValuesOf(lhs(r))
  PROVE  LET its == Recognized(Front(items), value)
         IN  /\ OnTrack(its)
             /\ \A p, h : Headed(p, h) =>
                  /\ r = h => Depth(its, p) = Depth(items, p) + 1
                  /\ r = p => Depth(its, p) = Depth(items, p) - 1 /\ Depth(items, p) > 0
                  /\ r # h /\ r # p => Depth(its, p) = Depth(items, p)
<1> DEFINE front == Front(items)
           its == Recognized(front, value)
           n == Len(items)
<1>1. /\ n \in Nat /\ n >= 1 /\ r = items[n].rule /\ v = items[n].vals /\ r \in DOMAIN Rules
      /\ Len(v) = Len(rhs(r)) /\ Len(rhs(r)) \in Nat /\ v \in Seq(AllValues)
  BY Innermost
<1>2. /\ OnTrack(front) /\ Len(front) = n - 1 /\ n > 1
      /\ Awaits(front[n - 1], lhs(r)) /\ front[n - 1] = items[n - 1]
      /\ \A q : Begun(front, q) = Begun(items, q) \ {n}
  BY <1>1, FrontItems
<1>3. lhs(r) \in Symbols /\ lhs(r) \notin Terminals
  BY <1>1 DEF Symbols, Nonterminals, Terminals, lhs
<1> HIDE DEF front
<1> DEFINE b == front[n - 1].rule
<1>4. /\ OnTrack(its)
      /\ \A q : Begun(its, q) = Begun(front, q) \cup (IF b = q THEN {n - 1} ELSE {})
  <2>1. Awaits(front[Len(front)], lhs(r))
    BY <1>2
  <2> QED BY <1>2, <1>3, <2>1, RecognizedNext
<1>5. front[n - 1] \in Items /\ b \in DOMAIN Rules
  <2>1. front \in Seq(Items) /\ n - 1 \in 1..Len(front)
    BY <1>1, <1>2 DEF OnTrack
  <2>2. front[n - 1] \in Items
    BY <2>1
  <2> QED BY <2>2 DEF Items
<1>6. /\ Len(front[n - 1].vals) \in Nat /\ Len(front[n - 1].vals) + 1 \in DOMAIN rhs(b)
      /\ rhs(b)[Len(front[n - 1].vals) + 1] = lhs(r)
  BY <1>2, <1>5, RhsAreSequences DEF Awaits, Items, RhsIsSequence
<1> HIDE DEF its
<1>7. ASSUME NEW p, NEW h, Headed(p, h)
      PROVE  /\ r = h => Depth(its, p) = Depth(items, p) + 1
             /\ r = p => Depth(its, p) = Depth(items, p) - 1 /\ Depth(items, p) > 0
             /\ r # h /\ r # p => Depth(its, p) = Depth(items, p)
  <2>0. IsFiniteSet(Begun(items, p)) /\ Depth(items, p) \in Nat
    BY BegunIsFinite DEF Depth
  <2>1. Begun(its, p) = (Begun(items, p) \ {n}) \cup (IF b = p THEN {n - 1} ELSE {})
    BY <1>2, <1>4
  <2>2. n \in Begun(items, p) <=> r = p /\ v # <<>>
    BY <1>1 DEF Begun
  <2>3. n - 1 \in Begun(items, p) <=> b = p /\ front[n - 1].vals # <<>>
    BY <1>1, <1>2 DEF Begun
  <2>4. CASE r = h
    <3>1. b = p /\ Len(front[n - 1].vals) + 1 = 1
      BY <1>5, <1>6, <1>7, <2>4 DEF Headed
    <3>2. front[n - 1].vals = <<>>
      BY <1>5, <3>1 DEF Items
    <3>3. Begun(its, p) = Begun(items, p) \cup {n - 1} /\ n - 1 \notin Begun(items, p)
      <4>1. r # p
        BY <1>7, <2>4 DEF Headed
      <4> QED BY <2>1, <2>2, <2>3, <3>1, <3>2, <4>1
    <3>4. Depth(its, p) = Depth(items, p) + 1
      BY <2>0, <3>3, FS_AddElement DEF Depth
    <3>5. r # p
      BY <1>7, <2>4 DEF Headed
    <3> QED BY <2>4, <3>4, <3>5
  <2>5. CASE r # h
    <3>1. b = p => n - 1 \in Begun(items, p)
      <4> SUFFICES ASSUME b = p, front[n - 1].vals = <<>> PROVE FALSE
        BY <2>3
      <4>1. rhs(p)[1] = lhs(r)
        BY <1>6
      <4> QED BY <1>1, <1>7, <2>5, <4>1 DEF Headed
    <3>2. Begun(its, p) = Begun(items, p) \ {n}
      BY <1>1, <2>1, <3>1
    <3>3. CASE r = p
      <4>1. v # <<>>
        BY <1>1, <1>7, <3>3 DEF Headed
      <4>2. n \in Begun(items, p)
        BY <2>2, <3>3, <4>1
      <4>3. Cardinality(Begun(items, p) \ {n}) = Cardinality(Begun(items, p)) - 1
        BY <2>0, <4>2, FS_RemoveElement
      <4>4. Depth(items, p) # 0
        BY <2>0, <4>2, FS_EmptySet DEF Depth
      <4> QED BY <2>0, <2>5, <3>2, <3>3, <4>3, <4>4 DEF Depth
    <3>4. CASE r # p
      BY <2>2, <2>5, <3>2, <3>4 DEF Depth
    <3> QED BY <3>3, <3>4
  <2> QED BY <2>4, <2>5
<1> QED BY <1>4, <1>7 DEF its, front
----------------------------------------------------------------------------
(***************************************************************************)
(* Stacks of addresses, and the code.                                      *)
(***************************************************************************)

\* What a push makes of a stack: the elements, and whether they are distinct.
LEMMA Pushed ==
  ASSUME NEW S, NEW s \in Seq(S), NEW e \in S
  PROVE  /\ Append(s, e) \in Seq(S) /\ Len(Append(s, e)) = Len(s) + 1
         /\ Append(s, e) # <<>> /\ Last(Append(s, e)) = e
         /\ ToSet(Append(s, e)) = ToSet(s) \cup {e}
         /\ IsInjective(s) /\ e \notin ToSet(s) => IsInjective(Append(s, e))
<1> DEFINE t == Append(s, e)
<1>1. /\ t \in Seq(S) /\ Len(t) = Len(s) + 1 /\ DOMAIN t = 1..Len(t) /\ DOMAIN s = 1..Len(s)
      /\ Len(s) \in Nat
      /\ \A k \in 1..Len(s) : t[k] = s[k]
      /\ t[Len(s) + 1] = e
  OBVIOUS
<1>2. \A k \in 1..Len(t) : k \in 1..Len(s) \/ k = Len(s) + 1
  BY <1>1
<1> HIDE DEF t
<1>3. ToSet(t) = ToSet(s) \cup {e}
  BY <1>1, <1>2 DEF ToSet
<1>4. IsInjective(s) /\ e \notin ToSet(s) => IsInjective(t)
  BY <1>1, <1>2 DEF IsInjective, ToSet
<1>5. Last(t) = e /\ t # <<>>
  BY <1>1 DEF Last
<1> QED BY <1>1, <1>3, <1>4, <1>5 DEF t

\* What a pop makes of a stack.
LEMMA Popped ==
  ASSUME NEW S, NEW s \in Seq(S), s # <<>>
  PROVE  /\ Front(s) \in Seq(S) /\ Len(Front(s)) = Len(s) - 1
         /\ Last(s) \in S /\ Last(s) \in ToSet(s)
         /\ \A k \in 1..(Len(s) - 1) : Front(s)[k] = s[k]
         /\ IsInjective(s) => IsInjective(Front(s)) /\ ToSet(Front(s)) = ToSet(s) \ {Last(s)}
<1> DEFINE t == Front(s)
<1>1. /\ t \in Seq(S) /\ Len(t) = Len(s) - 1 /\ DOMAIN t = 1..Len(t) /\ DOMAIN s = 1..Len(s)
      /\ Len(s) \in Nat /\ Len(s) \in DOMAIN s
      /\ \A k \in 1..(Len(s) - 1) : t[k] = s[k] /\ k \in DOMAIN s /\ k # Len(s)
      /\ Last(s) = s[Len(s)]
  <2>1. Len(s) \in Nat /\ Len(s) >= 1 /\ DOMAIN s = 1..Len(s)
    OBVIOUS
  <2>2. t = SubSeq(s, 1, Len(s) - 1)
    BY DEF Front
  <2>3. t \in Seq(S) /\ Len(t) = Len(s) - 1 /\ \A k \in 1..(Len(s) - 1) : t[k] = s[k]
    BY <2>1, <2>2
  <2> HIDE DEF t
  <2>4. DOMAIN t = 1..Len(t)
    BY <2>3
  <2>5. \A k \in 1..(Len(s) - 1) : k \in 1..Len(s) /\ k # Len(s)
    <3>1. \A n \in Nat : \A k \in 1..(n - 1) : k \in 1..n /\ k # n
      OBVIOUS
    <3> QED BY <2>1, <3>1
  <2>6. Len(s) \in 1..Len(s)
    BY <2>1
  <2> QED BY <2>1, <2>3, <2>4, <2>5, <2>6, Zenon DEF Last
<1>2. \A k \in DOMAIN s : k \in 1..(Len(s) - 1) \/ k = Len(s)
  BY <1>1
<1> HIDE DEF t
<1>3. Last(s) \in S /\ Last(s) \in ToSet(s)
  BY <1>1 DEF ToSet
<1>4. ASSUME IsInjective(s) PROVE IsInjective(t) /\ ToSet(t) = ToSet(s) \ {Last(s)}
  <2>1. IsInjective(t)
    BY <1>1, <1>4 DEF IsInjective
  <2>2. ASSUME NEW k \in DOMAIN t PROVE t[k] \in ToSet(s) \ {Last(s)}
    BY <1>1, <1>4 DEF IsInjective, ToSet
  <2>3. ASSUME NEW k \in DOMAIN s, s[k] # Last(s) PROVE s[k] \in ToSet(t)
    BY <1>1, <1>2, <2>3 DEF ToSet
  <2>4. ToSet(t) = {t[k] : k \in DOMAIN t} /\ ToSet(s) = {s[k] : k \in DOMAIN s}
    BY DEF ToSet
  <2>5. ToSet(t) = ToSet(s) \ {Last(s)}
    BY <2>2, <2>3, <2>4
  <2> QED BY <2>1, <2>5
<1> QED BY <1>1, <1>3, <1>4 DEF t

\* Two stacks, one behind the other, hold distinct elements if each of them does
\* and they share none.
LEMMA Joined ==
  ASSUME NEW S, NEW s \in Seq(S), NEW t \in Seq(S)
  PROVE  /\ s \o t \in Seq(S)
         /\ ToSet(s \o t) = ToSet(s) \cup ToSet(t)
         /\ IsInjective(s \o t) <=>
              IsInjective(s) /\ IsInjective(t) /\ ToSet(s) \cap ToSet(t) = {}
<1> DEFINE u == s \o t
<1>1. /\ u \in Seq(S) /\ Len(u) = Len(s) + Len(t) /\ DOMAIN u = 1..Len(u)
      /\ DOMAIN s = 1..Len(s) /\ DOMAIN t = 1..Len(t) /\ Len(s) \in Nat /\ Len(t) \in Nat
      /\ \A k \in 1..Len(s) : u[k] = s[k]
      /\ \A k \in 1..Len(t) : u[Len(s) + k] = t[k]
  OBVIOUS
<1>2. \A k \in 1..Len(u) : k \in 1..Len(s) \/ (k - Len(s) \in 1..Len(t) /\ k = Len(s) + (k - Len(s)))
  BY <1>1
<1>3. \A k \in 1..Len(s) : k \in 1..Len(u)
  BY <1>1
<1>4. \A k \in 1..Len(t) : Len(s) + k \in 1..Len(u) /\ Len(s) + k \notin 1..Len(s)
  BY <1>1
<1> HIDE DEF u
<1>5. ToSet(u) = ToSet(s) \cup ToSet(t)
  <2>1. ASSUME NEW k \in 1..Len(u) PROVE u[k] \in ToSet(s) \cup ToSet(t)
    BY <1>1, <1>2 DEF ToSet
  <2>2. ASSUME NEW k \in 1..Len(s) PROVE s[k] \in ToSet(u)
    BY <1>1, <1>3 DEF ToSet
  <2>3. ASSUME NEW k \in 1..Len(t) PROVE t[k] \in ToSet(u)
    BY <1>1, <1>4 DEF ToSet
  <2> QED BY ZenonT(60), <1>1, <2>1, <2>2, <2>3 DEF ToSet
<1>6. ASSUME IsInjective(u) PROVE IsInjective(s) /\ IsInjective(t) /\ ToSet(s) \cap ToSet(t) = {}
  <2>1. IsInjective(s)
    BY <1>1, <1>3, <1>6 DEF IsInjective
  <2>2. IsInjective(t)
    <3> SUFFICES ASSUME NEW a \in DOMAIN t, NEW b \in DOMAIN t, t[a] = t[b] PROVE a = b
      BY DEF IsInjective
    <3>1. Len(s) + a = Len(s) + b
      BY <1>1, <1>4, <1>6 DEF IsInjective
    <3> QED BY <1>1, <3>1
  <2>3. ToSet(s) \cap ToSet(t) = {}
    <3> SUFFICES ASSUME NEW a \in DOMAIN s, NEW b \in DOMAIN t, s[a] = t[b] PROVE FALSE
      BY DEF ToSet
    <3>1. a = Len(s) + b
      BY <1>1, <1>3, <1>4, <1>6 DEF IsInjective
    <3> QED BY <1>1, <1>4, <3>1
  <2> QED BY <2>1, <2>2, <2>3
<1>7. ASSUME IsInjective(s), IsInjective(t), ToSet(s) \cap ToSet(t) = {} PROVE IsInjective(u)
  <2> SUFFICES ASSUME NEW a \in 1..Len(u), NEW b \in 1..Len(u), u[a] = u[b] PROVE a = b
    BY <1>1 DEF IsInjective
  <2>1. CASE a \in 1..Len(s) /\ b \in 1..Len(s)
    BY <1>1, <1>7, <2>1 DEF IsInjective
  <2>2. CASE a \notin 1..Len(s) /\ b \notin 1..Len(s)
    <3>1. /\ a - Len(s) \in 1..Len(t) /\ b - Len(s) \in 1..Len(t)
          /\ u[a] = t[a - Len(s)] /\ u[b] = t[b - Len(s)]
      BY <1>1, <1>2, <2>2
    <3>2. a - Len(s) = b - Len(s)
      BY <1>1, <1>7, <3>1 DEF IsInjective
    <3> QED BY <1>1, <3>2
  <2>3. CASE a \in 1..Len(s) /\ b \notin 1..Len(s)
    <3>1. u[a] \in ToSet(s) /\ u[b] \in ToSet(t)
      BY <1>1, <1>2, <2>3 DEF ToSet
    <3> QED BY <1>7, <3>1
  <2>4. CASE a \notin 1..Len(s) /\ b \in 1..Len(s)
    <3>1. u[b] \in ToSet(s) /\ u[a] \in ToSet(t)
      BY ZenonT(60), <1>1, <1>2, <2>4 DEF ToSet
    <3> QED BY <1>7, <3>1
  <2> QED BY <2>1, <2>2, <2>3, <2>4
<1> QED BY <1>1, <1>5, <1>6, <1>7 DEF u

InstTypes == {"LIT", "LOD", "STO", "CAL", "INT", "JMP", "JPC", "OPR"}
Instructions == [type : InstTypes, l : Int, a : Int]

\* Where code lacks an operand.
Blank(i) == i.type \in {"INT", "JMP", "JPC"} /\ i.a = 0
Blanks(c) == {a \in 0..(Len(c) - 1) : Blank(c[a + 1])}

\* Code in which nothing is to be filled in.
Solid(e) == e \in Seq(Instructions) /\ \A k \in 1..Len(e) : ~Blank(e[k])

\* The blanks of code that is appended to are those of both parts.
LEMMA Appended ==
  ASSUME NEW c \in Seq(Instructions), NEW e \in Seq(Instructions)
  PROVE  /\ c \o e \in Seq(Instructions) /\ Len(c \o e) = Len(c) + Len(e)
         /\ Blanks(c) \subseteq 0..(Len(c) - 1)
         /\ Blanks(c \o e) = Blanks(c) \cup {Len(c) + k : k \in Blanks(e)}
<1> DEFINE d == c \o e
<1>1. /\ d \in Seq(Instructions) /\ Len(d) = Len(c) + Len(e) /\ Len(c) \in Nat /\ Len(e) \in Nat
      /\ \A k \in 1..Len(c) : d[k] = c[k]
      /\ \A k \in 1..Len(e) : d[Len(c) + k] = e[k]
  OBVIOUS
<1> HIDE DEF d
<1>2. \A a \in 0..(Len(c) - 1) : d[a + 1] = c[a + 1] /\ a \in 0..(Len(d) - 1)
  BY <1>1
<1>3. \A k \in 0..(Len(e) - 1) : /\ d[Len(c) + k + 1] = e[k + 1]
                                 /\ Len(c) + k \in 0..(Len(d) - 1)
  <2> SUFFICES ASSUME NEW k \in 0..(Len(e) - 1)
               PROVE  d[Len(c) + k + 1] = e[k + 1] /\ Len(c) + k \in 0..(Len(d) - 1)
    OBVIOUS
  <2>1. k + 1 \in 1..Len(e) /\ Len(c) + (k + 1) = Len(c) + k + 1
    BY <1>1
  <2>2. d[Len(c) + (k + 1)] = e[k + 1]
    BY <1>1, <2>1
  <2> QED BY <1>1, <2>1, <2>2
<1>4. \A a \in 0..(Len(d) - 1) :
        a \in 0..(Len(c) - 1) \/ \E k \in 0..(Len(e) - 1) : a = Len(c) + k
  <2> SUFFICES ASSUME NEW a \in 0..(Len(d) - 1), a \notin 0..(Len(c) - 1)
               PROVE  \E k \in 0..(Len(e) - 1) : a = Len(c) + k
    OBVIOUS
  <2>1. a - Len(c) \in 0..(Len(e) - 1) /\ a = Len(c) + (a - Len(c))
    BY <1>1
  <2> QED BY <2>1
<1>5. Blanks(d) \subseteq Blanks(c) \cup {Len(c) + k : k \in Blanks(e)}
  BY <1>2, <1>3, <1>4 DEF Blanks
<1>6. Blanks(c) \subseteq Blanks(d)
  BY <1>2 DEF Blanks
<1>7. {Len(c) + k : k \in Blanks(e)} \subseteq Blanks(d)
  BY <1>3 DEF Blanks
<1>8. Blanks(c) \subseteq 0..(Len(c) - 1)
  BY DEF Blanks
<1> QED BY <1>1, <1>5, <1>6, <1>7, <1>8 DEF d

\* Code that lacks nothing adds no blanks.
LEMMA AppendedSolid ==
  ASSUME NEW c \in Seq(Instructions), NEW e, Solid(e)
  PROVE  /\ c \o e \in Seq(Instructions) /\ Len(c \o e) = Len(c) + Len(e) /\ Len(e) \in Nat
         /\ Blanks(c \o e) = Blanks(c)
<1>1. Blanks(e) = {}
  <2>1. Len(e) \in Nat
    BY DEF Solid
  <2>2. \A a \in 0..(Len(e) - 1) : a + 1 \in 1..Len(e)
    BY <2>1
  <2> QED BY <2>2 DEF Blanks, Solid
<1>2. e \in Seq(Instructions)
  BY DEF Solid
<1>3. {Len(c) + k : k \in Blanks(e)} = {}
  BY <1>1
<1>4. Len(e) \in Nat
  BY <1>2
<1>5. Blanks(c \o e) = Blanks(c) \cup {Len(c) + k : k \in Blanks(e)}
  BY <1>2, Appended
<1>6. c \o e \in Seq(Instructions) /\ Len(c \o e) = Len(c) + Len(e)
  BY <1>2, Appended
<1> QED BY <1>3, <1>4, <1>5, <1>6

\* Filling in an operand that is not 0 takes one blank away, and nothing else.
LEMMA Filled ==
  ASSUME NEW c \in Seq(Instructions), NEW a \in 0..(Len(c) - 1), NEW x \in Int
  PROVE  LET d == Backfill(c, a, x)
         IN  /\ d \in Seq(Instructions) /\ Len(d) = Len(c)
             /\ d[a + 1].type = c[a + 1].type /\ d[a + 1].l = c[a + 1].l /\ d[a + 1].a = x
             /\ \A b \in 0..(Len(c) - 1) : b # a => d[b + 1] = c[b + 1]
             /\ x # 0 => Blanks(d) = Blanks(c) \ {a}
<1> DEFINE d == Backfill(c, a, x)
           i == inst_t(c[a + 1].type, c[a + 1].l, x)
<1>1. a + 1 \in 1..Len(c) /\ Len(c) \in Nat
  OBVIOUS
<1>2. c[a + 1] \in Instructions
  BY <1>1
<1>3. i \in Instructions /\ i.type = c[a + 1].type /\ i.l = c[a + 1].l /\ i.a = x
  BY <1>2 DEF Instructions, inst_t
<1>4. [c[a + 1] EXCEPT !.a = x] = i
  <2> DEFINE it == c[a + 1]
  <2>1. it \in [type : InstTypes, l : Int, a : Int]
    BY <1>2 DEF Instructions
  <2> HIDE DEF it
  <2>2. [it EXCEPT !.a = x] = [type |-> it.type, l |-> it.l, a |-> x]
    BY <2>1
  <2> QED BY <2>2 DEF it, inst_t
<1>5. d = [c EXCEPT ![a + 1] = i]
  <2>1. d = [c EXCEPT ![a + 1] = [c[a + 1] EXCEPT !.a = x]]
    BY DEF Backfill
  <2> HIDE DEF i
  <2> QED BY <1>4, <2>1
<1> HIDE DEF d, i
<1>6. /\ d \in Seq(Instructions) /\ Len(d) = Len(c) /\ d[a + 1] = i
      /\ \A k \in 1..Len(c) : k # a + 1 => d[k] = c[k]
  BY <1>1, <1>3, <1>5
<1>7. \A b \in 0..(Len(c) - 1) : b # a => d[b + 1] = c[b + 1]
  BY <1>1, <1>6
<1>8. x # 0 => Blanks(d) = Blanks(c) \ {a}
  BY <1>1, <1>3, <1>6, <1>7 DEF Blanks, Blank
<1> QED BY <1>3, <1>6, <1>7, <1>8 DEF d

----------------------------------------------------------------------------
(***************************************************************************)
(* The symbol table, and the code emitted from it.                         *)
(***************************************************************************)

\* Assembler's instance of the symbol table and the one the theorems are about
\* are the same.
LEMMA SameQueries ==
  /\ \A name : Symbol!findEntry(name) = Table!findEntry(name)
  /\ \A name : Symbol!isDuplicated(name) = Table!isDuplicated(name)
  /\ Symbol!countLayerSize = Table!countLayerSize
<1>1. ASSUME NEW name PROVE Symbol!Homonyms(name) = Table!Homonyms(name)
  BY DEF Symbol!Homonyms, Table!Homonyms, Symbol!depth, Table!depth
<1>2. ASSUME NEW hits PROVE Symbol!FirstOf(hits) = Table!FirstOf(hits)
  BY DEF Symbol!FirstOf, Table!FirstOf
<1>3. ASSUME NEW name PROVE Symbol!findEntry(name) = Table!findEntry(name)
  BY <1>1, <1>2 DEF Symbol!findEntry, Table!findEntry, Symbol!NotFound, Table!NotFound,
       Symbol!depth, Table!depth
<1>4. ASSUME NEW name PROVE Symbol!isDuplicated(name) = Table!isDuplicated(name)
  BY <1>3 DEF Symbol!isDuplicated, Table!isDuplicated
<1>5. Symbol!countLayerSize = Table!countLayerSize
  <2>1. ASSUME NEW l PROVE Symbol!VariablesOf(l) = Table!VariablesOf(l)
    BY DEF Symbol!VariablesOf, Table!VariablesOf
  <2>2. Symbol!Layer = Table!Layer
    BY DEF Symbol!Layer, Table!Layer, Symbol!depth, Table!depth
  <2>3. Symbol!VariablesOf(Symbol!Layer) = Table!VariablesOf(Table!Layer)
    BY <2>1, <2>2
  <2>4. ASSUME NEW S PROVE Symbol!Cardinality(S) = Table!Cardinality(S)
    BY DEF Symbol!Cardinality, Table!Cardinality
  <2> QED BY <2>3, <2>4 DEF Symbol!countLayerSize, Table!countLayerSize
<1> QED BY <1>3, <1>4, <1>5

\* The updates of the table the theorems are about are those of the compiler's.
LEMMA SameUpdates ==
  /\ \A name, first : Symbol!insertVariable(name, first) <=> Table!insertVariable(name, first)
  /\ \A name, value : Symbol!insertConstant(name, value) <=> Table!insertConstant(name, value)
  /\ \A name, a : Symbol!insertProcedure(name, a) <=> Table!insertProcedure(name, a)
  /\ Symbol!ascend <=> Table!ascend
  /\ Symbol!Init <=> Table!Init
<1>1. ASSUME NEW name, NEW first
      PROVE  Symbol!insertVariable(name, first) <=> Table!insertVariable(name, first)
  BY SameQueries DEF Symbol!insertVariable, Table!insertVariable, Symbol!BehindCur, Table!BehindCur,
       Symbol!SlotBehindCur, Table!SlotBehindCur, Symbol!depth, Table!depth,
       Symbol!Layer, Table!Layer, Symbol!vars, Table!vars
<1>2. ASSUME NEW name, NEW value
      PROVE  Symbol!insertConstant(name, value) <=> Table!insertConstant(name, value)
  BY SameQueries DEF Symbol!insertConstant, Table!insertConstant, Symbol!AtHead, Table!AtHead,
       Symbol!depth, Table!depth, Symbol!vars, Table!vars
<1>3. ASSUME NEW name, NEW a
      PROVE  Symbol!insertProcedure(name, a) <=> Table!insertProcedure(name, a)
  BY SameQueries DEF Symbol!insertProcedure, Table!insertProcedure, Symbol!AtHead, Table!AtHead,
       Symbol!depth, Table!depth, Symbol!vars, Table!vars
<1>4. Symbol!ascend <=> Table!ascend
  BY DEF Symbol!ascend, Table!ascend, Symbol!depth, Table!depth, Symbol!vars, Table!vars
<1>5. Symbol!Init <=> Table!Init
  BY DEF Symbol!Init, Table!Init
<1> QED BY <1>1, <1>2, <1>3, <1>4, <1>5

\* The compiler's table is an instance for which the theorems hold.
LEMMA TableAssumptions == Table!SymbolManagerAssumption
BY AssemblerAssumption DEF Table!SymbolManagerAssumption

\* What a name is found to be.
LEMMA NamesFound ==
  ASSUME Table!IInv, NEW name, NEW types, Found(name, types)
  PROVE  LET f == Symbol!findEntry(name)
         IN  f.level \in Nat /\ f.entry \in Table!Entries /\ f.entry.type \in types
<1>1. Table!TypeOK
  BY DEF Table!IInv
<1>2. Table!findEntry(name) = Table!NotFound \/
        /\ Table!findEntry(name).level \in 0..(Table!depth - 1)
        /\ Table!findEntry(name).entry \in Table!Entries
  BY <1>1, TableAssumptions, Table!FindsClosest
<1>3. Symbol!findEntry(name).level >= 0 /\ Symbol!findEntry(name).entry.type \in types
  BY DEF Found
<1>4. Table!NotFound.level = -1
  BY DEF Table!NotFound
<1> QED BY <1>2, <1>3, <1>4, SameQueries

\* Calls, loads and stores lack no operand (Assembler.h:104-139).
LEMMA AccessInstructions ==
  ASSUME Table!IInv, NEW name, NEW type \in {"LOD", "STO", "CAL"},
         NEW types \in SUBSET {"VARIABLE", "PROCEDURE"}, Found(name, types)
  PROVE  Solid(<<Access(type, name)>>)
<1> DEFINE f == Symbol!findEntry(name)
<1>1. f.level \in Nat /\ f.entry \in Table!Entries /\ f.entry.type \in {"VARIABLE", "PROCEDURE"}
  BY NamesFound
<1>2. f.entry.address \in Int
  BY <1>1 DEF Table!Entries, Table!Constants, Table!Variables, Table!Procedures
<1>3. Access(type, name) = inst_t(type, f.level, f.entry.address)
  BY DEF Access
<1> HIDE DEF f
<1>4. Access(type, name) \in Instructions /\ Access(type, name).type = type
  BY <1>1, <1>2, <1>3 DEF inst_t, Instructions, InstTypes
<1> QED BY <1>4 DEF Solid, Blank

\* Neither do the literals (Assembler.h:141) ...
LEMMA Literals ==
  ASSUME NEW number \in Int
  PROVE  Solid(load_number(number))
BY DEF load_number, inst_t, Solid, Blank, Instructions, InstTypes

\* ... nor no code at all ...
LEMMA NoCode == Solid(<<>>)
BY DEF Solid

\* ... nor operations (Assembler.h:171).
LEMMA Operations ==
  ASSUME NEW id \in Int
  PROVE  Solid(insert_opr(id))
<1>1. Solid(<<inst_t("OPR", 0, id)>>)
  BY DEF inst_t, Solid, Blank, Instructions, InstTypes
<1> QED BY <1>1, NoCode DEF insert_opr

\* Two pieces of code that lack nothing lack nothing together.
LEMMA SolidJoined ==
  ASSUME NEW c, NEW d, Solid(c), Solid(d)
  PROVE  Solid(c \o d)
<1>1. c \in Seq(Instructions) /\ d \in Seq(Instructions)
  BY DEF Solid
<1>2. Blanks(c \o d) = Blanks(c) \cup {Len(c) + k : k \in Blanks(d)} /\ c \o d \in Seq(Instructions)
  BY <1>1, Appended
<1>3. \A k \in 1..Len(c \o d) : k \in 1..Len(c) \/ (k - Len(c) \in 1..Len(d) /\ k = Len(c) + (k - Len(c)))
  BY <1>1
<1>4. \A k \in 1..Len(c) : (c \o d)[k] = c[k]
  BY <1>1
<1>5. \A k \in 1..Len(d) : (c \o d)[Len(c) + k] = d[k]
  BY <1>1
<1>6. ASSUME NEW k \in 1..Len(c \o d) PROVE ~Blank((c \o d)[k])
  BY <1>3, <1>4, <1>5 DEF Solid
<1> QED BY <1>2, <1>6 DEF Solid

\* What a name is used for emits code that lacks nothing, whether the name is
\* found or not (Assembler.h:104-169).
LEMMA NamesLoaded ==
  ASSUME Table!IInv, NEW name
  PROVE  /\ Solid(call_proc(name)) /\ Solid(load_id(name)) /\ Solid(store_id(name))
         /\ Solid(read_id(name)) /\ Solid(write_id(name))
<1>1. Solid(call_proc(name))
  BY NoCode, AccessInstructions DEF call_proc
<1>2. Solid(load_id(name))
  <2>1. CASE Found(name, {"CONSTANT"})
    <3>1. Symbol!findEntry(name).entry \in Table!Entries
             /\ Symbol!findEntry(name).entry.type \in {"CONSTANT"}
      BY <2>1, NamesFound
    <3>2. Symbol!findEntry(name).entry.value \in Int
      BY <3>1, AssemblerAssumption
         DEF Table!Entries, Table!Constants, Table!Variables, Table!Procedures
    <3> QED BY <2>1, <3>2, Literals DEF load_id
  <2>2. CASE ~Found(name, {"CONSTANT"})
    BY <2>2, NoCode, AccessInstructions DEF load_id
  <2> QED BY <2>1, <2>2
<1>3. Solid(store_id(name))
  BY NoCode, AccessInstructions DEF store_id
<1>4. Solid(insert_opr(OPR_RD)) /\ Solid(insert_opr(OPR_WR))
  BY Operations DEF OPR_RD, OPR_WR
<1>5. Solid(read_id(name))
  BY <1>3, <1>4, NoCode, SolidJoined DEF read_id
<1>6. Solid(write_id(name))
  BY <1>2, <1>4, NoCode, SolidJoined DEF write_id
<1> QED BY <1>1, <1>2, <1>3, <1>5, <1>6
----------------------------------------------------------------------------
(***************************************************************************)
(* The inductive invariant.                                                *)
(***************************************************************************)

BodyEntries == [jmp_inst : Nat, proc_body : Nat \ {0}]
JmpsOf(pbbs) == [k \in DOMAIN pbbs |-> pbbs[k].jmp_inst]

StacksTyped ==
  /\ code \in Seq(Instructions) /\ length >= 2
  /\ proc_int_backfill \in Seq(Nat)
  /\ if_not_backfill \in Seq(Nat)
  /\ while_not_backfill \in Seq(Nat)
  /\ while_entry_backfill \in Seq(Nat \ {0})
  /\ proc_body_backfill \in Seq(BodyEntries)

\* The stacks are as deep as the rules they belong to are nested.  A lexical
\* error leaves one entry too many for procedures.
StacksDeep ==
  /\ lexErrors \in Nat
  /\ Len(if_not_backfill) = Depth(items, "CONDITION")
  /\ Len(while_not_backfill) = Depth(items, "WHILE")
  /\ Len(while_entry_backfill) = Depth(items, "WHILE") + Depth(items, "WHILEHEADER")
  /\ Len(proc_int_backfill) = 1 + lexErrors + Depth(items, "PROC")
  /\ Len(proc_body_backfill) = 1 + lexErrors + Depth(items, "PROC")

\* Stacks that hold the addresses of c where an operand is missing, each once.
Queues(P, F, W, J, c) ==
  /\ IsInjective(P) /\ IsInjective(F) /\ IsInjective(W) /\ IsInjective(J)
  /\ ToSet(P) \cap ToSet(F) = {} /\ ToSet(P) \cap ToSet(W) = {}
  /\ ToSet(P) \cap ToSet(J) = {} /\ ToSet(F) \cap ToSet(W) = {}
  /\ ToSet(F) \cap ToSet(J) = {} /\ ToSet(W) \cap ToSet(J) = {}
  /\ ToSet(P) \cup ToSet(F) \cup ToSet(W) \cup ToSet(J) = Blanks(c)

AllQueued == Queues(proc_int_backfill, if_not_backfill, while_not_backfill,
                    JmpsOf(proc_body_backfill), code)

IInv == status = "parsing" =>
  OnTrack(items) /\ StacksTyped /\ StacksDeep /\ AllQueued /\ Table!IInv

\* The addresses of the JMPs form a stack of their own.
LEMMA JmpsAreStack ==
  ASSUME NEW b \in Seq(BodyEntries)
  PROVE  /\ JmpsOf(b) \in Seq(Nat) /\ Len(JmpsOf(b)) = Len(b)
         /\ \A k \in 1..Len(b) : JmpsOf(b)[k] = b[k].jmp_inst
<1>1. DOMAIN b = 1..Len(b) /\ Len(b) \in Nat /\ \A k \in 1..Len(b) : b[k] \in BodyEntries
  OBVIOUS
<1>2. \A k \in 1..Len(b) : b[k].jmp_inst \in Nat
  BY <1>1 DEF BodyEntries
<1>3. JmpsOf(b) = [k \in 1..Len(b) |-> b[k].jmp_inst]
  BY <1>1 DEF JmpsOf
<1>4. \A n \in Nat : \A f \in [1..n -> Nat] : f \in Seq(Nat) /\ Len(f) = n
  OBVIOUS
<1>5. JmpsOf(b) \in [1..Len(b) -> Nat]
  BY <1>2, <1>3
<1> QED BY <1>1, <1>3, <1>4, <1>5

\* The queued addresses lie within the code.
LEMMA QueuedAddresses ==
  ASSUME StacksTyped, AllQueued
  PROVE  /\ JmpsOf(proc_body_backfill) \in Seq(Nat)
         /\ Len(JmpsOf(proc_body_backfill)) = Len(proc_body_backfill)
         /\ ToSet(proc_int_backfill) \subseteq 0..(length - 1)
         /\ ToSet(if_not_backfill) \subseteq 0..(length - 1)
         /\ ToSet(while_not_backfill) \subseteq 0..(length - 1)
         /\ ToSet(JmpsOf(proc_body_backfill)) \subseteq 0..(length - 1)
<1>1. JmpsOf(proc_body_backfill) \in Seq(Nat) /\ Len(JmpsOf(proc_body_backfill)) = Len(proc_body_backfill)
  BY JmpsAreStack DEF StacksTyped
<1>2. Blanks(code) \subseteq 0..(length - 1)
  BY DEF Blanks, length
<1> QED BY <1>1, <1>2 DEF AllQueued, Queues

\* An entry is pushed or popped, or the procedure of the top one moves.
LEMMA JmpsPushed ==
  ASSUME NEW b \in Seq(BodyEntries), NEW e \in BodyEntries
  PROVE  JmpsOf(Append(b, e)) = Append(JmpsOf(b), e.jmp_inst)
<1> DEFINE new == Append(b, e)
<1>1. /\ DOMAIN b = 1..Len(b) /\ DOMAIN new = 1..(Len(b) + 1) /\ Len(b) \in Nat
      /\ \A k \in 1..Len(b) : new[k] = b[k]
      /\ new[Len(b) + 1] = e
      /\ \A k \in 1..(Len(b) + 1) : k \in 1..Len(b) \/ k = Len(b) + 1
  OBVIOUS
<1>2. JmpsOf(b) \in Seq(Nat) /\ Len(JmpsOf(b)) = Len(b) /\ e.jmp_inst \in Nat
  BY JmpsAreStack DEF BodyEntries
<1> HIDE DEF new
<1>3. JmpsOf(new) = [k \in 1..(Len(b) + 1) |-> new[k].jmp_inst]
  BY <1>1 DEF JmpsOf
<1>4. \A k \in 1..Len(b) : JmpsOf(b)[k] = new[k].jmp_inst
  BY <1>1 DEF JmpsOf
<1> DEFINE js == JmpsOf(b)
           j == e.jmp_inst
<1>5. Append(js, j) = [k \in 1..(Len(b) + 1) |-> IF k \in 1..Len(b) THEN js[k] ELSE j]
  <2>1. js \in Seq(Nat) /\ Len(js) = Len(b) /\ j \in Nat
    BY <1>2
  <2> HIDE DEF js, j
  <2> DEFINE longer == Append(js, j)
  <2>2. longer \in Seq(Nat) /\ Len(longer) = Len(b) + 1
    BY <2>1
  <2>3. \A k \in 1..(Len(b) + 1) : longer[k] = IF k \in 1..Len(b) THEN js[k] ELSE j
    BY <2>1
  <2> HIDE DEF longer
  <2>4. longer = [k \in 1..(Len(b) + 1) |-> longer[k]]
    BY <2>2
  <2> QED BY <2>3, <2>4 DEF longer
<1>6. \A k \in 1..(Len(b) + 1) : new[k].jmp_inst = IF k \in 1..Len(b) THEN js[k] ELSE j
  BY <1>1, <1>4
<1> QED BY <1>3, <1>5, <1>6 DEF new

\* The entry of the procedure that ends is taken off (Assembler.cpp:56).
LEMMA JmpsPopped ==
  ASSUME NEW b \in Seq(BodyEntries), b # <<>>
  PROVE  /\ Front(b) \in Seq(BodyEntries) /\ Last(b) \in BodyEntries
         /\ JmpsOf(Front(b)) = Front(JmpsOf(b))
         /\ Last(b).jmp_inst = Last(JmpsOf(b))
         /\ JmpsOf(b) # <<>>
<1>1. /\ DOMAIN b = 1..Len(b) /\ Len(b) \in Nat /\ Len(b) >= 1
      /\ JmpsOf(b) \in Seq(Nat) /\ Len(JmpsOf(b)) = Len(b)
      /\ \A k \in 1..Len(b) : JmpsOf(b)[k] = b[k].jmp_inst
  BY JmpsAreStack
<1>2. /\ Front(b) \in Seq(BodyEntries) /\ Len(Front(b)) = Len(b) - 1 /\ Last(b) \in BodyEntries
      /\ \A k \in 1..(Len(b) - 1) : Front(b)[k] = b[k]
  BY Popped
<1>3. JmpsOf(b) # <<>>
  BY <1>1
<1>4. /\ Front(JmpsOf(b)) \in Seq(Nat) /\ Len(Front(JmpsOf(b))) = Len(b) - 1
      /\ \A k \in 1..(Len(b) - 1) : Front(JmpsOf(b))[k] = JmpsOf(b)[k]
  BY <1>1, <1>3, Popped
<1>5. Last(b).jmp_inst = Last(JmpsOf(b))
  BY <1>1 DEF Last
<1>6. DOMAIN Front(b) = 1..(Len(b) - 1)
  BY <1>2
<1>7. \A k \in 1..(Len(b) - 1) : Front(b)[k].jmp_inst = Front(JmpsOf(b))[k]
  BY SMTT(60), <1>1, <1>2, <1>4
<1>8. Front(JmpsOf(b)) = [k \in 1..(Len(b) - 1) |-> Front(JmpsOf(b))[k]]
  BY <1>1, <1>4
<1>9. JmpsOf(Front(b)) = [k \in 1..(Len(b) - 1) |-> Front(b)[k].jmp_inst]
  BY <1>6 DEF JmpsOf
<1> QED BY <1>2, <1>3, <1>5, <1>7, <1>8, <1>9

\* Moving the enclosing block's entry point keeps its JMP queued (Assembler.cpp:59).
LEMMA UpperUpdated ==
  ASSUME NEW b \in Seq(BodyEntries), b # <<>>, length \in Nat
  PROVE  UpdateUpper(b) \in Seq(BodyEntries) /\ JmpsOf(UpdateUpper(b)) = JmpsOf(b)
         /\ Len(UpdateUpper(b)) = Len(b)
<1> DEFINE e == [jmp_inst |-> Last(b).jmp_inst, proc_body |-> length + 1]
<1>1. Front(b) \in Seq(BodyEntries) /\ Last(b) \in BodyEntries /\ Len(Front(b)) = Len(b) - 1
  BY JmpsPopped, Popped
<1>2. e \in BodyEntries /\ e.jmp_inst = Last(b).jmp_inst
  BY <1>1 DEF BodyEntries
<1>3. UpdateUpper(b) = Append(Front(b), e)
  BY DEF UpdateUpper
<1> HIDE DEF e
<1>4. JmpsOf(UpdateUpper(b)) = Append(JmpsOf(Front(b)), Last(b).jmp_inst)
  BY <1>1, <1>2, <1>3, JmpsPushed
<1>5. Append(Front(JmpsOf(b)), Last(JmpsOf(b))) = JmpsOf(b)
  <2> DEFINE s == JmpsOf(b)
  <2>1. s \in Seq(Nat) /\ s # <<>>
    <3>1. s \in Seq(Nat)
      BY JmpsAreStack
    <3> QED BY <3>1, JmpsPopped
  <2> HIDE DEF s
  <2>2. Append(Front(s), Last(s)) = s
    <3>1. Front(s) = SubSeq(s, 1, Len(s) - 1) /\ Last(s) = s[Len(s)]
      BY DEF Front, Last
    <3> QED BY <2>1, <3>1
  <2> QED BY <2>2 DEF s
<1>6. UpdateUpper(b) \in Seq(BodyEntries) /\ Len(UpdateUpper(b)) = Len(b)
  <2>1. Len(b) \in Nat
    OBVIOUS
  <2> QED BY <1>1, <1>2, <1>3, <2>1
<1> QED BY <1>4, <1>5, <1>6, JmpsPopped

\* Code that lacks nothing is appended, and everything else stays.
LEMMA OnlyCode ==
  ASSUME StacksTyped, AllQueued, Table!IInv, UNCHANGED <<stacks, symbols>>,
         NEW e, Solid(e), code' = code \o e
  PROVE  StacksTyped' /\ AllQueued' /\ Table!IInv'
<1>1. code' \in Seq(Instructions) /\ Len(code') >= Len(code) /\ Blanks(code') = Blanks(code)
  BY AppendedSolid DEF StacksTyped
<1>2. UNCHANGED <<proc_int_backfill, if_not_backfill, while_not_backfill, while_entry_backfill,
                  proc_body_backfill>>
  BY DEF stacks, procStacks, whileStacks
<1>3. StacksTyped'
  BY <1>1, <1>2 DEF StacksTyped, length
<1>4. AllQueued'
  BY <1>1, <1>2 DEF AllQueued, Queues
<1>5. UNCHANGED Table!vars
  BY DEF symbols, Table!vars
<1> QED BY <1>3, <1>4, <1>5, TableAssumptions, Table!StutterPreservesIInv
----------------------------------------------------------------------------
(***************************************************************************)
(* What the actions return.                                                *)
(***************************************************************************)

\* Every value has a number: an operator's is its operand.
LEMMA Descriptions == \A w \in AllValues : w.desc \in Int
<1> SUFFICES ASSUME NEW s \in Symbols, NEW w \in ValuesOf(s) PROVE w.desc \in Int
  BY DEF AllValues
<1>1. CASE w \in Tokens(s)
  BY <1>1, AssemblerAssumption DEF Tokens, symbol_t
<1>2. CASE w = nullptr
  BY <1>2 DEF nullptr, symbol_t
<1>3. CASE \E o \in Int : w = Operator(o)
  BY <1>3 DEF Operator, symbol_t
<1>4. Arithmetic \subseteq Int /\ Comparisons \subseteq Int /\ OPR_SUB \in Int /\ OPR_NOP \in Int
  BY DEF Arithmetic, Comparisons, OPR_ADD, OPR_SUB, OPR_MUL, OPR_DIV, OPR_NOP,
         OPR_CMPE, OPR_CMPNE, OPR_CMPL, OPR_CMPGE, OPR_CMPG, OPR_CMPLE
<1> QED BY <1>1, <1>2, <1>3, <1>4 DEF ValuesOf

\* Names and numbers are terminals.
LEMMA NamesAndNumbers ==
  /\ ValuesOf(ID) = {symbol_t(name, 0) : name \in Names}
  /\ ValuesOf(NUM) = {symbol_t(NUM, n) : n \in Numbers}
<1>1. "CONSTDEF" \in DOMAIN Rules
  BY RuleNames DEF Declarations
<1>2. Len(rhs("CONSTDEF")) = 3 /\ rhs("CONSTDEF")[1] = ID /\ rhs("CONSTDEF")[3] = NUM
  BY DeclarationsRules
<1>3. 1 \in DOMAIN rhs("CONSTDEF") /\ 3 \in DOMAIN rhs("CONSTDEF")
  BY <1>1, <1>2, RhsAreSequences DEF RhsIsSequence
<1>4. ID \in Symbols /\ NUM \in Symbols
  <2>1. ASSUME NEW q \in DOMAIN Rules, NEW k \in DOMAIN rhs(q) PROVE rhs(q)[k] \in Symbols
    <3> DEFINE side(p) == {Rules[p].rhs[i] : i \in DOMAIN Rules[p].rhs}
    <3>1. rhs(q)[k] \in side(q)
      BY DEF rhs
    <3>2. Symbols = Nonterminals \cup UNION {side(p) : p \in DOMAIN Rules}
      BY Zenon DEF Symbols
    <3> HIDE DEF side
    <3> QED BY <3>1, <3>2
  <2> QED BY <1>1, <1>2, <1>3, <2>1
<1>5. ID \notin Nonterminals /\ NUM \notin Nonterminals
  BY LhsInPlaceEverywhere DEF LhsInPlace, Nonterminals, lhs
<1>6. ID # NUM
  BY DEF ID, NUM
<1> QED BY <1>4, <1>5, <1>6 DEF ValuesOf, Tokens, Terminals

\* What a rule makes is no terminal.
LEMMA MadeByRules == \A q \in DOMAIN Rules : lhs(q) \notin Terminals
BY DEF Terminals, Nonterminals, lhs

\* Rules that do not stand for an operator may return the null pointer.
LEMMA NothingReturned ==
  ASSUME NEW q \in DOMAIN Rules, q \notin DOMAIN oprOf
  PROVE  nullptr \in ValuesOf(lhs(q))
<1>1. lhs(q) \notin {"Smdop", "Sasop", "Sexprop", "Srelop"}
  BY LhsInPlaceEverywhere DEF LhsInPlace, oprOf
<1> QED BY <1>1, MadeByRules DEF ValuesOf

\* The operator rules return operators (Assembler.cpp:132).
LEMMA OperatorReturned ==
  ASSUME NEW q \in DOMAIN oprOf
  PROVE  q \in DOMAIN Rules /\ Operator(oprOf[q]) \in ValuesOf(lhs(q))
<1>1. q \in DOMAIN Rules
  BY RuleNames DEF oprOf, Operators, Expressions
<1>2. CASE q \in {"AOP", "SOP"}
  <2>1. lhs(q) = "Sasop" /\ oprOf[q] \in Arithmetic
    BY <1>2, OperatorsRules DEF oprOf, Arithmetic
  <2> QED BY <1>1, <2>1, MadeByRules DEF ValuesOf
<1>3. CASE q \in {"MOP", "DOP"}
  <2>1. lhs(q) = "Smdop" /\ oprOf[q] \in Arithmetic
    BY <1>3, ExpressionsRules DEF oprOf, Arithmetic
  <2> QED BY <1>1, <2>1, MadeByRules DEF ValuesOf
<1>4. CASE q \in {"NEXPROP", "PEXPROP"}
  <2>1. lhs(q) = "Sexprop" /\ oprOf[q] \in {OPR_SUB, OPR_NOP}
    BY <1>4, ExpressionsRules DEF oprOf
  <2> QED BY <1>1, <2>1, MadeByRules DEF ValuesOf
<1>5. CASE q \in {"EQOP", "LOP", "LEOP", "GOP", "GEOP", "NEOP"}
  <2>1. lhs(q) = "Srelop" /\ oprOf[q] \in Comparisons
    BY <1>5, OperatorsRules DEF oprOf, Comparisons
  <2> QED BY <1>1, <2>1, MadeByRules DEF ValuesOf
<1>6. q \in {"AOP", "SOP"} \cup {"MOP", "DOP"} \cup {"NEXPROP", "PEXPROP"}
             \cup {"EQOP", "LOP", "LEOP", "GOP", "GEOP", "NEOP"}
  BY DEF oprOf
<1> QED BY <1>1, <1>2, <1>3, <1>4, <1>5, <1>6

\* The values of a right-hand side that is complete.
LEMMA ValuesComplete ==
  ASSUME OnTrack(items), Complete
  PROVE  /\ r \in DOMAIN Rules /\ Len(v) = Len(rhs(r))
         /\ \A j \in 1..Len(rhs(r)) : v[j] \in ValuesOf(rhs(r)[j]) /\ v[j].desc \in Int
<1>1. /\ r \in DOMAIN Rules /\ Len(v) = Len(rhs(r)) /\ Len(v) \in Nat
      /\ v \in Seq(AllValues)
      /\ \A j \in 1..Len(v) : v[j] \in ValuesOf(rhs(r)[j])
  BY Innermost
<1>2. \A j \in 1..Len(v) : v[j] \in AllValues
  BY <1>1
<1> QED BY <1>1, <1>2, Descriptions

\* An operand hands on the operator it was followed by (Assembler.cpp:139).
LEMMA HandedOnReturned ==
  ASSUME OnTrack(items), Complete,
         r \in {"OPTFACTOR", "OPTEXPRITEM", "FEXPRITEM", "EXPR", "EXPRITEM"}
  PROVE  HandedOn \in ValuesOf(lhs(r))
<1>1. CASE r \in {"EXPR", "EXPRITEM"}
  <2>1. r \in DOMAIN Rules /\ r \notin DOMAIN oprOf
    BY <1>1, ValuesComplete DEF oprOf
  <2> QED BY <1>1, <2>1, NothingReturned DEF HandedOn
<1>2. CASE r \in {"OPTFACTOR", "OPTEXPRITEM", "FEXPRITEM"}
  <2>1. /\ lhs(r) \in {"Soptfactor", "Soptexpritem"} /\ Len(rhs(r)) = 3
        /\ rhs(r)[3] \in {"Smdop", "Sasop"} /\ HandedOn = Operator(v[3].desc)
    BY <1>2, ExpressionsRules DEF HandedOn
  <2>2. lhs("MOP") = "Smdop" /\ lhs("AOP") = "Sasop" /\ "MOP" \in DOMAIN Rules /\ "AOP" \in DOMAIN Rules
    BY ExpressionsRules, OperatorsRules, RuleNames DEF Expressions, Operators
  <2>3. rhs(r)[3] \notin Terminals
    BY <2>1, <2>2, MadeByRules
  <2>4. v[3] \in {Operator(o) : o \in Arithmetic}
    BY <2>1, <2>3, ValuesComplete DEF ValuesOf
  <2>5. Operator(v[3].desc) = v[3]
    BY <2>4 DEF Operator, symbol_t
  <2>6. r \in DOMAIN Rules
    BY ValuesComplete
  <2> QED BY <2>1, <2>4, <2>5, <2>6, MadeByRules DEF ValuesOf
<1> QED BY <1>1, <1>2

\* Rule p has one more item that has its header when rule h is reduced, and one
\* less when it is reduced itself.
Change(p, h) == IF r = h THEN 1 ELSE IF r = p THEN -1 ELSE 0

Tracked ==
  /\ OnTrack(items') /\ lexErrors' = lexErrors
  /\ Depth(items', "PROC") = Depth(items, "PROC") + Change("PROC", "PROCH")
  /\ Depth(items', "CONDITION") = Depth(items, "CONDITION") + Change("CONDITION", "CONDHEADER")
  /\ Depth(items', "WHILE") = Depth(items, "WHILE") + Change("WHILE", "WHILEHEADER")
  /\ Depth(items', "WHILEHEADER")
       = Depth(items, "WHILEHEADER") + Change("WHILEHEADER", "WHILEFLAG")

\* The rules that are reduced below an item of theirs have one.
HasDepth ==
  \A p \in {"PROC", "CONDITION", "WHILE", "WHILEHEADER"} :
    Depth(items, p) \in Nat /\ (r = p /\ Complete => Depth(items, p) > 0)

\* A rule that is reduced and has a header counts itself.
LEMMA DepthsAreNatural ==
  ASSUME OnTrack(items)
  PROVE  HasDepth
<1> SUFFICES ASSUME NEW p \in {"PROC", "CONDITION", "WHILE", "WHILEHEADER"}
             PROVE  Depth(items, p) \in Nat /\ (r = p /\ Complete => Depth(items, p) > 0)
  BY DEF HasDepth
<1>1. IsFiniteSet(Begun(items, p)) /\ Depth(items, p) \in Nat
  BY BegunIsFinite DEF Depth
<1>2. ASSUME r = p, Complete PROVE Depth(items, p) > 0
  <2>1. Len(rhs(p)) > 0
    BY HeadedRules DEF Headed
  <2>2. /\ Len(items) \in Nat /\ Len(items) >= 1 /\ r = items[Len(items)].rule
        /\ v = items[Len(items)].vals /\ Len(v) = Len(rhs(r)) /\ v \in Seq(AllValues)
    BY <1>2, Innermost
  <2>3. v # <<>>
    BY <1>2, <2>1, <2>2
  <2>4. Len(items) \in Begun(items, p)
    BY <1>2, <2>2, <2>3 DEF Begun
  <2>5. Depth(items, p) # 0
    BY <1>1, <2>4, FS_EmptySet DEF Depth
  <2> QED BY <1>1, <2>5
<1> QED BY <1>1, <1>2

\* A reduction changes the depths by its own rule only.
LEMMA AfterReturn ==
  ASSUME OnTrack(items), Complete, r # "PL0", NEW value \in ValuesOf(lhs(r)), Return(value)
  PROVE  Tracked /\ status' = status
<1> DEFINE its == Recognized(Front(items), value)
<1>1. items' = its /\ status' = status /\ lexErrors' = lexErrors
  BY DEF Return, automaton
<1>2. /\ OnTrack(its)
      /\ \A p, h : Headed(p, h) =>
           /\ r = h => Depth(its, p) = Depth(items, p) + 1
           /\ r = p => Depth(its, p) = Depth(items, p) - 1 /\ Depth(items, p) > 0
           /\ r # h /\ r # p => Depth(its, p) = Depth(items, p)
  BY Reduced
<1> HIDE DEF its
<1>3. HasDepth
  BY DepthsAreNatural
<1>4. ASSUME NEW p \in {"PROC", "CONDITION", "WHILE", "WHILEHEADER"}, NEW h, Headed(p, h)
      PROVE  Depth(its, p) = Depth(items, p) + Change(p, h)
  BY <1>2, <1>3, <1>4 DEF Change, HasDepth
<1> QED BY <1>1, <1>2, <1>4, HeadedRules DEF Tracked
----------------------------------------------------------------------------
(***************************************************************************)
(* Every action preserves the invariant.                                   *)
(***************************************************************************)

\* Of a compiler that crashed nothing is claimed.
LEMMA Crashed ==
  ASSUME status' = "crashed"
  PROVE  IInv'
BY DEF IInv

\* An action that changes no stack and no entry of the symbol table, and appends
\* code that lacks nothing.
LEMMA PlainReduction ==
  ASSUME IInv, Reading, Complete, NEW value \in ValuesOf(lhs(r)), Return(value),
         r \notin {"PROC", "PROCH", "CONDITION", "CONDHEADER", "WHILE", "WHILEHEADER", "WHILEFLAG"},
         UNCHANGED <<stacks, symbols>>, NEW e, Solid(e), code' = code \o e
  PROVE  IInv'
<1>1. status = "parsing" /\ r # "PL0"
  BY DEF Reading
<1>2. OnTrack(items) /\ StacksTyped /\ StacksDeep /\ AllQueued /\ Table!IInv
  BY <1>1 DEF IInv
<1>3. Tracked /\ status' = status
  BY <1>1, <1>2, AfterReturn
<1>4. StacksTyped' /\ AllQueued' /\ Table!IInv'
  BY <1>2, OnlyCode
<1>5. UNCHANGED <<proc_int_backfill, if_not_backfill, while_not_backfill, while_entry_backfill,
                  proc_body_backfill>>
  BY DEF stacks, procStacks, whileStacks
<1>6. HasDepth
  BY <1>2, DepthsAreNatural
<1>7. /\ Depth(items', "PROC") = Depth(items, "PROC")
      /\ Depth(items', "CONDITION") = Depth(items, "CONDITION")
      /\ Depth(items', "WHILE") = Depth(items, "WHILE")
      /\ Depth(items', "WHILEHEADER") = Depth(items, "WHILEHEADER")
      /\ lexErrors' = lexErrors
  BY <1>3, <1>6 DEF Tracked, HasDepth, Change
<1>8. StacksDeep'
  BY <1>2, <1>5, <1>7 DEF StacksDeep
<1> QED BY <1>3, <1>4, <1>8 DEF IInv, Tracked

\* To emit nothing is to append no code.
LEMMA NoCodeAppended ==
  ASSUME StacksTyped, UNCHANGED code
  PROVE  code' = code \o <<>>
BY DEF StacksTyped

\* A rule begins.
LEMMA ExpandPreserves ==
  ASSUME IInv, NEW p \in Productions, Expand(p)
  PROVE  IInv'
<1>1. /\ OnTrack(items) /\ StacksTyped /\ StacksDeep /\ AllQueued /\ Table!IInv
      /\ status = "parsing"
  BY DEF IInv, Expand, Reading
<1>2. p \in DOMAIN Rules
  BY AssemblerAssumption
<1>3. OnTrack(items') /\ \A q : Begun(items', q) = Begun(items, q)
  BY <1>1, <1>2, Expanded DEF Expand, lhs
<1>4. code' = code \o <<>> /\ Solid(<<>>)
  BY <1>1, NoCodeAppended, NoCode DEF Expand
<1>5. UNCHANGED <<automaton, stacks, symbols>>
  BY DEF Expand
<1>6. StacksTyped' /\ AllQueued' /\ Table!IInv'
  BY <1>1, <1>4, <1>5, OnlyCode
<1>7. StacksDeep'
  BY <1>1, <1>3, <1>5
     DEF StacksDeep, Depth, automaton, stacks, procStacks, whileStacks
<1> QED BY <1>3, <1>6, <1>7 DEF IInv

\* A terminal is read.
LEMMA ShiftPreserves ==
  ASSUME IInv, Shift
  PROVE  IInv'
<1>1. /\ OnTrack(items) /\ StacksTyped /\ StacksDeep /\ AllQueued /\ Table!IInv
      /\ status = "parsing"
  BY DEF IInv, Shift, Reading
<1>2. PICK token \in Tokens(Upcoming) : items' = Recognized(items, token)
  BY DEF Shift
<1> DEFINE its == Recognized(items, token)
<1>3. OnTrack(its) /\ \A p, h : Headed(p, h) => Depth(its, p) = Depth(items, p)
  BY <1>1, Shifted DEF Shift
<1> HIDE DEF its
<1>4. /\ OnTrack(items')
      /\ \A p \in {"PROC", "CONDITION", "WHILE", "WHILEHEADER"} : Depth(items', p) = Depth(items, p)
  BY <1>2, <1>3, HeadedRules DEF its
<1>5. code' = code \o <<>> /\ Solid(<<>>)
  BY <1>1, NoCodeAppended, NoCode DEF Shift
<1>6. UNCHANGED <<automaton, stacks, symbols>>
  BY DEF Shift
<1>7. StacksTyped' /\ AllQueued' /\ Table!IInv'
  BY <1>1, <1>5, <1>6, OnlyCode
<1>8. StacksDeep'
  BY <1>1, <1>4, <1>6 DEF StacksDeep, automaton, stacks, procStacks, whileStacks
<1> QED BY <1>4, <1>7, <1>8 DEF IInv

\* A rule without an action of its own is reduced.
LEMMA DefaultPreserves ==
  ASSUME IInv, Default
  PROVE  IInv'
<1>1. OnTrack(items) /\ StacksTyped /\ Reading /\ Complete
  BY DEF IInv, Default, Reducing, Reading
<1>2. r \in DOMAIN Rules /\ r \notin DOMAIN oprOf
  BY DEF Default, Reducing, Attached, oprOf
<1>3. nullptr \in ValuesOf(lhs(r)) /\ Return(nullptr)
  BY <1>2, NothingReturned DEF Default
<1>4. code' = code \o <<>> /\ Solid(<<>>) /\ UNCHANGED <<stacks, symbols>>
  BY <1>1, NoCodeAppended, NoCode DEF Default
<1>5. r \notin {"PROC", "PROCH", "CONDITION", "CONDHEADER", "WHILE", "WHILEHEADER", "WHILEFLAG"}
  BY DEF Default, Reducing, Attached
<1> QED BY <1>1, <1>3, <1>4, <1>5, PlainReduction

\* What the simple statements and factors emit lacks nothing.
LEMMA SolidEmitted ==
  ASSUME OnTrack(items), Table!IInv, Complete, r \in Simple
  PROVE  Solid(Emitted)
<1>1. CASE r = "CALL"
  BY <1>1, NamesLoaded DEF Emitted
<1>2. CASE r = "READ"
  BY <1>2, NamesLoaded DEF Emitted
<1>3. CASE r = "OPTRDID"
  BY <1>3, NamesLoaded DEF Emitted
<1>4. ASSUME NEW value PROVE Solid(Written(value))
  BY NamesLoaded, Operations DEF Written, OPR_WR
<1>5. CASE r = "WRITE"
  <2>1. Solid(insert_opr(OPR_NL))
    BY Operations DEF OPR_NL
  <2>2. Solid(Written(v[4]) \o insert_opr(OPR_NL))
    BY <1>4, <2>1, SolidJoined
  <2> QED BY <1>5, <2>2 DEF Emitted
<1>6. CASE r = "OPTWRID"
  BY <1>4, <1>6 DEF Emitted
<1>7. CASE r = "IDFACTOR"
  BY <1>7, NamesLoaded DEF Emitted
<1>8. CASE r = "NUMFACTOR"
  <2>1. Len(rhs(r)) = 1
    BY <1>8, ExpressionsRules
  <2>2. v[1].desc \in Int
    BY <2>1, ValuesComplete
  <2> QED BY <1>8, <2>2, Literals DEF Emitted
<1> QED BY <1>1, <1>2, <1>3, <1>5, <1>6, <1>7, <1>8 DEF Simple

\* A simple statement or a factor ends.
LEMMA EmitSimplePreserves ==
  ASSUME IInv, EmitSimple
  PROVE  IInv'
<1>1. OnTrack(items) /\ Table!IInv /\ Reading /\ Complete /\ r \in Simple
  BY DEF IInv, EmitSimple, Reducing, Reading
<1>2. r \in DOMAIN Rules /\ r \notin DOMAIN oprOf
  BY <1>1, ValuesComplete DEF Simple, oprOf
<1>3. nullptr \in ValuesOf(lhs(r)) /\ Return(nullptr)
  BY <1>2, NothingReturned DEF EmitSimple
<1>4. code' = code \o Emitted /\ Solid(Emitted) /\ UNCHANGED <<stacks, symbols>>
  BY <1>1, SolidEmitted DEF EmitSimple, insert
<1>5. r \notin {"PROC", "PROCH", "CONDITION", "CONDHEADER", "WHILE", "WHILEHEADER", "WHILEFLAG"}
  BY <1>1 DEF Simple
<1> QED BY <1>1, <1>3, <1>4, <1>5, PlainReduction

\* An operator is read.
LEMMA ReadOperatorPreserves ==
  ASSUME IInv, ReadOperator
  PROVE  IInv'
<1>1. OnTrack(items) /\ Reading /\ Complete /\ r \in DOMAIN oprOf
  BY DEF IInv, ReadOperator, Reducing, Reading
<1>2. Operator(oprOf[r]) \in ValuesOf(lhs(r)) /\ Return(Operator(oprOf[r]))
  BY <1>1, OperatorReturned DEF ReadOperator
<1>3. Solid(Minuend)
  BY NoCode, Literals DEF Minuend
<1>4. code' = code \o Minuend /\ UNCHANGED <<stacks, symbols>>
  BY DEF ReadOperator, insert
<1>5. r \notin {"PROC", "PROCH", "CONDITION", "CONDHEADER", "WHILE", "WHILEHEADER", "WHILEFLAG"}
  BY <1>1 DEF oprOf
<1> QED BY <1>1, <1>2, <1>3, <1>4, <1>5, PlainReduction

\* An operand is complete.
LEMMA ApplyOperatorPreserves ==
  ASSUME IInv, ApplyOperator
  PROVE  IInv'
<1>1. /\ OnTrack(items) /\ Reading /\ Complete
      /\ r \in {"OPTFACTOR", "OPTEXPRITEM", "FEXPRITEM", "EXPR", "EXPRITEM"}
  BY DEF IInv, ApplyOperator, Reducing, Reading
<1>2. HandedOn \in ValuesOf(lhs(r)) /\ Return(HandedOn)
  BY <1>1, HandedOnReturned DEF ApplyOperator
<1>3. Solid(Pending(v[1]))
  <2>1. Len(rhs(r)) >= 1
    BY <1>1, ExpressionsRules
  <2>2. Len(rhs(r)) \in Nat
    BY <1>1, Innermost
  <2>3. v[1].desc \in Int
    BY <1>1, <2>1, <2>2, ValuesComplete
  <2> QED BY <2>3, Operations, NoCode DEF Pending
<1>4. code' = code \o Pending(v[1]) /\ UNCHANGED <<stacks, symbols>>
  BY DEF ApplyOperator, insert
<1>5. r \notin {"PROC", "PROCH", "CONDITION", "CONDHEADER", "WHILE", "WHILEHEADER", "WHILEFLAG"}
  BY <1>1
<1> QED BY <1>1, <1>2, <1>3, <1>4, <1>5, PlainReduction

\* A condition is complete.
LEMMA AssertionPreserves ==
  ASSUME IInv, Assertion
  PROVE  IInv'
<1>1. OnTrack(items) /\ Reading /\ Complete /\ r \in {"ASSERTION", "RASSERTION"}
  BY DEF IInv, Assertion, Reducing, Reading
<1>2. r \in DOMAIN Rules /\ r \notin DOMAIN oprOf
  BY <1>1, ValuesComplete DEF oprOf
<1>3. nullptr \in ValuesOf(lhs(r)) /\ (Return(nullptr) \/ status' = "crashed")
  BY <1>2, NothingReturned DEF Assertion, EndWithoutReturn
<1> DEFINE e == insert_opr(IF r = "ASSERTION" THEN v[2].desc ELSE OPR_ODD)
<1>4. Solid(e)
  <2>1. CASE r = "ASSERTION"
    <3>1. Len(rhs(r)) = 3
      BY <2>1, ExpressionsRules
    <3>2. v[2].desc \in Int
      BY <1>1, <3>1, ValuesComplete
    <3> QED BY <2>1, <3>2, Operations
  <2>2. CASE r # "ASSERTION"
    BY <2>2, Operations DEF OPR_ODD
  <2> QED BY <2>1, <2>2
<1>5. code' = code \o e /\ UNCHANGED <<stacks, symbols>>
  BY DEF Assertion, insert
<1>6. r \notin {"PROC", "PROCH", "CONDITION", "CONDHEADER", "WHILE", "WHILEHEADER", "WHILEFLAG"}
  BY <1>1
<1> HIDE DEF e
<1> QED BY <1>1, <1>3, <1>4, <1>5, <1>6, PlainReduction, Crashed

\* An assignment is complete.
LEMMA AssignPreserves ==
  ASSUME IInv, Assign
  PROVE  IInv'
<1>1. OnTrack(items) /\ Table!IInv /\ Reading /\ Complete /\ r = "ASSIGN"
  BY DEF IInv, Assign, Reducing, Reading
<1>2. r \in DOMAIN Rules /\ r \notin DOMAIN oprOf
  BY <1>1, ValuesComplete DEF oprOf
<1>3. nullptr \in ValuesOf(lhs(r)) /\ (Return(nullptr) \/ status' = "crashed")
  BY <1>2, NothingReturned DEF Assign, EndWithoutReturn
<1>4. Solid(store_id(v[1].name))
  BY <1>1, NamesLoaded
<1>5. code' = code \o store_id(v[1].name) /\ UNCHANGED <<stacks, symbols>>
  BY DEF Assign, insert
<1> QED BY <1>1, <1>3, <1>4, <1>5, PlainReduction, Crashed

\* An address is queued on one of the four stacks, or taken off.
LEMMA Queued ==
  ASSUME NEW P \in Seq(Nat), NEW F \in Seq(Nat), NEW W \in Seq(Nat), NEW J \in Seq(Nat),
         NEW c, NEW d, Queues(P, F, W, J, c), NEW x \in Nat,
         x \notin Blanks(c), Blanks(d) = Blanks(c) \cup {x}
  PROVE  /\ Queues(Append(P, x), F, W, J, d) /\ Queues(P, Append(F, x), W, J, d)
         /\ Queues(P, F, Append(W, x), J, d) /\ Queues(P, F, W, Append(J, x), d)
<1>1. x \notin ToSet(P) /\ x \notin ToSet(F) /\ x \notin ToSet(W) /\ x \notin ToSet(J)
  BY DEF Queues
<1>2. ASSUME NEW s \in Seq(Nat), x \notin ToSet(s), IsInjective(s)
      PROVE  IsInjective(Append(s, x)) /\ ToSet(Append(s, x)) = ToSet(s) \cup {x}
  BY <1>2, Pushed
<1>3. Queues(Append(P, x), F, W, J, d)
  <2> DEFINE longer == Append(P, x)
  <2>1. IsInjective(longer) /\ ToSet(longer) = ToSet(P) \cup {x}
    BY <1>1, <1>2 DEF Queues
  <2> HIDE DEF longer
  <2>2. Queues(longer, F, W, J, d)
    BY <1>1, <2>1 DEF Queues
  <2> QED BY <2>2 DEF longer
<1>4. Queues(P, Append(F, x), W, J, d)
  <2> DEFINE longer == Append(F, x)
  <2>1. IsInjective(longer) /\ ToSet(longer) = ToSet(F) \cup {x}
    BY <1>1, <1>2 DEF Queues
  <2> HIDE DEF longer
  <2>2. Queues(P, longer, W, J, d)
    BY <1>1, <2>1 DEF Queues
  <2> QED BY <2>2 DEF longer
<1>5. Queues(P, F, Append(W, x), J, d)
  <2> DEFINE longer == Append(W, x)
  <2>1. IsInjective(longer) /\ ToSet(longer) = ToSet(W) \cup {x}
    BY <1>1, <1>2 DEF Queues
  <2> HIDE DEF longer
  <2>2. Queues(P, F, longer, J, d)
    BY <1>1, <2>1 DEF Queues
  <2> QED BY <2>2 DEF longer
<1>6. Queues(P, F, W, Append(J, x), d)
  <2> DEFINE longer == Append(J, x)
  <2>1. IsInjective(longer) /\ ToSet(longer) = ToSet(J) \cup {x}
    BY <1>1, <1>2 DEF Queues
  <2> HIDE DEF longer
  <2>2. Queues(P, F, W, longer, d)
    BY <1>1, <2>1 DEF Queues
  <2> QED BY <2>2 DEF longer
<1> QED BY <1>3, <1>4, <1>5, <1>6

\* An address is taken off one of the stacks, and its operand is filled in.
LEMMA Dequeued ==
  ASSUME NEW P \in Seq(Nat), NEW F \in Seq(Nat), NEW W \in Seq(Nat), NEW J \in Seq(Nat),
         NEW c, NEW d, Queues(P, F, W, J, c)
  PROVE  /\ P # <<>> /\ Blanks(d) = Blanks(c) \ {Last(P)} => Queues(Front(P), F, W, J, d)
         /\ F # <<>> /\ Blanks(d) = Blanks(c) \ {Last(F)} => Queues(P, Front(F), W, J, d)
         /\ W # <<>> /\ Blanks(d) = Blanks(c) \ {Last(W)} => Queues(P, F, Front(W), J, d)
         /\ J # <<>> /\ Blanks(d) = Blanks(c) \ {Last(J)} => Queues(P, F, W, Front(J), d)
<1>1. ASSUME NEW s \in Seq(Nat), s # <<>>, IsInjective(s)
      PROVE  IsInjective(Front(s)) /\ ToSet(Front(s)) = ToSet(s) \ {Last(s)} /\ Last(s) \in ToSet(s)
  BY <1>1, Popped
<1>2. ASSUME P # <<>>, Blanks(d) = Blanks(c) \ {Last(P)} PROVE Queues(Front(P), F, W, J, d)
  <2>1. IsInjective(Front(P)) /\ ToSet(Front(P)) = ToSet(P) \ {Last(P)} /\ Last(P) \in ToSet(P)
    BY <1>1, <1>2 DEF Queues
  <2> QED BY <1>2, <2>1, Zenon DEF Queues
<1>3. ASSUME F # <<>>, Blanks(d) = Blanks(c) \ {Last(F)} PROVE Queues(P, Front(F), W, J, d)
  <2>1. IsInjective(Front(F)) /\ ToSet(Front(F)) = ToSet(F) \ {Last(F)} /\ Last(F) \in ToSet(F)
    BY <1>1, <1>3 DEF Queues
  <2> QED BY <1>3, <2>1, Zenon DEF Queues
<1>4. ASSUME W # <<>>, Blanks(d) = Blanks(c) \ {Last(W)} PROVE Queues(P, F, Front(W), J, d)
  <2>1. IsInjective(Front(W)) /\ ToSet(Front(W)) = ToSet(W) \ {Last(W)} /\ Last(W) \in ToSet(W)
    BY <1>1, <1>4 DEF Queues
  <2> QED BY <1>4, <2>1, Zenon DEF Queues
<1>5. ASSUME J # <<>>, Blanks(d) = Blanks(c) \ {Last(J)} PROVE Queues(P, F, W, Front(J), d)
  <2>1. IsInjective(Front(J)) /\ ToSet(Front(J)) = ToSet(J) \ {Last(J)} /\ Last(J) \in ToSet(J)
    BY <1>1, <1>5 DEF Queues
  <2> QED BY <1>5, <2>1, Zenon DEF Queues
<1> QED BY <1>2, <1>3, <1>4, <1>5

\* An instruction that lacks its operand is appended.
LEMMA BlankAppended ==
  ASSUME NEW c \in Seq(Instructions), NEW i \in Instructions, Blank(i)
  PROVE  /\ c \o <<i>> \in Seq(Instructions) /\ Len(c \o <<i>>) = Len(c) + 1
         /\ Blanks(c \o <<i>>) = Blanks(c) \cup {Len(c)}
         /\ Len(c) \in Nat /\ Len(c) \notin 0..(Len(c) - 1)
<1>1. <<i>> \in Seq(Instructions) /\ Len(<<i>>) = 1 /\ <<i>>[1] = i
  OBVIOUS
<1>2. Blanks(<<i>>) = {0}
  BY <1>1 DEF Blanks
<1>3. Len(c) \in Nat
  OBVIOUS
<1>4. {Len(c) + k : k \in Blanks(<<i>>)} = {Len(c)}
  <2> DEFINE n == Len(c)
  <2>1. n \in Nat
    BY <1>3
  <2> HIDE DEF n
  <2>2. \A k \in {0} : n + k = n
    BY <2>1
  <2>3. {n + k : k \in {0}} = {n}
    BY <2>2, Zenon
  <2> QED BY <1>2, <2>3 DEF n
<1>5. /\ c \o <<i>> \in Seq(Instructions) /\ Len(c \o <<i>>) = Len(c) + Len(<<i>>)
      /\ Blanks(c \o <<i>>) = Blanks(c) \cup {Len(c) + k : k \in Blanks(<<i>>)}
  BY <1>1, Appended
<1> QED BY <1>1, <1>3, <1>4, <1>5

\* What every reduction starts from.
LEMMA BeforeReduction ==
  ASSUME IInv, status = "parsing"
  PROVE  /\ OnTrack(items) /\ StacksTyped /\ StacksDeep /\ AllQueued /\ Table!IInv /\ HasDepth
         /\ length \in Nat /\ length = Len(code) /\ length >= 2
         /\ code \in Seq(Instructions)
         /\ proc_int_backfill \in Seq(Nat) /\ if_not_backfill \in Seq(Nat)
         /\ while_not_backfill \in Seq(Nat) /\ while_entry_backfill \in Seq(Nat \ {0})
         /\ proc_body_backfill \in Seq(BodyEntries) /\ JmpsOf(proc_body_backfill) \in Seq(Nat)
         /\ Blanks(code) \subseteq 0..(length - 1) /\ length \notin Blanks(code)
<1>1. OnTrack(items) /\ StacksTyped /\ StacksDeep /\ AllQueued /\ Table!IInv
  BY DEF IInv
<1>2. /\ length = Len(code) /\ length >= 2
      /\ code \in Seq(Instructions)
      /\ proc_int_backfill \in Seq(Nat) /\ if_not_backfill \in Seq(Nat)
      /\ while_not_backfill \in Seq(Nat) /\ while_entry_backfill \in Seq(Nat \ {0})
      /\ proc_body_backfill \in Seq(BodyEntries)
  BY <1>1 DEF StacksTyped, length
<1>3. length \in Nat
  BY <1>2
<1>4. Blanks(code) \subseteq 0..(length - 1)
  BY DEF Blanks, length
<1>5. length \notin 0..(length - 1)
  BY <1>3
<1> QED BY <1>1, <1>2, <1>3, <1>4, <1>5, JmpsAreStack, DepthsAreNatural

\* The table stays as it is when the symbol manager is not called.
LEMMA TableUnchanged ==
  ASSUME Table!IInv, UNCHANGED symbols
  PROVE  Table!IInv'
BY TableAssumptions, Table!StutterPreservesIInv DEF symbols, Table!vars

\* A constant or a variable is declared.
LEMMA DeclarePreserves ==
  ASSUME IInv, Declare
  PROVE  IInv'
<1>1. Reading /\ Complete /\ r \in {"CONSTDEF", "OPTVARID", "VAR"} /\ Return(nullptr)
  BY DEF Declare, Reducing
<1>2. /\ OnTrack(items) /\ StacksTyped /\ StacksDeep /\ AllQueued /\ Table!IInv
      /\ status = "parsing" /\ r # "PL0" /\ r \in DOMAIN Rules /\ HasDepth
  BY <1>1, BeforeReduction, ValuesComplete DEF Reading
<1>3. r \notin DOMAIN oprOf
  BY <1>1 DEF oprOf
<1>4. Tracked /\ status' = status
  BY <1>1, <1>2, <1>3, NothingReturned, AfterReturn
<1>5. UNCHANGED <<code, proc_int_backfill, if_not_backfill, while_not_backfill,
                  while_entry_backfill, proc_body_backfill>>
  BY DEF Declare, stacks, procStacks, whileStacks
<1>6. StacksTyped' /\ AllQueued'
  BY <1>2, <1>5 DEF StacksTyped, AllQueued, length
<1>7. StacksDeep'
  BY <1>1, <1>2, <1>4, <1>5 DEF StacksDeep, Tracked, Change, HasDepth
<1>8. Table!IInv'
  <2>1. CASE r = "CONSTDEF"
    <3>1. Len(rhs(r)) = 3 /\ rhs(r)[1] = ID /\ rhs(r)[3] = NUM
      BY <2>1, DeclarationsRules
    <3>2. v[1] \in ValuesOf(ID) /\ v[3] \in ValuesOf(NUM)
      BY <1>1, <1>2, <3>1, ValuesComplete
    <3>3. v[1].name \in Names /\ v[3].desc \in Numbers
      BY <3>2, NamesAndNumbers DEF symbol_t
    <3>4. Table!insertConstant(v[1].name, v[3].desc)
      BY <2>1, SameUpdates DEF Declare
    <3> QED BY <1>2, <3>3, <3>4, TableAssumptions, Table!ConstantPreservesIInv
  <2>2. CASE r # "CONSTDEF"
    <3>1. Len(rhs(r)) \in {3, 4} /\ rhs(r)[2] = ID
      BY <1>1, <2>2, DeclarationsRules
    <3>2. v[2] \in ValuesOf(ID)
      BY <1>1, <1>2, <3>1, ValuesComplete
    <3>3. v[2].name \in Names
      BY <3>2, NamesAndNumbers DEF symbol_t
    <3>4. Table!insertVariable(v[2].name, 3)
      BY <2>2, SameUpdates DEF Declare
    <3> QED BY <1>2, <3>3, <3>4, TableAssumptions, Table!VariablePreservesIInv
  <2> QED BY <2>1, <2>2
<1> QED BY <1>4, <1>6, <1>7, <1>8 DEF IInv, Tracked

\* The JPC of an if is emitted and its address remembered (Assembler.cpp:156).
LEMMA IfHeaderPreserves ==
  ASSUME IInv, IfHeader
  PROVE  IInv'
<1> SUFFICES ASSUME Return(nullptr) PROVE IInv'
  BY Crashed DEF IfHeader, EndWithoutReturn
<1>1. Reading /\ Complete /\ r = "CONDHEADER" /\ status = "parsing" /\ r # "PL0"
  BY DEF IfHeader, Reducing, Reading
<1>2. /\ OnTrack(items) /\ StacksTyped /\ StacksDeep /\ AllQueued /\ Table!IInv /\ HasDepth
      /\ length \in Nat /\ length = Len(code) /\ length >= 2
      /\ code \in Seq(Instructions)
      /\ proc_int_backfill \in Seq(Nat) /\ if_not_backfill \in Seq(Nat)
      /\ while_not_backfill \in Seq(Nat) /\ while_entry_backfill \in Seq(Nat \ {0})
      /\ proc_body_backfill \in Seq(BodyEntries) /\ JmpsOf(proc_body_backfill) \in Seq(Nat)
      /\ Blanks(code) \subseteq 0..(length - 1) /\ length \notin Blanks(code)
  BY <1>1, BeforeReduction
<1>3. Tracked /\ status' = status
  BY <1>1, <1>2, ValuesComplete, NothingReturned, AfterReturn DEF oprOf
<1>4. /\ code' = code \o <<inst_t("JPC", 0, 0)>>
      /\ if_not_backfill' = Append(if_not_backfill, length)
      /\ UNCHANGED <<proc_int_backfill, proc_body_backfill, while_entry_backfill, while_not_backfill, symbols>>
  BY DEF IfHeader, insert, procStacks, whileStacks
<1> DEFINE c == code \o <<inst_t("JPC", 0, 0)>>
           pushed == Append(if_not_backfill, length)
<1>5. inst_t("JPC", 0, 0) \in Instructions /\ Blank(inst_t("JPC", 0, 0))
  BY DEF inst_t, Instructions, InstTypes, Blank
<1>6. c \in Seq(Instructions) /\ Len(c) = length + 1 /\ Blanks(c) = Blanks(code) \cup {length}
  BY <1>2, <1>5, BlankAppended
<1>7. pushed \in Seq(Nat) /\ Len(pushed) = Len(if_not_backfill) + 1
  BY <1>2, Pushed
<1> HIDE DEF c
<1>8. Queues(proc_int_backfill, pushed, while_not_backfill, JmpsOf(proc_body_backfill), c)
  BY <1>2, <1>6, Queued DEF AllQueued
<1> HIDE DEF pushed
<1>9. AllQueued'
  BY <1>4, <1>8 DEF AllQueued, c, pushed
<1>10. /\ code' \in Seq(Instructions) /\ Len(code') = length + 1
       /\ if_not_backfill' \in Seq(Nat) /\ Len(if_not_backfill') = Len(if_not_backfill) + 1
  BY <1>4, <1>6, <1>7 DEF c, pushed
<1>11. StacksTyped'
  BY <1>2, <1>4, <1>10 DEF StacksTyped, length
<1>12. StacksDeep'
  <2>1. /\ Depth(items', "PROC") = Depth(items, "PROC")
        /\ Depth(items', "CONDITION") = Depth(items, "CONDITION") + 1
        /\ Depth(items', "WHILE") = Depth(items, "WHILE")
        /\ Depth(items', "WHILEHEADER") = Depth(items, "WHILEHEADER")
        /\ lexErrors' = lexErrors
    BY <1>1, <1>2, <1>3 DEF Tracked, Change, HasDepth
  <2> QED BY <1>1, <1>2, <1>4, <1>10, <2>1 DEF StacksDeep, HasDepth
<1>13. Table!IInv'
  BY <1>2, <1>4, TableUnchanged
<1> QED BY <1>3, <1>9, <1>11, <1>12, <1>13 DEF IInv, Tracked

\* The JPC of a loop is emitted and its address remembered (Assembler.cpp:173).
LEMMA WhileHeaderPreserves ==
  ASSUME IInv, WhileHeader
  PROVE  IInv'
<1> SUFFICES ASSUME Return(nullptr) PROVE IInv'
  BY Crashed DEF WhileHeader, EndWithoutReturn
<1>1. Reading /\ Complete /\ r = "WHILEHEADER" /\ status = "parsing" /\ r # "PL0"
  BY DEF WhileHeader, Reducing, Reading
<1>2. /\ OnTrack(items) /\ StacksTyped /\ StacksDeep /\ AllQueued /\ Table!IInv /\ HasDepth
      /\ length \in Nat /\ length = Len(code) /\ length >= 2
      /\ code \in Seq(Instructions)
      /\ proc_int_backfill \in Seq(Nat) /\ if_not_backfill \in Seq(Nat)
      /\ while_not_backfill \in Seq(Nat) /\ while_entry_backfill \in Seq(Nat \ {0})
      /\ proc_body_backfill \in Seq(BodyEntries) /\ JmpsOf(proc_body_backfill) \in Seq(Nat)
      /\ Blanks(code) \subseteq 0..(length - 1) /\ length \notin Blanks(code)
  BY <1>1, BeforeReduction
<1>3. Tracked /\ status' = status
  BY <1>1, <1>2, ValuesComplete, NothingReturned, AfterReturn DEF oprOf
<1>4. /\ code' = code \o <<inst_t("JPC", 0, 0)>>
      /\ while_not_backfill' = Append(while_not_backfill, length)
      /\ UNCHANGED <<proc_int_backfill, proc_body_backfill, if_not_backfill, while_entry_backfill, symbols>>
  BY DEF WhileHeader, insert, procStacks, whileStacks
<1> DEFINE c == code \o <<inst_t("JPC", 0, 0)>>
           pushed == Append(while_not_backfill, length)
<1>5. inst_t("JPC", 0, 0) \in Instructions /\ Blank(inst_t("JPC", 0, 0))
  BY DEF inst_t, Instructions, InstTypes, Blank
<1>6. c \in Seq(Instructions) /\ Len(c) = length + 1 /\ Blanks(c) = Blanks(code) \cup {length}
  BY <1>2, <1>5, BlankAppended
<1>7. pushed \in Seq(Nat) /\ Len(pushed) = Len(while_not_backfill) + 1
  BY <1>2, Pushed
<1> HIDE DEF c
<1>8. Queues(proc_int_backfill, if_not_backfill, pushed, JmpsOf(proc_body_backfill), c)
  BY <1>2, <1>6, Queued DEF AllQueued
<1> HIDE DEF pushed
<1>9. AllQueued'
  BY <1>4, <1>8 DEF AllQueued, c, pushed
<1>10. /\ code' \in Seq(Instructions) /\ Len(code') = length + 1
       /\ while_not_backfill' \in Seq(Nat) /\ Len(while_not_backfill') = Len(while_not_backfill) + 1
  BY <1>4, <1>6, <1>7 DEF c, pushed
<1>11. StacksTyped'
  BY <1>2, <1>4, <1>10 DEF StacksTyped, length
<1>12. StacksDeep'
  <2>1. /\ Depth(items', "PROC") = Depth(items, "PROC")
        /\ Depth(items', "CONDITION") = Depth(items, "CONDITION")
        /\ Depth(items', "WHILE") = Depth(items, "WHILE") + 1
        /\ Depth(items', "WHILEHEADER") = Depth(items, "WHILEHEADER") - 1
        /\ lexErrors' = lexErrors
    BY <1>1, <1>2, <1>3 DEF Tracked, Change, HasDepth
  <2>2. Depth(items, "WHILE") \in Nat /\ Depth(items, "WHILEHEADER") \in Nat
    BY <1>2 DEF HasDepth
  <2>3. /\ Len(while_entry_backfill) = Depth(items, "WHILE") + Depth(items, "WHILEHEADER")
        /\ Len(while_not_backfill) = Depth(items, "WHILE")
    BY <1>2 DEF StacksDeep
  <2>4. /\ Len(while_entry_backfill') = Depth(items', "WHILE") + Depth(items', "WHILEHEADER")
        /\ Len(while_not_backfill') = Depth(items', "WHILE")
    BY <1>4, <1>10, <2>1, <2>2, <2>3
  <2>5. /\ UNCHANGED <<lexErrors, proc_int_backfill, proc_body_backfill, if_not_backfill>>
        /\ Depth(items', "PROC") = Depth(items, "PROC")
        /\ Depth(items', "CONDITION") = Depth(items, "CONDITION")
    BY <1>4, <2>1
  <2> QED BY <1>2, <2>4, <2>5 DEF StacksDeep
<1>13. Table!IInv'
  BY <1>2, <1>4, TableUnchanged
<1> QED BY <1>3, <1>9, <1>11, <1>12, <1>13 DEF IInv, Tracked

\* The start of a loop is remembered (Assembler.cpp:168).
LEMMA WhileEntryPreserves ==
  ASSUME IInv, WhileEntry
  PROVE  IInv'
<1> SUFFICES ASSUME Return(nullptr) PROVE IInv'
  BY Crashed DEF WhileEntry, EndWithoutReturn
<1>1. Reading /\ Complete /\ r = "WHILEFLAG" /\ status = "parsing" /\ r # "PL0"
  BY DEF WhileEntry, Reducing, Reading
<1>2. /\ OnTrack(items) /\ StacksTyped /\ StacksDeep /\ AllQueued /\ Table!IInv /\ HasDepth
      /\ length \in Nat /\ length = Len(code) /\ length >= 2
      /\ code \in Seq(Instructions)
      /\ proc_int_backfill \in Seq(Nat) /\ if_not_backfill \in Seq(Nat)
      /\ while_not_backfill \in Seq(Nat) /\ while_entry_backfill \in Seq(Nat \ {0})
      /\ proc_body_backfill \in Seq(BodyEntries) /\ JmpsOf(proc_body_backfill) \in Seq(Nat)
      /\ Blanks(code) \subseteq 0..(length - 1) /\ length \notin Blanks(code)
  BY <1>1, BeforeReduction
<1>3. Tracked /\ status' = status
  BY <1>1, <1>2, ValuesComplete, NothingReturned, AfterReturn DEF oprOf
<1>4. /\ while_entry_backfill' = Append(while_entry_backfill, length)
      /\ UNCHANGED <<code, proc_int_backfill, proc_body_backfill, if_not_backfill,
                      while_not_backfill, symbols>>
  BY DEF WhileEntry, procStacks
<1>5. length \in Nat \ {0}
  BY <1>2
<1>6. /\ while_entry_backfill' \in Seq(Nat \ {0})
      /\ Len(while_entry_backfill') = Len(while_entry_backfill) + 1
  BY <1>2, <1>4, <1>5
<1>7. AllQueued'
  BY <1>2, <1>4 DEF AllQueued
<1>8. StacksTyped'
  BY <1>2, <1>4, <1>6 DEF StacksTyped, length
<1>9. StacksDeep'
  <2>1. /\ Depth(items', "PROC") = Depth(items, "PROC")
        /\ Depth(items', "CONDITION") = Depth(items, "CONDITION")
        /\ Depth(items', "WHILE") = Depth(items, "WHILE")
        /\ Depth(items', "WHILEHEADER") = Depth(items, "WHILEHEADER") + 1
        /\ lexErrors' = lexErrors
    BY <1>1, <1>2, <1>3 DEF Tracked, Change, HasDepth
  <2> QED BY SMTT(60), <1>1, <1>2, <1>4, <1>6, <2>1 DEF StacksDeep, HasDepth
<1>10. Table!IInv'
  BY <1>2, <1>4, TableUnchanged
<1> QED BY <1>3, <1>7, <1>8, <1>9, <1>10 DEF IInv, Tracked

\* An if ends: the innermost JPC is filled in (Assembler.cpp:162).
LEMMA IfEndPreserves ==
  ASSUME IInv, IfEnd
  PROVE  IInv'
<1> SUFFICES ASSUME Return(nullptr) PROVE IInv'
  BY Crashed DEF IfEnd, EndWithoutReturn
<1>1. Reading /\ Complete /\ r = "CONDITION" /\ status = "parsing" /\ r # "PL0"
  BY DEF IfEnd, Reducing, Reading
<1>2. /\ OnTrack(items) /\ StacksTyped /\ StacksDeep /\ AllQueued /\ Table!IInv /\ HasDepth
      /\ length \in Nat /\ length = Len(code) /\ length >= 2
      /\ code \in Seq(Instructions)
      /\ proc_int_backfill \in Seq(Nat) /\ if_not_backfill \in Seq(Nat)
      /\ while_not_backfill \in Seq(Nat) /\ while_entry_backfill \in Seq(Nat \ {0})
      /\ proc_body_backfill \in Seq(BodyEntries) /\ JmpsOf(proc_body_backfill) \in Seq(Nat)
      /\ Blanks(code) \subseteq 0..(length - 1) /\ length \notin Blanks(code)
  BY <1>1, BeforeReduction
<1>3. Tracked /\ status' = status
  BY <1>1, <1>2, ValuesComplete, NothingReturned, AfterReturn DEF oprOf
<1>4. /\ code' = Backfill(code, Last(if_not_backfill), length)
      /\ if_not_backfill' = Front(if_not_backfill)
      /\ UNCHANGED <<proc_int_backfill, proc_body_backfill, while_entry_backfill,
                      while_not_backfill, symbols>>
  BY DEF IfEnd, InnermostIf, procStacks, whileStacks
<1>5. if_not_backfill # <<>>
  BY <1>1, <1>2 DEF StacksDeep, HasDepth
<1> DEFINE top == Last(if_not_backfill)
           c == Backfill(code, top, length)
           popped == Front(if_not_backfill)
<1>6. popped \in Seq(Nat) /\ Len(popped) = Len(if_not_backfill) - 1 /\ top \in ToSet(if_not_backfill)
  BY <1>2, <1>5, Popped
<1>7. top \in 0..(length - 1)
  BY <1>2, <1>6, QueuedAddresses
<1> HIDE DEF top
<1>8. c \in Seq(Instructions) /\ Len(c) = length /\ Blanks(c) = Blanks(code) \ {top}
  BY <1>2, <1>7, Filled
<1> HIDE DEF c
<1>9. Queues(proc_int_backfill, popped, while_not_backfill, JmpsOf(proc_body_backfill), c)
  BY <1>2, <1>5, <1>8, Dequeued DEF AllQueued, top
<1> HIDE DEF popped
<1>10. AllQueued'
  BY <1>4, <1>9 DEF AllQueued, c, popped, top
<1>11. /\ code' \in Seq(Instructions) /\ Len(code') = length
       /\ if_not_backfill' \in Seq(Nat) /\ Len(if_not_backfill') = Len(if_not_backfill) - 1
  BY <1>4, <1>6, <1>8 DEF c, popped, top
<1>12. StacksTyped'
  BY <1>2, <1>4, <1>11 DEF StacksTyped, length
<1>13. StacksDeep'
  <2>1. /\ Depth(items', "PROC") = Depth(items, "PROC")
        /\ Depth(items', "CONDITION") = Depth(items, "CONDITION") - 1
        /\ Depth(items', "WHILE") = Depth(items, "WHILE")
        /\ Depth(items', "WHILEHEADER") = Depth(items, "WHILEHEADER")
        /\ lexErrors' = lexErrors
    BY <1>1, <1>2, <1>3 DEF Tracked, Change, HasDepth
  <2> QED BY <1>1, <1>2, <1>4, <1>11, <2>1 DEF StacksDeep, HasDepth
<1>14. Table!IInv'
  BY <1>2, <1>4, TableUnchanged
<1> QED BY <1>3, <1>10, <1>12, <1>13, <1>14 DEF IInv, Tracked

\* A loop ends: its JPC is filled in, and its start forgotten (Assembler.cpp:179).
LEMMA WhileEndPreserves ==
  ASSUME IInv, WhileEnd
  PROVE  IInv'
<1> SUFFICES ASSUME Return(nullptr) PROVE IInv'
  BY Crashed DEF WhileEnd, EndWithoutReturn
<1>1. Reading /\ Complete /\ r = "WHILE" /\ status = "parsing" /\ r # "PL0"
  BY DEF WhileEnd, Reducing, Reading
<1>2. /\ OnTrack(items) /\ StacksTyped /\ StacksDeep /\ AllQueued /\ Table!IInv /\ HasDepth
      /\ length \in Nat /\ length = Len(code) /\ length >= 2
      /\ code \in Seq(Instructions)
      /\ proc_int_backfill \in Seq(Nat) /\ if_not_backfill \in Seq(Nat)
      /\ while_not_backfill \in Seq(Nat) /\ while_entry_backfill \in Seq(Nat \ {0})
      /\ proc_body_backfill \in Seq(BodyEntries) /\ JmpsOf(proc_body_backfill) \in Seq(Nat)
      /\ Blanks(code) \subseteq 0..(length - 1) /\ length \notin Blanks(code)
  BY <1>1, BeforeReduction
<1>3. Tracked /\ status' = status
  BY <1>1, <1>2, ValuesComplete, NothingReturned, AfterReturn DEF oprOf
<1>4. /\ code' = Backfill(Append(code, inst_t("JMP", 0, Last(while_entry_backfill))),
                          Last(while_not_backfill), length + 1)
      /\ while_entry_backfill' = Front(while_entry_backfill)
      /\ while_not_backfill' = Front(while_not_backfill)
      /\ UNCHANGED <<proc_int_backfill, proc_body_backfill, if_not_backfill, symbols>>
  BY DEF WhileEnd, LoopExit, procStacks
<1>5. while_not_backfill # <<>> /\ while_entry_backfill # <<>>
  BY SMTT(60), <1>1, <1>2 DEF StacksDeep, HasDepth
<1> DEFINE top == Last(while_not_backfill)
           back == inst_t("JMP", 0, Last(while_entry_backfill))
           longer == Append(code, back)
           c == Backfill(longer, top, length + 1)
           popped == Front(while_not_backfill)
           entries == Front(while_entry_backfill)
<1>6. popped \in Seq(Nat) /\ Len(popped) = Len(while_not_backfill) - 1 /\ top \in ToSet(while_not_backfill)
  BY <1>2, <1>5, Popped
<1>7. /\ entries \in Seq(Nat \ {0}) /\ Len(entries) = Len(while_entry_backfill) - 1
      /\ Last(while_entry_backfill) \in Nat \ {0}
  BY <1>2, <1>5, Popped
<1>8. top \in 0..(length - 1)
  BY <1>2, <1>6, QueuedAddresses
<1>9. Solid(<<back>>) /\ back \in Instructions
  BY <1>7 DEF inst_t, Solid, Blank, Instructions, InstTypes
<1> HIDE DEF top, back, entries
<1>10. longer \in Seq(Instructions) /\ Len(longer) = length + 1 /\ Blanks(longer) = Blanks(code)
  <2>1. longer = code \o <<back>> /\ Len(<<back>>) = 1
    BY <1>2, <1>9
  <2>2. /\ code \o <<back>> \in Seq(Instructions) /\ Len(code \o <<back>>) = Len(code) + Len(<<back>>)
        /\ Blanks(code \o <<back>>) = Blanks(code)
    BY <1>2, <1>9, AppendedSolid
  <2> HIDE DEF longer
  <2> QED BY <1>2, <2>1, <2>2
<1> HIDE DEF longer
<1>11. c \in Seq(Instructions) /\ Len(c) = length + 1 /\ Blanks(c) = Blanks(code) \ {top}
  <2>1. top \in 0..(Len(longer) - 1) /\ length + 1 \in Int /\ length + 1 # 0
    BY <1>2, <1>8, <1>10
  <2> QED BY <1>10, <2>1, Filled
<1> HIDE DEF c
<1>12. Queues(proc_int_backfill, if_not_backfill, popped, JmpsOf(proc_body_backfill), c)
  BY <1>2, <1>5, <1>11, Dequeued DEF AllQueued, top
<1> HIDE DEF popped
<1>13. AllQueued'
  BY <1>4, <1>12 DEF AllQueued, c, popped, top, longer, back
<1>14. /\ code' \in Seq(Instructions) /\ Len(code') = length + 1
       /\ while_not_backfill' \in Seq(Nat) /\ Len(while_not_backfill') = Len(while_not_backfill) - 1
       /\ while_entry_backfill' \in Seq(Nat \ {0})
       /\ Len(while_entry_backfill') = Len(while_entry_backfill) - 1
  BY <1>4, <1>6, <1>7, <1>11 DEF c, popped, top, longer, back, entries
<1>15. StacksTyped'
  BY <1>2, <1>4, <1>14 DEF StacksTyped, length
<1>16. StacksDeep'
  <2>1. /\ Depth(items', "PROC") = Depth(items, "PROC")
        /\ Depth(items', "CONDITION") = Depth(items, "CONDITION")
        /\ Depth(items', "WHILE") = Depth(items, "WHILE") - 1
        /\ Depth(items', "WHILEHEADER") = Depth(items, "WHILEHEADER")
        /\ lexErrors' = lexErrors
    BY <1>1, <1>2, <1>3 DEF Tracked, Change, HasDepth
  <2>2. Depth(items, "WHILE") \in Nat /\ Depth(items, "WHILEHEADER") \in Nat
    BY <1>2 DEF HasDepth
  <2>3. /\ Len(while_entry_backfill) = Depth(items, "WHILE") + Depth(items, "WHILEHEADER")
        /\ Len(while_not_backfill) = Depth(items, "WHILE")
    BY <1>2 DEF StacksDeep
  <2>4. /\ Len(while_entry_backfill') = Depth(items', "WHILE") + Depth(items', "WHILEHEADER")
        /\ Len(while_not_backfill') = Depth(items', "WHILE")
    BY <1>4, <1>14, <2>1, <2>2, <2>3
  <2>5. /\ UNCHANGED <<lexErrors, proc_int_backfill, proc_body_backfill, if_not_backfill>>
        /\ Depth(items', "PROC") = Depth(items, "PROC")
        /\ Depth(items', "CONDITION") = Depth(items, "CONDITION")
    BY <1>4, <2>1
  <2> QED BY <1>2, <2>4, <2>5 DEF StacksDeep
<1>17. Table!IInv'
  BY <1>2, <1>4, TableUnchanged
<1> QED BY <1>3, <1>13, <1>15, <1>16, <1>17 DEF IInv, Tracked

\* The blanks of code with a prologue behind it.
LEMMA PrologueAppended ==
  ASSUME NEW c \in Seq(Instructions)
  PROVE  c \o Prologue = (c \o <<inst_t("INT", 0, 0)>>) \o <<inst_t("JMP", 0, 0)>>
<1>1. inst_t("INT", 0, 0) \in Instructions /\ inst_t("JMP", 0, 0) \in Instructions
  BY DEF inst_t, Instructions, InstTypes
<1> DEFINE a == inst_t("INT", 0, 0)
           b == inst_t("JMP", 0, 0)
<1>2. Prologue = <<a, b>>
  BY DEF Prologue
<1> HIDE DEF a, b
<1>3. a \in Instructions /\ b \in Instructions
  BY <1>1 DEF a, b
<1> DEFINE whole == c \o <<a, b>>
           steps == (c \o <<a>>) \o <<b>>
<1>4. whole \in Seq(Instructions) /\ steps \in Seq(Instructions) /\ Len(whole) = Len(steps)
  BY <1>3
<1>5. \A k \in 1..Len(whole) : whole[k] = steps[k]
  BY <1>3
<1> HIDE DEF whole, steps
<1>6. whole = steps
  <2>1. whole = [k \in 1..Len(whole) |-> whole[k]] /\ steps = [k \in 1..Len(whole) |-> steps[k]]
    BY <1>4
  <2> QED BY <1>5, <2>1
<1> QED BY <1>2, <1>6 DEF whole, steps, a, b

\* A block's prologue is emitted, and both instructions are queued.
LEMMA PrologueQueued ==
  ASSUME StacksTyped, AllQueued, code' = code \o Prologue, PushPrologue,
         UNCHANGED <<if_not_backfill, whileStacks>>
  PROVE  /\ StacksTyped' /\ AllQueued'
         /\ Len(proc_int_backfill') = Len(proc_int_backfill) + 1
         /\ Len(proc_body_backfill') = Len(proc_body_backfill) + 1
<1>1. /\ code \in Seq(Instructions) /\ length = Len(code) /\ length \in Nat /\ length >= 2
      /\ proc_int_backfill \in Seq(Nat) /\ if_not_backfill \in Seq(Nat)
      /\ while_not_backfill \in Seq(Nat) /\ while_entry_backfill \in Seq(Nat \ {0})
      /\ proc_body_backfill \in Seq(BodyEntries) /\ JmpsOf(proc_body_backfill) \in Seq(Nat)
  BY JmpsAreStack DEF StacksTyped, length
<1> DEFINE int == inst_t("INT", 0, 0)
           jmp == inst_t("JMP", 0, 0)
           mid == code \o <<int>>
           c == mid \o <<jmp>>
           P == Append(proc_int_backfill, length)
           e == [jmp_inst |-> length + 1, proc_body |-> length + 2]
           J == Append(JmpsOf(proc_body_backfill), length + 1)
<1>2. int \in Instructions /\ Blank(int) /\ jmp \in Instructions /\ Blank(jmp)
  BY DEF inst_t, Instructions, InstTypes, Blank
<1>3. code' = c
  BY <1>1, PrologueAppended
<1>4. /\ proc_int_backfill' = P /\ proc_body_backfill' = Append(proc_body_backfill, e)
      /\ UNCHANGED <<if_not_backfill, while_entry_backfill, while_not_backfill>>
  BY DEF PushPrologue, whileStacks
<1>5. e \in BodyEntries /\ e.jmp_inst = length + 1
  BY <1>1 DEF BodyEntries
<1> HIDE DEF int, jmp, e
<1>6. mid \in Seq(Instructions) /\ Len(mid) = length + 1 /\ Blanks(mid) = Blanks(code) \cup {length}
  BY <1>1, <1>2, BlankAppended
<1> HIDE DEF mid
<1>7. c \in Seq(Instructions) /\ Len(c) = length + 2 /\ Blanks(c) = Blanks(mid) \cup {length + 1}
  <2>1. Len(c) = Len(mid) + 1 /\ c \in Seq(Instructions) /\ Blanks(c) = Blanks(mid) \cup {Len(mid)}
    BY <1>2, <1>6, BlankAppended
  <2> HIDE DEF c
  <2> QED BY <1>1, <1>6, <2>1
<1> HIDE DEF c
<1>8. length \notin Blanks(code) /\ length + 1 \notin Blanks(mid)
  <2>1. length \notin 0..(length - 1) /\ length + 1 \notin 0..(length + 1 - 1)
    BY <1>1
  <2> QED BY <1>6, <2>1 DEF Blanks, length
<1>9. P \in Seq(Nat) /\ Len(P) = Len(proc_int_backfill) + 1
  BY <1>1
<1>10. Queues(P, if_not_backfill, while_not_backfill, JmpsOf(proc_body_backfill), mid)
  BY <1>1, <1>6, <1>8, Queued DEF AllQueued
<1> HIDE DEF P
<1>11. length + 1 \in Nat
  BY <1>1
<1>12. Queues(P, if_not_backfill, while_not_backfill, J, c)
  BY <1>1, <1>7, <1>8, <1>9, <1>10, <1>11, Queued
<1>13. J = JmpsOf(proc_body_backfill')
  BY <1>1, <1>4, <1>5, JmpsPushed
<1> HIDE DEF J
<1>14. AllQueued'
  BY <1>3, <1>4, <1>12, <1>13 DEF AllQueued
<1>15. /\ proc_body_backfill' \in Seq(BodyEntries)
       /\ Len(proc_body_backfill') = Len(proc_body_backfill) + 1
  BY <1>1, <1>4, <1>5
<1>16. StacksTyped'
  BY <1>1, <1>3, <1>4, <1>7, <1>9, <1>15 DEF StacksTyped, length
<1> QED BY <1>4, <1>9, <1>14, <1>15, <1>16

\* A procedure begins (Assembler.cpp:30).
LEMMA ProcedureHeaderPreserves ==
  ASSUME IInv, ProcedureHeader
  PROVE  IInv'
<1>1. /\ Reading /\ Complete /\ r = "PROCH" /\ status = "parsing" /\ r # "PL0"
      /\ Return(nullptr)
  BY DEF ProcedureHeader, Reducing, Reading
<1>2. /\ OnTrack(items) /\ StacksTyped /\ StacksDeep /\ AllQueued /\ Table!IInv /\ HasDepth
      /\ length \in Nat /\ length = Len(code) /\ length >= 2
      /\ code \in Seq(Instructions)
      /\ proc_int_backfill \in Seq(Nat) /\ if_not_backfill \in Seq(Nat)
      /\ while_not_backfill \in Seq(Nat) /\ while_entry_backfill \in Seq(Nat \ {0})
      /\ proc_body_backfill \in Seq(BodyEntries) /\ JmpsOf(proc_body_backfill) \in Seq(Nat)
      /\ Blanks(code) \subseteq 0..(length - 1) /\ length \notin Blanks(code)
  BY <1>1, BeforeReduction
<1>3. Tracked /\ status' = status
  BY <1>1, <1>2, ValuesComplete, NothingReturned, AfterReturn DEF oprOf
<1>4. /\ code' = code \o Prologue /\ PushPrologue
      /\ UNCHANGED <<if_not_backfill, whileStacks>>
      /\ Symbol!insertProcedure(v[2].name, length)
  BY DEF ProcedureHeader, EntryAddress
<1>5. /\ StacksTyped' /\ AllQueued'
      /\ Len(proc_int_backfill') = Len(proc_int_backfill) + 1
      /\ Len(proc_body_backfill') = Len(proc_body_backfill) + 1
  BY <1>2, <1>4, PrologueQueued
<1>6. UNCHANGED <<if_not_backfill, while_entry_backfill, while_not_backfill>>
  BY <1>4 DEF whileStacks
<1>7. StacksDeep'
  <2>1. /\ Depth(items', "PROC") = Depth(items, "PROC") + 1
        /\ Depth(items', "CONDITION") = Depth(items, "CONDITION")
        /\ Depth(items', "WHILE") = Depth(items, "WHILE")
        /\ Depth(items', "WHILEHEADER") = Depth(items, "WHILEHEADER")
        /\ lexErrors' = lexErrors
    BY <1>1, <1>2, <1>3 DEF Tracked, Change, HasDepth
  <2>2. /\ Len(proc_int_backfill') = 1 + lexErrors + Depth(items', "PROC")
        /\ Len(proc_body_backfill') = 1 + lexErrors + Depth(items', "PROC")
    BY <1>2, <1>5, <2>1 DEF StacksDeep, HasDepth
  <2> QED BY <1>2, <1>6, <2>1, <2>2 DEF StacksDeep
<1>8. Table!IInv'
  <2>1. Len(rhs(r)) = 3 /\ rhs(r)[2] = ID
    BY <1>1, DeclarationsRules
  <2>2. v[2] \in ValuesOf(ID)
    <3>1. \A k \in 1..Len(rhs(r)) : v[k] \in ValuesOf(rhs(r)[k])
      BY <1>1, <1>2, ValuesComplete
    <3>2. 2 \in 1..Len(rhs(r))
      BY <2>1
    <3> QED BY <2>1, <3>1, <3>2
  <2>3. v[2].name \in Names
    BY <2>2, NamesAndNumbers DEF symbol_t
  <2>4. Table!insertProcedure(v[2].name, length)
    BY <1>4, SameUpdates
  <2> QED BY <1>2, <2>3, <2>4, TableAssumptions, Table!ProcedurePreservesIInv
<1> QED BY <1>3, <1>5, <1>7, <1>8 DEF IInv, Tracked

\* The size of a frame is not 0, so it fills a blank.
LEMMA FrameSizes ==
  ASSUME Table!IInv
  PROVE  FrameSize \in Int /\ FrameSize # 0 /\ Symbol!countLayerSize = FrameSize
<1>1. FrameSize = Table!countLayerSize /\ Symbol!countLayerSize = FrameSize
  BY SameQueries DEF FrameSize
<1>2. Table!countLayerSize \in Nat /\ Table!countLayerSize >= 3
  BY TableAssumptions, Table!LayerSizes
<1> QED BY <1>1, <1>2

\* A procedure ends: the innermost INT and JMP are filled in, and the JMP of the
\* block around it stays queued (Assembler.cpp:44).
LEMMA ProcedureEndPreserves ==
  ASSUME IInv, ProcedureEnd
  PROVE  IInv'
<1>1. /\ Reading /\ Complete /\ r = "PROC" /\ status = "parsing" /\ r # "PL0"
      /\ Return(nullptr)
  BY DEF ProcedureEnd, Reducing, Reading
<1>2. /\ OnTrack(items) /\ StacksTyped /\ StacksDeep /\ AllQueued /\ Table!IInv /\ HasDepth
      /\ length \in Nat /\ length = Len(code) /\ length >= 2
      /\ code \in Seq(Instructions)
      /\ proc_int_backfill \in Seq(Nat) /\ if_not_backfill \in Seq(Nat)
      /\ while_not_backfill \in Seq(Nat) /\ while_entry_backfill \in Seq(Nat \ {0})
      /\ proc_body_backfill \in Seq(BodyEntries) /\ JmpsOf(proc_body_backfill) \in Seq(Nat)
      /\ Blanks(code) \subseteq 0..(length - 1) /\ length \notin Blanks(code)
  BY <1>1, BeforeReduction
<1>3. Tracked /\ status' = status
  BY <1>1, <1>2, ValuesComplete, NothingReturned, AfterReturn DEF oprOf
<1> DEFINE P == proc_int_backfill
           B == proc_body_backfill
           longer == code \o insert_opr(OPR_RET)
           mid == Backfill(longer, Last(P), FrameSize)
           c == Backfill(mid, Last(B).jmp_inst, Last(B).proc_body)
           rest == UpdateUpper(Front(B))
<1>4. /\ code' = c /\ P' = Front(P) /\ B' = rest
      /\ UNCHANGED <<if_not_backfill, while_entry_backfill, while_not_backfill>>
      /\ Symbol!ascend
  BY DEF ProcedureEnd, LeaveScope, whileStacks
<1>5. P # <<>> /\ Len(B) >= 2 /\ Len(B) \in Nat
  <2>1. Depth(items, "PROC") > 0 /\ Depth(items, "PROC") \in Nat
    BY <1>1, <1>2 DEF HasDepth
  <2> QED BY <1>2, <2>1 DEF StacksDeep
<1>6. Solid(insert_opr(OPR_RET))
  BY Operations DEF OPR_RET
<1>7. longer \in Seq(Instructions) /\ Len(longer) \in Nat /\ Len(longer) >= length
      /\ Blanks(longer) = Blanks(code)
  <2>1. /\ longer \in Seq(Instructions) /\ Len(longer) = Len(code) + Len(insert_opr(OPR_RET))
        /\ Len(insert_opr(OPR_RET)) \in Nat /\ Blanks(longer) = Blanks(code)
    BY <1>2, <1>6, AppendedSolid
  <2> HIDE DEF longer
  <2> QED BY <1>2, <2>1
<1>8. /\ Front(P) \in Seq(Nat) /\ Len(Front(P)) = Len(P) - 1 /\ Last(P) \in ToSet(P)
  BY <1>2, <1>5, Popped
<1>9. /\ Front(B) \in Seq(BodyEntries) /\ Len(Front(B)) = Len(B) - 1 /\ Last(B) \in BodyEntries
      /\ JmpsOf(Front(B)) = Front(JmpsOf(B)) /\ Last(B).jmp_inst = Last(JmpsOf(B))
      /\ JmpsOf(B) # <<>>
  BY <1>2, <1>5, JmpsPopped, Popped
<1>10. Last(JmpsOf(B)) \in ToSet(JmpsOf(B))
  BY <1>2, <1>9, Popped
<1>11. Last(P) \in 0..(length - 1) /\ Last(JmpsOf(B)) \in 0..(length - 1)
  BY <1>2, <1>8, <1>10, QueuedAddresses
<1> HIDE DEF longer
<1>12. mid \in Seq(Instructions) /\ Len(mid) = Len(longer) /\ Blanks(mid) = Blanks(longer) \ {Last(P)}
  <2>1. Last(P) \in 0..(Len(longer) - 1)
    BY <1>2, <1>7, <1>11
  <2>2. FrameSize \in Int /\ FrameSize # 0
    BY <1>2, FrameSizes
  <2> QED BY <1>7, <2>1, <2>2, Filled
<1> HIDE DEF mid
<1>13. c \in Seq(Instructions) /\ Len(c) >= length /\ Blanks(c) = Blanks(mid) \ {Last(JmpsOf(B))}
  <2> DEFINE a == Last(B).jmp_inst
             x == Last(B).proc_body
  <2>1. a \in 0..(Len(mid) - 1)
    BY SMTT(60), <1>2, <1>7, <1>9, <1>11, <1>12
  <2>2. x \in Int /\ x # 0
    BY <1>9 DEF BodyEntries
  <2> HIDE DEF a, x
  <2>3. /\ Backfill(mid, a, x) \in Seq(Instructions) /\ Len(Backfill(mid, a, x)) = Len(mid)
        /\ Blanks(Backfill(mid, a, x)) = Blanks(mid) \ {a}
    BY <1>12, <2>1, <2>2, Filled
  <2> QED BY <1>7, <1>9, <1>12, <2>3 DEF a, x
<1> HIDE DEF c
<1>14. Queues(Front(P), if_not_backfill, while_not_backfill, JmpsOf(B), mid)
  BY <1>2, <1>5, <1>7, <1>12, Dequeued DEF AllQueued
<1>15. Queues(Front(P), if_not_backfill, while_not_backfill, Front(JmpsOf(B)), c)
  BY <1>2, <1>8, <1>9, <1>13, <1>14, Dequeued
<1>16. rest \in Seq(BodyEntries) /\ JmpsOf(rest) = Front(JmpsOf(B)) /\ Len(rest) = Len(B) - 1
  <2>1. Front(B) # <<>>
    BY <1>5, <1>9
  <2> QED BY <1>2, <1>9, <2>1, UpperUpdated
<1> HIDE DEF rest
<1>17. AllQueued'
  BY <1>4, <1>15, <1>16 DEF AllQueued
<1>18. StacksTyped'
  <2>1. code' \in Seq(Instructions) /\ length' >= 2
    BY <1>2, <1>4, <1>13 DEF length
  <2> QED BY <1>2, <1>4, <1>8, <1>16, <2>1 DEF StacksTyped
<1>19. StacksDeep'
  <2>1. /\ Depth(items', "PROC") = Depth(items, "PROC") - 1
        /\ Depth(items', "CONDITION") = Depth(items, "CONDITION")
        /\ Depth(items', "WHILE") = Depth(items, "WHILE")
        /\ Depth(items', "WHILEHEADER") = Depth(items, "WHILEHEADER")
        /\ lexErrors' = lexErrors
    BY <1>1, <1>2, <1>3 DEF Tracked, Change, HasDepth
  <2>2. /\ Len(P') = 1 + lexErrors + Depth(items', "PROC")
        /\ Len(B') = 1 + lexErrors + Depth(items', "PROC")
    BY <1>2, <1>4, <1>8, <1>16, <2>1 DEF StacksDeep, HasDepth
  <2> QED BY <1>2, <1>4, <2>1, <2>2 DEF StacksDeep
<1>20. Table!IInv'
  <2>1. Table!ascend
    BY <1>4, SameUpdates
  <2> QED BY <1>2, <2>1, TableAssumptions, Table!AscendPreservesIInv
<1> QED BY <1>3, <1>17, <1>18, <1>19, <1>20 DEF IInv, Tracked

\* A lexical error puts another prologue into the code, and on the stacks, so the
\* stacks stay deep enough (plc.cpp:31-39).
LEMMA LexicalErrorPreserves ==
  ASSUME IInv, LexicalError
  PROVE  IInv'
<1>1. status = "parsing" /\ Reading
  BY DEF LexicalError, Reading
<1>2. /\ OnTrack(items) /\ StacksTyped /\ StacksDeep /\ AllQueued /\ Table!IInv /\ HasDepth
      /\ length \in Nat /\ length = Len(code) /\ length >= 2
      /\ code \in Seq(Instructions)
      /\ proc_int_backfill \in Seq(Nat) /\ if_not_backfill \in Seq(Nat)
      /\ while_not_backfill \in Seq(Nat) /\ while_entry_backfill \in Seq(Nat \ {0})
      /\ proc_body_backfill \in Seq(BodyEntries) /\ JmpsOf(proc_body_backfill) \in Seq(Nat)
      /\ Blanks(code) \subseteq 0..(length - 1) /\ length \notin Blanks(code)
  BY <1>1, BeforeReduction
<1>3. /\ code' = code \o Prologue /\ PushPrologue
      /\ UNCHANGED <<if_not_backfill, whileStacks, items, status, symbols>>
      /\ lexErrors' = lexErrors + 1
  BY DEF LexicalError, insert
<1>4. /\ StacksTyped' /\ AllQueued'
      /\ Len(proc_int_backfill') = Len(proc_int_backfill) + 1
      /\ Len(proc_body_backfill') = Len(proc_body_backfill) + 1
  BY <1>2, <1>3, PrologueQueued
<1>5. UNCHANGED <<if_not_backfill, while_entry_backfill, while_not_backfill>>
  BY <1>3 DEF whileStacks
<1>6. StacksDeep'
  <2>1. Depth(items, "PROC") \in Nat
    BY <1>2 DEF HasDepth
  <2>2. items' = items /\ lexErrors' = lexErrors + 1
    BY <1>3
  <2>3. lexErrors \in Nat /\ StacksDeep
    BY <1>2 DEF StacksDeep
  <2>4. Len(proc_int_backfill') = 1 + lexErrors' + Depth(items, "PROC")
    BY <1>4, <2>1, <2>2, <2>3 DEF StacksDeep
  <2>5. Len(proc_body_backfill') = 1 + lexErrors' + Depth(items, "PROC")
    BY <1>4, <2>1, <2>2, <2>3 DEF StacksDeep
  <2> QED BY <1>5, <2>2, <2>3, <2>4, <2>5 DEF StacksDeep
<1>7. Table!IInv'
  BY <1>2, <1>3, TableUnchanged
<1> QED BY <1>2, <1>3, <1>4, <1>6, <1>7 DEF IInv
----------------------------------------------------------------------------
(***************************************************************************)
(* The theorems.                                                           *)
(***************************************************************************)

\* The first prologue is queued before anything is read.
LEMMA InitIInv == Init => IInv
<1> SUFFICES ASSUME Init PROVE OnTrack(items) /\ StacksTyped /\ StacksDeep /\ AllQueued /\ Table!IInv
  BY DEF IInv
<1>1. /\ items = <<Item("PL0", <<>>)>> /\ code = Prologue /\ lexErrors = 0
      /\ proc_int_backfill = <<0>>
      /\ proc_body_backfill = <<[jmp_inst |-> 1, proc_body |-> 2]>>
      /\ if_not_backfill = <<>> /\ while_entry_backfill = <<>> /\ while_not_backfill = <<>>
  BY DEF Init
<1>2. OnTrack(items) /\ \A p : Begun(items, p) = {}
  <2> DEFINE it == Item("PL0", <<>>)
  <2>1. "PL0" \in DOMAIN Rules
    BY RuleNames DEF Declarations
  <2>2. it \in Items /\ it.rule = "PL0" /\ it.vals = <<>>
    BY <2>1 DEF Item, Items
  <2>3. Len(rhs("PL0")) = 1
    BY DeclarationsRules
  <2>4. ItemFits(it)
    BY <2>2, <2>3 DEF ItemFits
  <2> HIDE DEF it
  <2>5. items \in Seq(Items) /\ Len(items) = 1 /\ items[1] = it
    BY <1>1, <2>2 DEF it
  <2>6. OnTrack(items)
    BY <2>2, <2>4, <2>5 DEF OnTrack
  <2> QED BY <2>2, <2>5, <2>6 DEF Begun
<1>3. \A p : Depth(items, p) = 0
  BY <1>2, FS_EmptySet DEF Depth
<1>4. inst_t("INT", 0, 0) \in Instructions /\ inst_t("JMP", 0, 0) \in Instructions
      /\ Blank(inst_t("INT", 0, 0)) /\ Blank(inst_t("JMP", 0, 0))
  BY DEF inst_t, Instructions, InstTypes, Blank
<1>5. /\ code \in Seq(Instructions) /\ Len(code) = 2
      /\ Blank(code[1]) /\ Blank(code[2])
  BY <1>1, <1>4 DEF Prologue
<1>6. Blanks(code) = {0, 1}
  <2>1. 0..(Len(code) - 1) = {0, 1}
    BY <1>5
  <2> QED BY <1>5, <2>1 DEF Blanks
<1>7. StacksTyped
  BY <1>1, <1>5 DEF StacksTyped, length, BodyEntries
<1>8. StacksDeep
  BY <1>1, <1>3 DEF StacksDeep
<1>9. AllQueued
  <2>1. JmpsOf(proc_body_backfill) = <<1>>
    <3>1. [jmp_inst |-> 1, proc_body |-> 2] \in BodyEntries /\ <<>> \in Seq(BodyEntries)
      BY DEF BodyEntries
    <3>2. JmpsOf(<<>>) = <<>>
      BY DEF JmpsOf
    <3>3. proc_body_backfill = Append(<<>>, [jmp_inst |-> 1, proc_body |-> 2])
      BY <1>1
    <3>4. JmpsOf(proc_body_backfill) = Append(<<>>, 1)
      BY <3>1, <3>2, <3>3, JmpsPushed
    <3> QED BY <3>4
  <2>2. \A x : ToSet(<<x>>) = {x} /\ IsInjective(<<x>>)
    BY DEF ToSet, IsInjective
  <2>3. ToSet(<<>>) = {} /\ IsInjective(<<>>)
    BY DEF ToSet, IsInjective
  <2> QED BY <1>1, <1>6, <2>1, <2>2, <2>3 DEF AllQueued, Queues
<1>10. Table!IInv
  <2>1. Table!Init
    BY SameUpdates DEF Init
  <2> QED BY <2>1, TableAssumptions, Table!InitIInv
<1> QED BY <1>2, <1>7, <1>8, <1>9, <1>10

\* The compiler's stacks, its code and the rules the source is in fit each
\* other, whatever the source program, as long as it is read.
THEOREM Invariance == Spec => []IInv
<1>1. IInv /\ [Next]_vars => IInv'
  <2> SUFFICES ASSUME IInv, [Next]_vars PROVE IInv'
    OBVIOUS
  <2>1. ASSUME NEW p \in Productions, Expand(p) PROVE IInv'
    BY <2>1, ExpandPreserves
  <2>2. CASE Shift
    BY <2>2, ShiftPreserves
  <2>3. CASE Default
    BY <2>3, DefaultPreserves
  <2>4. CASE Declare
    BY <2>4, DeclarePreserves
  <2>5. CASE ProcedureHeader
    BY <2>5, ProcedureHeaderPreserves
  <2>6. CASE ProcedureEnd
    BY <2>6, ProcedureEndPreserves
  <2>7. CASE EmitSimple
    BY <2>7, EmitSimplePreserves
  <2>8. CASE ReadOperator
    BY <2>8, ReadOperatorPreserves
  <2>9. CASE ApplyOperator
    BY <2>9, ApplyOperatorPreserves
  <2>10. CASE Assertion
    BY <2>10, AssertionPreserves
  <2>11. CASE Assign
    BY <2>11, AssignPreserves
  <2>12. CASE IfHeader
    BY <2>12, IfHeaderPreserves
  <2>13. CASE IfEnd
    BY <2>13, IfEndPreserves
  <2>14. CASE WhileEntry
    BY <2>14, WhileEntryPreserves
  <2>15. CASE WhileHeader
    BY <2>15, WhileHeaderPreserves
  <2>16. CASE WhileEnd
    BY <2>16, WhileEndPreserves
  <2>17. CASE Succeed
    BY <2>17 DEF Succeed, IInv
  <2>18. CASE SyntaxErrorFound
    BY <2>18 DEF SyntaxErrorFound, IInv
  <2>19. CASE LexicalError
    BY <2>19, LexicalErrorPreserves
  <2>20. CASE Done
    BY <2>20 DEF Done, IInv, vars, automaton
  <2>21. CASE UNCHANGED vars
    <3>1. UNCHANGED <<items, status, lexErrors, code, proc_int_backfill, proc_body_backfill,
                      if_not_backfill, while_entry_backfill, while_not_backfill, symbols>>
      BY <2>21 DEF vars, automaton, stacks, procStacks, whileStacks
    <3>2. Table!IInv => Table!IInv'
      BY <3>1, TableUnchanged
    <3>3. (OnTrack(items) => OnTrack(items')) /\ (StacksTyped => StacksTyped')
          /\ (StacksDeep => StacksDeep') /\ (AllQueued => AllQueued') /\ status' = status
      BY <3>1 DEF StacksTyped, StacksDeep, AllQueued, length
    <3> QED BY <3>2, <3>3 DEF IInv
  <2> QED BY <2>1, <2>2, <2>3, <2>4, <2>5, <2>6, <2>7, <2>8, <2>9, <2>10, <2>11, <2>12,
             <2>13, <2>14, <2>15, <2>16, <2>17, <2>18, <2>19, <2>20, <2>21 DEF Next
<1> QED BY InitIInv, <1>1, PTL DEF Spec

\* No action takes from an empty backfill stack, however procedures, ifs and
\* loops nest, and however many lexical errors put prologues between them.
THEOREM BackfillReadyHolds == Spec => []BackfillReady
<1>1. IInv => BackfillReady
  <2> SUFFICES ASSUME IInv PROVE BackfillReady
    OBVIOUS
  <2>1. ASSUME status = "parsing"
        PROVE  StacksDeep /\ StacksTyped /\ HasDepth /\ lexErrors \in Nat
               /\ Depth(items, "PROC") \in Nat
    BY <2>1, DepthsAreNatural DEF IInv, StacksDeep, HasDepth
  <2>2. ASSUME Reducing({"PROC"})
        PROVE  proc_int_backfill # <<>> /\ Len(proc_body_backfill) >= 2
    <3>1. status = "parsing" /\ Depth(items, "PROC") > 0 /\ Depth(items, "PROC") \in Nat
      BY <2>1, <2>2 DEF Reducing, Reading, HasDepth
    <3> QED BY <2>1, <3>1 DEF StacksDeep, StacksTyped
  <2>3. ASSUME Reducing({"CONDITION"})
        PROVE  if_not_backfill # <<>>
    <3>1. status = "parsing" /\ Depth(items, "CONDITION") > 0
      BY <2>1, <2>3 DEF Reducing, Reading, HasDepth
    <3> QED BY <2>1, <3>1 DEF StacksDeep, StacksTyped
  <2>4. ASSUME Reducing({"WHILE"})
        PROVE  while_entry_backfill # <<>> /\ while_not_backfill # <<>>
    <3>1. /\ status = "parsing" /\ Depth(items, "WHILE") > 0 /\ Depth(items, "WHILE") \in Nat
          /\ Depth(items, "WHILEHEADER") \in Nat
      BY <2>1, <2>4 DEF Reducing, Reading, HasDepth
    <3> QED BY SMTT(60), <2>1, <3>1 DEF StacksDeep, StacksTyped
  <2>5. status = "parsing" => proc_body_backfill # <<>>
    BY <2>1 DEF StacksDeep, StacksTyped
  <2> QED BY <2>2, <2>3, <2>4, <2>5 DEF BackfillReady
<1> QED BY Invariance, <1>1, PTL

\* As long as the source is read, the instructions that lack their operand are
\* exactly the ones the backfill stacks remember, each of them once.
THEOREM PlaceholdersQueuedHolds == Spec => []PlaceholdersQueued
<1>1. IInv => PlaceholdersQueued
  <2> SUFFICES ASSUME IInv, status = "parsing"
               PROVE  ToSet(Remembered) = Placeholders /\ IsInjective(Remembered)
    BY DEF PlaceholdersQueued
  <2> DEFINE P == proc_int_backfill
             F == if_not_backfill
             W == while_not_backfill
             J == JmpsOf(proc_body_backfill)
  <2>1. /\ P \in Seq(Nat) /\ F \in Seq(Nat) /\ W \in Seq(Nat) /\ J \in Seq(Nat)
        /\ Queues(P, F, W, J, code)
    BY BeforeReduction DEF AllQueued
  <2>2. Remembered = ((P \o F) \o W) \o J
    BY DEF Remembered, JmpsOf
  <2>3. Placeholders = Blanks(code)
    BY DEF Placeholders, Blanks, Blank, Addresses, At, length
  <2> HIDE DEF P, F, W, J
  <2> DEFINE two == P \o F
             three == two \o W
             four == three \o J
  <2>4. /\ two \in Seq(Nat) /\ ToSet(two) = ToSet(P) \cup ToSet(F)
        /\ IsInjective(two)
    BY <2>1, Joined DEF Queues
  <2> HIDE DEF two
  <2>5. /\ three \in Seq(Nat) /\ ToSet(three) = ToSet(two) \cup ToSet(W)
        /\ IsInjective(three)
    <3>1. ToSet(two) \cap ToSet(W) = {}
      BY <2>1, <2>4 DEF Queues
    <3> QED BY <2>1, <2>4, <3>1, Joined DEF Queues
  <2> HIDE DEF three
  <2>6. ToSet(four) = ToSet(three) \cup ToSet(J) /\ IsInjective(four)
    <3>1. ToSet(three) \cap ToSet(J) = {}
      BY <2>1, <2>4, <2>5 DEF Queues
    <3> QED BY <2>1, <2>5, <3>1, Joined DEF Queues
  <2> HIDE DEF four
  <2>7. Remembered = four
    BY <2>2 DEF four, three, two
  <2> QED BY <2>1, <2>3, <2>4, <2>5, <2>6, <2>7 DEF Queues
<1> QED BY Invariance, <1>1, PTL
----------------------------------------------------------------------------
(***************************************************************************)
(* Operands: the values that the code of an expression leaves behind.      *)
(***************************************************************************)

\* The symbols of expressions, the other nonterminals, and the other rules
\* that have an expression in them.
ExpressionSymbols ==
  {"Sassert", "Sexpr", "Sexprop", "Sexpritem", "Sfactor", "Soptfactor", "Smdop",
   "Soptexpritem", "Sasop", "Srelop"}
OtherSymbols ==
  {"Spl0", "Sprog", "Ssubprog", "Sconst", "Sconstdef", "Soptconstdef", "Svar",
   "Soptid", "Sproc", "Sprocheader", "Ssentence", "Sassign", "Scomplex", "Smultist",
   "Soptmultist", "Scondheader", "Scondition", "Scall", "Swhileflag", "Swhileheader",
   "Swhile", "Sread", "Soptreadid", "Swrite", "Soptwriteid"}
ExpressionRules == Expressions \cup Operators
Containing == {"ASSIGN", "CONDHEADER", "WHILEHEADER", "WRITE", "OPTWRID"}

\* In an expression there is nothing else, and behind one no other nonterminal.
ExpressionsInPlace(q) ==
  /\ IF q \in ExpressionRules THEN lhs(q) \in ExpressionSymbols ELSE lhs(q) \in OtherSymbols
  /\ \A k \in DOMAIN rhs(q) :
       /\ rhs(q)[k] \in ExpressionSymbols => k <= 4 /\ q \in ExpressionRules \cup Containing
       /\ rhs(q)[k] \in OtherSymbols =>
            /\ q \notin ExpressionRules
            /\ \A j \in DOMAIN rhs(q) : rhs(q)[j] \in ExpressionSymbols => k < j

\* Where expressions stand in the rules of the grammar.
LEMMA ExpressionsInPlaceEverywhere == \A q \in DOMAIN Rules : ExpressionsInPlace(q)
<1>1. \A q \in Declarations : ExpressionsInPlace(q)
  BY SMTT(60), SeparatorsAreTerminals, CommaIsTerminal, DeclarationsRules
     DEF Declarations, Expressions, Operators, ExpressionRules, Containing, ExpressionsInPlace,
         ExpressionSymbols, OtherSymbols, ID, NUM
<1>2. \A q \in Statements : ExpressionsInPlace(q)
  BY SMTT(60), SeparatorsAreTerminals, CommaIsTerminal, StatementsRules
     DEF Statements, Expressions, Operators, ExpressionRules, Containing, ExpressionsInPlace,
         ExpressionSymbols, OtherSymbols, ID, NUM
<1>3. \A q \in Expressions : ExpressionsInPlace(q)
  BY SMTT(60), SeparatorsAreTerminals, CommaIsTerminal, ExpressionsRules
     DEF Expressions, Operators, ExpressionRules, Containing, ExpressionsInPlace,
         ExpressionSymbols, OtherSymbols, ID, NUM
<1>4. \A q \in Operators : ExpressionsInPlace(q)
  BY SMTT(60), SeparatorsAreTerminals, CommaIsTerminal, OperatorsRules
     DEF Expressions, Operators, ExpressionRules, Containing, ExpressionsInPlace,
         ExpressionSymbols, OtherSymbols, ID, NUM
<1>5. \A q \in ControlAndIO : ExpressionsInPlace(q)
  BY SMTT(60), SeparatorsAreTerminals, CommaIsTerminal, ControlAndIORules
     DEF ControlAndIO, Expressions, Operators, ExpressionRules, Containing, ExpressionsInPlace,
         ExpressionSymbols, OtherSymbols, ID, NUM
<1> QED
  BY RuleNames, <1>1, <1>2, <1>3, <1>4, <1>5

\* Values that the code of a symbol leaves: a sign leaves the 0 it subtracts
\* from, and of what is optional only what is there leaves one.
Worth(s, w) ==
  IF \/ s \in {"Sassert", "Sexpr", "Sexpritem", "Sfactor"}
     \/ s \in {"Sexprop", "Soptfactor", "Soptexpritem"} /\ w \notin {nullptr, Operator(OPR_NOP)}
  THEN 1 ELSE 0
WorthAt(it, j) == IF j <= Len(it.vals) THEN Worth(rhs(it.rule)[j], it.vals[j]) ELSE 0

\* Those that the recognized part of an item has left: they are used when the
\* item is complete.
Held(it) == WorthAt(it, 1) + WorthAt(it, 2) + WorthAt(it, 3) + WorthAt(it, 4)

\* The values there are in front of each item and behind the last; a rule that
\* is not of an expression begins where there are none.
Stacked(its, h) ==
  /\ h \in [0..Len(its) -> Nat] /\ h[0] = 0
  /\ \A k \in 1..Len(its) : h[k] = h[k - 1] + Held(its[k])
Clear(its, h) ==
  \A k \in 1..Len(its) : its[k].rule \notin ExpressionRules => h[k - 1] = 0

\* No symbol but those of expressions leaves a value.
LEMMA WorthNothing ==
  ASSUME NEW s, s \notin ExpressionSymbols, NEW w
  PROVE  Worth(s, w) = 0
BY DEF Worth, ExpressionSymbols

\* No symbol leaves more than one.
LEMMA WorthIsNatural == \A s, w : Worth(s, w) \in {0, 1}
BY DEF Worth

\* These symbols are no terminals.
LEMMA TerminalsAreOther == \A s \in Terminals : s \notin ExpressionSymbols /\ s \notin OtherSymbols
<1>1. \A s \in ExpressionSymbols : \E q \in DOMAIN Rules : s = lhs(q)
  BY RuleNames, ExpressionsRules, OperatorsRules DEF ExpressionSymbols, Expressions, Operators
<1>2. \A s \in OtherSymbols : \E q \in DOMAIN Rules : s = lhs(q)
  <2>1. {"PL0", "PROG", "SUBPROG", "ECONST", "CONSTDEF", "EOPTCONSTDEF", "EVAR", "EOPTVARID", "EPROC", "PROCH",
         "ESENTENCE", "ASSIGN", "COMPLEX", "MULTIST", "EOPTMULTIST", "CONDHEADER", "CONDITION",
         "CALL", "WHILEFLAG", "WHILEHEADER", "WHILE", "READ", "EOPTRDID", "WRITE", "EOPTWRID"}
          \subseteq DOMAIN Rules
    BY RuleNames DEF Declarations, Statements, ControlAndIO
  <2> QED BY <2>1, DeclarationsRules, StatementsRules, ControlAndIORules DEF OtherSymbols
<1> QED BY <1>1, <1>2, MadeByRules

\* An item that has recognized one more symbol.
LEMMA HeldNext ==
  ASSUME NEW it \in Items, NEW s, Awaits(it, s), NEW value, NEW new,
         new.rule = it.rule, new.vals = Append(it.vals, value)
  PROVE  Held(new) = Held(it) + Worth(s, value) /\ Held(it) \in Nat
<1> DEFINE n == Len(it.vals)
<1>1. it.vals \in Seq(AllValues) /\ n \in Nat /\ it.rule \in DOMAIN Rules
  BY DEF Items
<1>2. /\ Len(new.vals) = n + 1 /\ new.vals[n + 1] = value
      /\ \A j \in 1..n : new.vals[j] = it.vals[j]
  BY <1>1
<1>3. rhs(it.rule)[n + 1] = s /\ n + 1 \in DOMAIN rhs(it.rule)
  BY <1>1, RhsAreSequences DEF Awaits, RhsIsSequence
<1> HIDE DEF n
<1>4. \A j \in 1..4 : WorthAt(it, j) \in {0, 1}
  BY WorthIsNatural DEF WorthAt
<1>5. ASSUME NEW j \in 1..4
      PROVE  WorthAt(new, j) = WorthAt(it, j) + (IF j = n + 1 THEN Worth(s, value) ELSE 0)
  <2>1. CASE j <= n
    <3>1. j \in 1..n /\ j <= n + 1 /\ j # n + 1
      BY <1>1, <2>1
    <3>2. WorthAt(new, j) = WorthAt(it, j)
      BY <1>2, <3>1 DEF WorthAt, n
    <3> QED BY <1>4, <3>1, <3>2
  <2>2. CASE j = n + 1
    <3>1. WorthAt(it, j) = 0
      BY <1>1, <2>2 DEF WorthAt, n
    <3>2. WorthAt(new, j) = Worth(s, value)
      BY <1>2, <1>3, <2>2 DEF WorthAt
    <3> QED BY <2>2, <3>1, <3>2, WorthIsNatural
  <2>3. CASE j > n + 1
    <3>1. WorthAt(it, j) = 0 /\ WorthAt(new, j) = 0
      BY <1>1, <1>2, <2>3 DEF WorthAt, n
    <3> QED BY <1>1, <2>3, <3>1
  <2> QED BY <1>1, <2>1, <2>2, <2>3
<1>6. n + 1 > 4 => Worth(s, value) = 0
  <2>1. n + 1 > 4 => s \notin ExpressionSymbols
    BY <1>1, <1>3, ExpressionsInPlaceEverywhere DEF ExpressionsInPlace
  <2> QED BY <2>1, WorthNothing
<1>7. Worth(s, value) \in {0, 1} /\ n + 1 \in Nat \ {0}
  BY <1>1, WorthIsNatural
<1> DEFINE w == Worth(s, value)
           a == WorthAt(it, 1)
           b == WorthAt(it, 2)
           c == WorthAt(it, 3)
           d == WorthAt(it, 4)
<1>8. a \in Nat /\ b \in Nat /\ c \in Nat /\ d \in Nat /\ w \in Nat
  BY <1>4, <1>7
<1>9. /\ WorthAt(new, 1) = a + (IF n + 1 = 1 THEN w ELSE 0)
      /\ WorthAt(new, 2) = b + (IF n + 1 = 2 THEN w ELSE 0)
      /\ WorthAt(new, 3) = c + (IF n + 1 = 3 THEN w ELSE 0)
      /\ WorthAt(new, 4) = d + (IF n + 1 = 4 THEN w ELSE 0)
  BY <1>5
<1> HIDE DEF w, a, b, c, d
<1>10. n = 0 \/ n = 1 \/ n = 2 \/ n = 3 \/ w = 0
  BY <1>1, <1>6 DEF w
<1>11. WorthAt(new, 1) + WorthAt(new, 2) + WorthAt(new, 3) + WorthAt(new, 4) = (a + b + c + d) + w
  <2> DEFINE A == WorthAt(new, 1)
             B == WorthAt(new, 2)
             C == WorthAt(new, 3)
             D == WorthAt(new, 4)
  <2>1. \/ A = a + w /\ B = b /\ C = c /\ D = d
        \/ A = a /\ B = b + w /\ C = c /\ D = d
        \/ A = a /\ B = b /\ C = c + w /\ D = d
        \/ A = a /\ B = b /\ C = c /\ D = d + w
    BY <1>1, <1>8, <1>9, <1>10
  <2> HIDE DEF A, B, C, D
  <2>2. A + B + C + D = (a + b + c + d) + w
    BY <1>8, <2>1
  <2> QED BY <2>2 DEF A, B, C, D
<1> QED BY <1>8, <1>11 DEF Held, a, b, c, d, w


\* An item that has recognized nothing holds nothing.
LEMMA HeldFirst ==
  ASSUME NEW p
  PROVE  Held(Item(p, <<>>)) = 0
<1>1. Item(p, <<>>).vals = <<>> /\ Len(<<>>) = 0
  BY DEF Item
<1>2. \A j \in 1..4 : WorthAt(Item(p, <<>>), j) = 0
  BY <1>1 DEF WorthAt
<1> QED BY <1>2 DEF Held

\* A rule that is not of an expression begins where its item holds nothing yet.
LEMMA OthersBeginClear ==
  ASSUME OnTrack(items), ~Complete, NEW p \in DOMAIN Rules, Upcoming = lhs(p),
         p \notin ExpressionRules
  PROVE  r \notin ExpressionRules /\ Held(items[Len(items)]) = 0
<1> DEFINE it == items[Len(items)]
<1>1. /\ it \in Items /\ r = it.rule /\ v = it.vals /\ r \in DOMAIN Rules /\ Len(v) \in Nat
      /\ Awaits(it, lhs(p))
  BY Innermost
<1> HIDE DEF it
<1>2. /\ Len(v) + 1 \in DOMAIN rhs(r) /\ rhs(r)[Len(v) + 1] = lhs(p)
      /\ DOMAIN rhs(r) = 1..Len(rhs(r)) /\ Len(rhs(r)) \in Nat
  BY <1>1, RhsAreSequences DEF Awaits, RhsIsSequence
<1>3. lhs(p) \in OtherSymbols
  BY ExpressionsInPlaceEverywhere DEF ExpressionsInPlace
<1>4. /\ r \notin ExpressionRules
      /\ \A j \in DOMAIN rhs(r) : rhs(r)[j] \in ExpressionSymbols => Len(v) + 1 < j
  BY <1>1, <1>2, <1>3, ExpressionsInPlaceEverywhere DEF ExpressionsInPlace
<1>5. ASSUME NEW j \in 1..4 PROVE WorthAt(it, j) = 0
  <2>1. CASE j <= Len(v)
    <3>1. j \in DOMAIN rhs(r) /\ ~(Len(v) + 1 < j)
      BY <1>1, <1>2, <2>1
    <3>2. rhs(r)[j] \notin ExpressionSymbols
      BY <1>4, <3>1
    <3> QED BY <1>1, <3>2, WorthNothing DEF WorthAt
  <2>2. CASE ~(j <= Len(v))
    BY <1>1, <2>2 DEF WorthAt
  <2> QED BY <2>1, <2>2
<1>6. Held(it) = 0
  BY <1>5 DEF Held
<1> QED BY <1>4, <1>6 DEF it

\* The heights are numbers.
LEMMA HeightsAreNatural ==
  ASSUME NEW its \in Seq(Items), Len(its) > 0, NEW h, Stacked(its, h)
  PROVE  /\ Len(its) \in Nat /\ h[Len(its)] \in Nat /\ h[Len(its) - 1] \in Nat
         /\ h[Len(its)] = h[Len(its) - 1] + Held(its[Len(its)])
<1> DEFINE n == Len(its)
<1>1. n \in Nat /\ n \in 1..n /\ n \in 0..n /\ n - 1 \in 0..n
  OBVIOUS
<1> HIDE DEF n
<1> QED BY <1>1 DEF Stacked, n

\* A rule begins.
LEMMA StackedByExpanding ==
  ASSUME OnTrack(items), ~Complete, NEW p \in DOMAIN Rules, Upcoming = lhs(p),
         NEW h, Stacked(items, h), Clear(items, h)
  PROVE  \E g : /\ Stacked(Append(items, Item(p, <<>>)), g) /\ Clear(Append(items, Item(p, <<>>)), g)
                /\ g[Len(items) + 1] = h[Len(items)]
<1> DEFINE its == Append(items, Item(p, <<>>))
           n == Len(items)
           g == [k \in 0..(n + 1) |-> IF k = n + 1 THEN h[n] ELSE h[k]]
<1>1. items \in Seq(Items) /\ n \in Nat /\ n >= 1 /\ Item(p, <<>>) \in Items /\ Item(p, <<>>).rule = p
  BY DEF OnTrack, Item, Items
<1>2. h \in [0..n -> Nat] /\ h[0] = 0 /\ \A k \in 1..n : h[k] = h[k - 1] + Held(items[k])
  BY DEF Stacked
<1>3. its \in Seq(Items) /\ Len(its) = n + 1 /\ its[n + 1] = Item(p, <<>>) /\ \A k \in 1..n : its[k] = items[k]
  BY <1>1
<1> HIDE DEF its, n
<1>4. g \in [0..(n + 1) -> Nat] /\ g[n + 1] = h[n] /\ \A k \in 0..n : g[k] = h[k]
  BY <1>1, <1>2
<1> HIDE DEF g
<1>5. Stacked(its, g)
  <2>1. ASSUME NEW k \in 1..(n + 1) PROVE g[k] = g[k - 1] + Held(its[k])
    <3>1. CASE k = n + 1
      <4>1. g[k - 1] = h[n] /\ h[n] \in Nat /\ Held(its[k]) = 0
        BY <1>1, <1>2, <1>3, <1>4, <3>1, HeldFirst
      <4> QED BY <1>4, <3>1, <4>1
    <3>2. CASE k # n + 1
      <4>1. k \in 1..n /\ k \in 0..n /\ k - 1 \in 0..n
        BY <1>1, <3>2
      <4> QED BY <1>2, <1>3, <1>4, <4>1
    <3> QED BY <3>1, <3>2
  <2>2. g[0] = 0
    BY <1>1, <1>2, <1>4
  <2> QED BY <1>3, <1>4, <2>1, <2>2 DEF Stacked
<1>6. Clear(its, g)
  <2>1. ASSUME NEW k \in 1..(n + 1), its[k].rule \notin ExpressionRules PROVE g[k - 1] = 0
    <3>1. CASE k = n + 1
      <4>1. p \notin ExpressionRules
        BY <1>1, <1>3, <2>1, <3>1
      <4>2. items[n].rule \notin ExpressionRules /\ Held(items[n]) = 0
        BY <4>1, OthersBeginClear, Innermost DEF n
      <4>3. n \in 1..n /\ n - 1 \in 0..n /\ k - 1 = n /\ n \in 0..n
        BY <1>1, <3>1
      <4>4. h[n - 1] = 0 /\ h[n] = h[n - 1] + Held(items[n])
        BY <1>2, <4>2, <4>3 DEF Clear, n
      <4> QED BY <1>4, <4>2, <4>3, <4>4
    <3>2. CASE k # n + 1
      <4>1. k \in 1..n /\ k - 1 \in 0..n
        BY <1>1, <3>2
      <4> QED BY <1>3, <1>4, <2>1, <4>1 DEF Clear, n
    <3> QED BY <3>1, <3>2
  <2> QED BY <1>3, <2>1 DEF Clear
<1> QED BY <1>4, <1>5, <1>6 DEF its, n

\* The innermost item recognizes one more symbol.
LEMMA StackedByRecognizing ==
  ASSUME NEW its, OnTrack(its), NEW s, Awaits(its[Len(its)], s), s \in Symbols, NEW value \in ValuesOf(s),
         NEW h, Stacked(its, h), Clear(its, h)
  PROVE  \E g : /\ Stacked(Recognized(its, value), g) /\ Clear(Recognized(its, value), g)
                /\ Len(Recognized(its, value)) = Len(its)
                /\ g[Len(its)] = h[Len(its)] + Worth(s, value)
<1> DEFINE new == Recognized(its, value)
           n == Len(its)
           w == Worth(s, value)
           g == [k \in 0..n |-> IF k = n THEN h[n] + w ELSE h[k]]
<1>1. its \in Seq(Items) /\ n \in Nat /\ n >= 1 /\ its[n] \in Items
  BY DEF OnTrack
<1>2. h \in [0..n -> Nat] /\ h[0] = 0 /\ \A k \in 1..n : h[k] = h[k - 1] + Held(its[k])
  BY DEF Stacked
<1>3. /\ OnTrack(new) /\ Len(new) = n /\ new[n].rule = its[n].rule
  BY RecognizedNext
<1>4. new[n].vals = Append(its[n].vals, value) /\ \A k \in 1..(n - 1) : new[k] = its[k]
  <2> DEFINE it == its[n]
             vals == it.vals
             fuller == [it EXCEPT !.vals = Append(@, value)]
  <2>1. it \in [rule : DOMAIN Rules, vals : Seq(AllValues)]
    BY <1>1 DEF Items
  <2>2. fuller.vals = Append(vals, value)
    BY <2>1
  <2> HIDE DEF fuller
  <2>3. new = [its EXCEPT ![n] = fuller]
    BY DEF Recognized, fuller
  <2>4. new[n] = fuller /\ \A k \in 1..(n - 1) : new[k] = its[k]
    BY <1>1, <2>3
  <2> QED BY <2>2, <2>4
<1> HIDE DEF new, n
<1>5. w \in Nat /\ Held(new[n]) = Held(its[n]) + w /\ Held(its[n]) \in Nat
  <2>1. w \in {0, 1}
    BY WorthIsNatural
  <2>2. Awaits(its[n], s)
    BY DEF n
  <2>3. Held(new[n]) = Held(its[n]) + w /\ Held(its[n]) \in Nat
    BY <1>1, <1>3, <1>4, <2>2, HeldNext
  <2> QED BY <2>1, <2>3
<1> HIDE DEF w
<1>6. n \in 0..n /\ h[n] \in Nat
  BY <1>1, <1>2
<1>7. g \in [0..n -> Nat] /\ g[n] = h[n] + w /\ \A k \in 0..(n - 1) : g[k] = h[k]
  <2> DEFINE top == h[n] + w
  <2>1. top \in Nat
    BY <1>5, <1>6
  <2> HIDE DEF top
  <2>2. g = [k \in 0..n |-> IF k = n THEN top ELSE h[k]]
    BY DEF top
  <2> HIDE DEF g
  <2>3. \A k \in 0..(n - 1) : k \in 0..n /\ k # n
    BY <1>1
  <2>4. g \in [0..n -> Nat] /\ g[n] = top /\ \A k \in 0..(n - 1) : g[k] = h[k]
    BY <1>2, <1>6, <2>1, <2>2, <2>3
  <2> QED BY <2>4 DEF top
<1> HIDE DEF g
<1>8. Stacked(new, g)
  <2>1. ASSUME NEW k \in 1..n PROVE g[k] = g[k - 1] + Held(new[k])
    <3>1. CASE k = n
      <4>1. g[k - 1] = h[n - 1] /\ h[n - 1] \in Nat /\ h[n] = h[n - 1] + Held(its[n])
        BY <1>1, <1>2, <1>7, <3>1
      <4> QED BY <1>5, <1>7, <3>1, <4>1
    <3>2. CASE k # n
      <4>1. k \in 1..(n - 1) /\ k \in 0..(n - 1) /\ k - 1 \in 0..(n - 1)
        BY <1>1, <3>2
      <4> QED BY <1>2, <1>4, <1>7, <4>1
    <3> QED BY <3>1, <3>2
  <2>2. g[0] = 0
    BY <1>1, <1>2, <1>7
  <2> QED BY <1>3, <1>7, <2>1, <2>2 DEF Stacked
<1>9. Clear(new, g)
  <2>1. ASSUME NEW k \in 1..n, new[k].rule \notin ExpressionRules PROVE g[k - 1] = 0
    <3>1. its[k].rule = new[k].rule
      <4>1. k = n \/ k \in 1..(n - 1)
        BY <1>1
      <4> QED BY <1>3, <1>4, <4>1
    <3>2. k - 1 \in 0..(n - 1)
      BY <1>1
    <3> QED BY <1>7, <2>1, <3>1, <3>2 DEF Clear, n
  <2> QED BY <1>3, <2>1 DEF Clear
<1> QED BY <1>3, <1>7, <1>8, <1>9 DEF new, n, w

\* A rule is reduced.
LEMMA StackedByReducing ==
  ASSUME OnTrack(items), Complete, r # "PL0", NEW value \in ValuesOf(lhs(r)),
         items' = Recognized(Front(items), value), NEW h, Stacked(items, h), Clear(items, h)
  PROVE  \E g : /\ Stacked(items', g) /\ Clear(items', g)
                /\ g[Len(items')] = h[Len(items) - 1] + Worth(lhs(r), value)
<1> DEFINE n == Len(items)
           its == Front(items)
           g == [k \in 0..(n - 1) |-> h[k]]
<1>1. n \in Nat /\ items \in Seq(Items) /\ r = items[n].rule /\ r \in DOMAIN Rules
  BY Innermost DEF OnTrack
<1>2. OnTrack(its) /\ Len(its) = n - 1 /\ n > 1 /\ Awaits(its[n - 1], lhs(r))
  BY <1>1, FrontItems
<1>3. \A k \in 1..(n - 1) : its[k] = items[k]
  <2>1. items # <<>>
    BY <1>1, <1>2
  <2> QED BY <1>1, <2>1, Popped
<1>4. lhs(r) \in Symbols
  BY <1>1 DEF Symbols, Nonterminals, lhs
<1> HIDE DEF its
<1>5. h \in [0..n -> Nat] /\ h[0] = 0 /\ \A k \in 1..n : h[k] = h[k - 1] + Held(items[k])
  BY DEF Stacked
<1> HIDE DEF n
<1>6. g \in [0..(n - 1) -> Nat] /\ \A k \in 0..(n - 1) : g[k] = h[k]
  BY <1>1, <1>2, <1>5
<1> HIDE DEF g
<1>7. Stacked(its, g)
  <2>1. ASSUME NEW k \in 1..(n - 1) PROVE g[k] = g[k - 1] + Held(its[k])
    <3>1. k \in 1..n /\ k \in 0..(n - 1) /\ k - 1 \in 0..(n - 1)
      BY <1>1
    <3> QED BY <1>3, <1>5, <1>6, <3>1
  <2>2. g[0] = 0
    BY <1>1, <1>2, <1>5, <1>6
  <2> QED BY <1>2, <1>6, <2>1, <2>2 DEF Stacked
<1>8. Clear(its, g)
  <2>1. ASSUME NEW k \in 1..(n - 1), its[k].rule \notin ExpressionRules PROVE g[k - 1] = 0
    <3>1. k \in 1..n /\ k - 1 \in 0..(n - 1) /\ items[k].rule \notin ExpressionRules
      BY <1>1, <1>3, <2>1
    <3> QED BY <1>6, <3>1 DEF Clear, n
  <2> QED BY <1>2, <2>1 DEF Clear
<1>9. Awaits(its[Len(its)], lhs(r))
  BY <1>2
<1>10. PICK f : /\ Stacked(Recognized(its, value), f) /\ Clear(Recognized(its, value), f)
                /\ Len(Recognized(its, value)) = Len(its)
                /\ f[Len(its)] = g[Len(its)] + Worth(lhs(r), value)
  BY <1>2, <1>4, <1>7, <1>8, <1>9, StackedByRecognizing
<1>11. g[Len(its)] = h[n - 1]
  BY <1>1, <1>2, <1>6
<1> QED BY <1>10, <1>11 DEF its, n

----------------------------------------------------------------------------
(***************************************************************************)
(* Code that finds the values it takes.                                    *)
(***************************************************************************)

\* Instructions with which an expression, a statement or a procedure is over.
Finishing(i) == i.type \in {"INT", "CAL", "JMP", "JPC", "STO"} \/ i = inst_t("OPR", 0, OPR_RET)

\* Where there are x values, i finds those it takes, and y are left.
Acts(i, x, y) ==
  /\ Takes(i) <= x /\ (Finishing(i) => Takes(i) = x)
  /\ y = x - Takes(i) + Leaves(i)

\* So do the instructions of e, one after the other.
Heights(e, u) ==
  u \in [0..Len(e) -> Int] /\ \A k \in 1..Len(e) : Acts(e[k], u[k - 1], u[k])
Runs(e, x, y) == \E u : Heights(e, u) /\ u[0] = x /\ u[Len(e)] = y

\* What the instructions do (machine/machine.cpp:100-135).
LEMMA ActsPlain ==
  ASSUME NEW l, NEW a, NEW x \in Nat
  PROVE  /\ Acts(inst_t("LIT", l, a), x, x + 1) /\ Acts(inst_t("LOD", l, a), x, x + 1)
         /\ Acts(inst_t("STO", l, a), 1, 0) /\ Acts(inst_t("JPC", l, a), 1, 0)
         /\ Acts(inst_t("CAL", l, a), 0, 0) /\ Acts(inst_t("INT", l, a), 0, 0)
         /\ Acts(inst_t("JMP", l, a), 0, 0)
<1>1. ASSUME NEW t \in {"LIT", "LOD"} PROVE Acts(inst_t(t, l, a), x, x + 1)
  <2> DEFINE i == inst_t(t, l, a)
  <2>1. i.type = t
    BY DEF inst_t
  <2>2. i # inst_t("OPR", 0, OPR_RET)
    <3>1. inst_t("OPR", 0, OPR_RET).type = "OPR"
      BY DEF inst_t
    <3> QED BY <1>1, <2>1, <3>1
  <2> HIDE DEF i
  <2>3. Takes(i) = 0 /\ Leaves(i) = 1 /\ ~Finishing(i)
    BY <1>1, <2>1, <2>2 DEF Takes, Leaves, Finishing
  <2> QED BY <2>3 DEF Acts, i
<1>2. ASSUME NEW t \in {"STO", "JPC"} PROVE Acts(inst_t(t, l, a), 1, 0)
  <2> DEFINE i == inst_t(t, l, a)
  <2>1. i.type = t
    BY DEF inst_t
  <2> HIDE DEF i
  <2>2. Takes(i) = 1 /\ Leaves(i) = 0
    BY <1>2, <2>1 DEF Takes, Leaves
  <2> QED BY <2>2 DEF Acts, i
<1>3. ASSUME NEW t \in {"CAL", "INT", "JMP"} PROVE Acts(inst_t(t, l, a), 0, 0)
  <2> DEFINE i == inst_t(t, l, a)
  <2>1. i.type = t
    BY DEF inst_t
  <2> HIDE DEF i
  <2>2. Takes(i) = 0 /\ Leaves(i) = 0
    BY <1>3, <2>1 DEF Takes, Leaves
  <2> QED BY <2>2 DEF Acts, i
<1> QED BY <1>1, <1>2, <1>3

\* What the operations do (machine/machine.cpp:136-196).
LEMMA ActsOpr ==
  ASSUME NEW x \in Nat
  PROVE  /\ \A b \in Arithmetic \cup Comparisons : Acts(inst_t("OPR", 0, b), x + 2, x + 1)
         /\ Acts(inst_t("OPR", 0, OPR_ODD), x + 1, x + 1)
         /\ Acts(inst_t("OPR", 0, OPR_WR), x + 1, x)
         /\ Acts(inst_t("OPR", 0, OPR_NL), x, x)
         /\ Acts(inst_t("OPR", 0, OPR_RD), x, x + 1)
         /\ Acts(inst_t("OPR", 0, OPR_RET), 0, 0)
<1>1. ASSUME NEW b \in Int
      PROVE  LET i == inst_t("OPR", 0, b)
             IN  i.type = "OPR" /\ i.a = b /\ (b # OPR_RET => ~Finishing(i))
  <2> DEFINE i == inst_t("OPR", 0, b)
  <2>1. i.type = "OPR" /\ i.a = b /\ inst_t("OPR", 0, OPR_RET).a = OPR_RET
    BY DEF inst_t
  <2> HIDE DEF i
  <2>2. b # OPR_RET => ~Finishing(i)
    BY <2>1 DEF Finishing
  <2> QED BY <2>1, <2>2 DEF i
<1>2. ASSUME NEW b \in Arithmetic \cup Comparisons PROVE Acts(inst_t("OPR", 0, b), x + 2, x + 1)
  <2> DEFINE i == inst_t("OPR", 0, b)
  <2>1. b \in Int /\ b # OPR_RET
    BY DEF Arithmetic, Comparisons, OPR_RET, OPR_ADD, OPR_SUB, OPR_MUL, OPR_DIV,
           OPR_CMPE, OPR_CMPNE, OPR_CMPL, OPR_CMPGE, OPR_CMPG, OPR_CMPLE
  <2>2. i.type = "OPR" /\ i.a = b /\ ~Finishing(i)
    BY <1>1, <2>1
  <2> HIDE DEF i
  <2>3. Takes(i) = 2
    <3>1. i.type \notin {"STO", "JPC"}
      BY <2>2
    <3>2. i.a \in {OPR_ADD, OPR_SUB, OPR_MUL, OPR_DIV,
                   OPR_CMPE, OPR_CMPNE, OPR_CMPL, OPR_CMPGE, OPR_CMPG, OPR_CMPLE}
      BY <2>2 DEF Arithmetic, Comparisons
    <3>3. i.a \notin {OPR_ODD, OPR_WR}
      BY <3>2 DEF OPR_ADD, OPR_SUB, OPR_MUL, OPR_DIV, OPR_CMPE, OPR_CMPNE, OPR_CMPL, OPR_CMPGE,
                  OPR_CMPG, OPR_CMPLE, OPR_ODD, OPR_WR
    <3> QED BY <2>2, <3>1, <3>2, <3>3 DEF Takes
  <2>4. Leaves(i) = 1
    BY <2>2 DEF Leaves, Arithmetic, Comparisons, OPR_ADD, OPR_SUB, OPR_MUL, OPR_DIV,
           OPR_CMPE, OPR_CMPNE, OPR_CMPL, OPR_CMPGE, OPR_CMPG, OPR_CMPLE, OPR_NOT, OPR_RD, OPR_WR, OPR_NL
  <2> QED BY <2>2, <2>3, <2>4 DEF Acts, i
<1>3. ASSUME NEW b \in {OPR_ODD, OPR_WR, OPR_NL, OPR_RD, OPR_RET}
      PROVE  LET i == inst_t("OPR", 0, b)
             IN  /\ Takes(i) = IF b \in {OPR_ODD, OPR_WR} THEN 1 ELSE 0
                 /\ Leaves(i) = IF b \in {OPR_ODD, OPR_RD} THEN 1 ELSE 0
                 /\ b # OPR_RET => ~Finishing(i)
  <2> DEFINE i == inst_t("OPR", 0, b)
  <2>1. b \in Int
    BY DEF OPR_ODD, OPR_WR, OPR_NL, OPR_RD, OPR_RET
  <2>2. i.type = "OPR" /\ i.a = b /\ (b # OPR_RET => ~Finishing(i))
    BY <1>1, <2>1
  <2> HIDE DEF i
  <2>3. Takes(i) = IF b \in {OPR_ODD, OPR_WR} THEN 1 ELSE 0
    BY <2>2 DEF Takes, OPR_ADD, OPR_SUB, OPR_MUL, OPR_DIV,
           OPR_CMPE, OPR_CMPNE, OPR_CMPL, OPR_CMPGE, OPR_CMPG, OPR_CMPLE,
           OPR_ODD, OPR_WR, OPR_NL, OPR_RD, OPR_RET
  <2>4. Leaves(i) = IF b \in {OPR_ODD, OPR_RD} THEN 1 ELSE 0
    BY <2>2 DEF Leaves, OPR_NOT, OPR_ODD, OPR_WR, OPR_NL, OPR_RD, OPR_RET
  <2> QED BY <2>2, <2>3, <2>4 DEF i
<1>4. OPR_ODD = 6 /\ OPR_WR = 14 /\ OPR_NL = 15 /\ OPR_RD = 16 /\ OPR_RET = 0
  BY DEF OPR_ODD, OPR_WR, OPR_NL, OPR_RD, OPR_RET
<1>5. /\ Acts(inst_t("OPR", 0, OPR_ODD), x + 1, x + 1) /\ Acts(inst_t("OPR", 0, OPR_WR), x + 1, x)
  BY <1>3, <1>4 DEF Acts
<1>6. /\ Acts(inst_t("OPR", 0, OPR_NL), x, x) /\ Acts(inst_t("OPR", 0, OPR_RD), x, x + 1)
  BY <1>3, <1>4 DEF Acts
<1>7. Acts(inst_t("OPR", 0, OPR_RET), 0, 0)
  BY <1>3, <1>4 DEF Acts
<1> QED BY <1>2, <1>5, <1>6, <1>7

\* No code.
LEMMA RunsNone ==
  ASSUME NEW x \in Int
  PROVE  Runs(<<>>, x, x)
<1> DEFINE u == [k \in 0..0 |-> x]
<1>1. Len(<<>>) = 0 /\ u \in [0..0 -> Int] /\ u[0] = x /\ 1..0 = {}
  OBVIOUS
<1> HIDE DEF u
<1> QED BY <1>1 DEF Runs, Heights

\* One instruction.
LEMMA RunsOne ==
  ASSUME NEW i, NEW x \in Int, NEW y \in Int, Acts(i, x, y)
  PROVE  Runs(<<i>>, x, y)
<1> DEFINE u == [k \in 0..1 |-> IF k = 0 THEN x ELSE y]
           e == <<i>>
<1>1. Len(e) = 1 /\ e[1] = i /\ u \in [0..1 -> Int] /\ u[0] = x /\ u[1] = y
  OBVIOUS
<1> HIDE DEF u, e
<1>2. \A k \in 1..1 : k = 1 /\ k - 1 = 0
  OBVIOUS
<1>3. \A k \in 1..1 : Acts(e[k], u[k - 1], u[k])
  BY <1>1, <1>2
<1> QED BY <1>1, <1>3 DEF Runs, Heights, e

\* Code behind code.
LEMMA RunsJoined ==
  ASSUME NEW c \in Seq(Instructions), NEW e \in Seq(Instructions), NEW x, NEW y, NEW z,
         Runs(c, x, y), Runs(e, y, z)
  PROVE  Runs(c \o e, x, z)
<1> DEFINE d == c \o e
           m == Len(c)
           n == Len(e)
<1>1. PICK u : Heights(c, u) /\ u[0] = x /\ u[Len(c)] = y
  BY DEF Runs
<1>2. PICK t : Heights(e, t) /\ t[0] = y /\ t[Len(e)] = z
  BY DEF Runs
<1> DEFINE w == [k \in 0..(m + n) |-> IF k <= m THEN u[k] ELSE t[k - m]]
<1>3. /\ m \in Nat /\ n \in Nat /\ Len(d) = m + n
      /\ \A k \in 1..m : d[k] = c[k]
      /\ \A k \in 1..n : d[m + k] = e[k]
  OBVIOUS
<1>4. /\ u \in [0..m -> Int] /\ \A k \in 1..m : Acts(c[k], u[k - 1], u[k])
      /\ t \in [0..n -> Int] /\ \A k \in 1..n : Acts(e[k], t[k - 1], t[k])
      /\ u[m] = t[0]
  BY <1>1, <1>2 DEF Heights
<1> HIDE DEF d, m, n
<1>5. \A k \in 0..(m + n) : k <= m \/ (~(k <= m) /\ k - m \in 0..n /\ k - m \in 1..n)
  BY <1>3
<1>6. /\ w \in [0..(m + n) -> Int]
      /\ \A k \in 0..m : w[k] = u[k]
      /\ \A k \in 1..n : w[m + k] = t[k]
  <2>1. \A k \in 0..(m + n) : (IF k <= m THEN u[k] ELSE t[k - m]) \in Int
    <3> TAKE k \in 0..(m + n)
    <3>1. k <= m => k \in 0..m
      BY <1>3
    <3> QED BY <1>4, <1>5, <3>1
  <2>2. \A k \in 0..m : k \in 0..(m + n) /\ k <= m
    BY <1>3
  <2>3. \A k \in 1..n : m + k \in 0..(m + n) /\ ~(m + k <= m) /\ (m + k) - m = k
    BY <1>3
  <2> QED BY <2>1, <2>2, <2>3
<1> HIDE DEF w
<1>7. ASSUME NEW k \in 1..(m + n) PROVE Acts(d[k], w[k - 1], w[k])
  <2>1. CASE k <= m
    <3>1. k \in 1..m /\ k - 1 \in 0..m /\ k \in 0..m
      BY <1>3, <2>1
    <3> QED BY <1>3, <1>4, <1>6, <3>1
  <2>2. CASE k = m + 1
    <3>1. 1 \in 1..n /\ k - 1 = m /\ m \in 0..m /\ 1 - 1 = 0
      BY <1>3, <2>2
    <3>2. d[k] = e[1] /\ w[k - 1] = t[0] /\ w[k] = t[1]
      BY <1>3, <1>4, <1>6, <2>2, <3>1
    <3>3. Acts(e[1], t[0], t[1])
      BY <1>4, <3>1
    <3> QED BY <3>2, <3>3
  <2>3. CASE k > m + 1
    <3>1. PICK j \in 2..n : k = m + j
      <4>1. k - m \in 2..n /\ k = m + (k - m)
        BY <1>3, <2>3
      <4> QED BY <4>1
    <3>2. j \in 1..n /\ j - 1 \in 1..n /\ k - 1 = m + (j - 1)
      BY <1>3, <3>1
    <3>3. d[k] = e[j] /\ w[k - 1] = t[j - 1] /\ w[k] = t[j]
      BY <1>3, <1>6, <3>1, <3>2
    <3> QED BY <1>4, <3>2, <3>3
  <2> QED BY <1>3, <2>1, <2>2, <2>3
<1>8. w[0] = x /\ w[m + n] = z
  <2>1. w[0] = x
    <3>1. 0 \in 0..m
      BY <1>3
    <3> QED BY <1>1, <1>6, <3>1
  <2>2. CASE n = 0
    <3>1. m + n = m /\ m \in 0..m
      BY <1>3, <2>2
    <3> QED BY <1>1, <1>2, <1>6, <2>1, <2>2, <3>1 DEF m, n
  <2>3. CASE n # 0
    <3>1. n \in 1..n
      BY <1>3, <2>3
    <3> QED BY <1>2, <1>6, <2>1, <3>1 DEF n
  <2> QED BY <2>2, <2>3
<1>9. Heights(d, w) /\ w[Len(d)] = z
  BY <1>3, <1>6, <1>7, <1>8 DEF Heights
<1> QED BY <1>8, <1>9 DEF Runs, d

\* Where code has a jump or reserves cells: what these do with the stack does
\* not depend on their operands, which are filled in later.
Fillable(c) == {a \in 0..(Len(c) - 1) : c[a + 1].type \in {"INT", "JMP", "JPC"}}

\* Code d has the instructions of code c and does the same with the stack.
Alike(c, d) ==
  /\ d \in Seq(Instructions) /\ Len(d) = Len(c)
  /\ \A k \in 1..Len(c) : d[k].type = c[k].type
  /\ \A x, y : Runs(c, x, y) => Runs(d, x, y)

\* Nothing is changed.
LEMMA AlikeItself ==
  ASSUME NEW c \in Seq(Instructions)
  PROVE  Alike(c, c)
BY DEF Alike

\* An operand is filled in.
LEMMA AlikeFilled ==
  ASSUME NEW c \in Seq(Instructions), NEW b \in Fillable(c), NEW a \in Int
  PROVE  Alike(c, Backfill(c, b, a))
<1> DEFINE d == Backfill(c, b, a)
<1>1. b \in 0..(Len(c) - 1) /\ c[b + 1].type \in {"INT", "JMP", "JPC"} /\ Len(c) \in Nat
  BY DEF Fillable
<1>2. /\ d \in Seq(Instructions) /\ Len(d) = Len(c) /\ d[b + 1].type = c[b + 1].type
      /\ \A j \in 0..(Len(c) - 1) : j # b => d[j + 1] = c[j + 1]
  BY <1>1, Filled
<1> HIDE DEF d
<1>3. ASSUME NEW k \in 1..Len(c)
      PROVE  d[k].type = c[k].type /\ (d[k] = c[k] \/ c[k].type \in {"INT", "JMP", "JPC"})
  <2>1. k - 1 \in 0..(Len(c) - 1) /\ (k - 1) + 1 = k
    BY <1>1
  <2>2. CASE k - 1 = b
    BY <1>1, <1>2, <2>1, <2>2
  <2>3. CASE k - 1 # b
    BY <1>2, <2>1, <2>3
  <2> QED BY <2>2, <2>3
<1>4. ASSUME NEW x, NEW y, Runs(c, x, y) PROVE Runs(d, x, y)
  <2>1. PICK u : Heights(c, u) /\ u[0] = x /\ u[Len(c)] = y
    BY <1>4 DEF Runs
  <2>2. ASSUME NEW k \in 1..Len(c) PROVE Acts(d[k], u[k - 1], u[k])
    <3>1. Acts(c[k], u[k - 1], u[k])
      BY <2>1 DEF Heights
    <3>2. CASE d[k] = c[k]
      BY <3>1, <3>2
    <3>3. CASE c[k].type \in {"INT", "JMP", "JPC"}
      <4>1. d[k].type = c[k].type
        BY <1>3
      <4>2. Takes(d[k]) = Takes(c[k]) /\ Leaves(d[k]) = Leaves(c[k])
        BY <3>3, <4>1 DEF Takes, Leaves
      <4>3. Finishing(d[k]) /\ Finishing(c[k])
        BY <3>3, <4>1 DEF Finishing
      <4> QED BY <3>1, <4>2, <4>3 DEF Acts
    <3> QED BY <1>3, <3>2, <3>3
  <2>3. Heights(d, u)
    BY <1>2, <2>1, <2>2 DEF Heights
  <2> QED BY <1>2, <2>1, <2>3 DEF Runs
<1>5. Alike(c, d)
  BY <1>2, <1>3, <1>4 DEF Alike
<1> QED BY <1>5 DEF d

\* One change behind the other.
LEMMA AlikeJoined ==
  ASSUME NEW c, NEW d, NEW e, Alike(c, d), Alike(d, e)
  PROVE  Alike(c, e) /\ Fillable(c) = Fillable(e)
<1>1. /\ Len(d) = Len(c) /\ Len(e) = Len(c)
      /\ \A k \in 1..Len(c) : e[k].type = c[k].type
  BY DEF Alike
<1>2. Alike(c, e)
  BY <1>1 DEF Alike
<1>3. Len(c) \in Nat
  <2>1. d \in Seq(Instructions) /\ Len(d) = Len(c)
    BY DEF Alike
  <2> QED BY <2>1
<1>4. \A a \in 0..(Len(c) - 1) : a + 1 \in 1..Len(c)
  BY <1>3
<1> QED BY <1>1, <1>2, <1>4 DEF Fillable

\* Such code leaves what the sum says.
LEMMA RunsReady ==
  ASSUME code \in Seq(Instructions), NEW y, Runs(code, 0, y)
  PROVE  \A a \in Addresses : /\ Takes(At(a)) <= Pile[a]
                              /\ Finishing(At(a)) => Takes(At(a)) = Pile[a]
<1> DEFINE N == Len(code)
<1>1. PICK u : Heights(code, u) /\ u[0] = 0
  BY DEF Runs
<1>2. N \in Nat /\ length = N
  BY DEF length
<1>3. u \in [0..N -> Int] /\ \A k \in 1..N : u[k] = u[k - 1] - Takes(code[k]) + Leaves(code[k])
  BY <1>1 DEF Heights, Acts
<1> HIDE DEF N
<1>4. u = [a \in 0..length |-> IF a = 0 THEN 0 ELSE u[a - 1] - Takes(code[a]) + Leaves(code[a])]
  <2>1. \A a \in 0..N : a = 0 \/ a \in 1..N
    BY <1>2
  <2>2. \A a \in 0..N : u[a] = IF a = 0 THEN 0 ELSE u[a - 1] - Takes(code[a]) + Leaves(code[a])
    BY <1>1, <1>3, <2>1
  <2> QED BY <1>2, <1>3, <2>2
<1>5. Pile = [a \in 0..length |-> IF a = 0 THEN 0 ELSE Pile[a - 1] - Takes(code[a]) + Leaves(code[a])]
  BY <1>4 DEF Pile
<1>6. \A a \in 0..N : Pile[a] = IF a = 0 THEN 0 ELSE Pile[a - 1] - Takes(code[a]) + Leaves(code[a])
  BY <1>2, <1>5
<1> DEFINE S == {a \in 0..N : Pile[a] = u[a]}
<1>7. \A m \in 0..N : (\A k \in 0..(m - 1) : k \in S) => m \in S
  <2> TAKE m \in 0..N
  <2> HAVE \A k \in 0..(m - 1) : k \in S
  <2>1. CASE m = 0
    BY <1>1, <1>6, <2>1
  <2>2. CASE m # 0
    <3>1. m - 1 \in 0..(m - 1) /\ m \in 1..N
      BY <1>2, <2>2
    <3>2. Pile[m - 1] = u[m - 1]
      BY <3>1
    <3> QED BY <1>3, <1>6, <2>2, <3>1, <3>2
  <2> QED BY <2>1, <2>2
<1> HIDE DEF S
<1>8. \A m \in 0..N : m \in S
  <2>1. 0 \in Nat /\ N \in Int
    BY <1>2
  <2> QED BY ONLY <1>7, <2>1, Upwards
<1>9. ASSUME NEW a \in Addresses
      PROVE  Takes(At(a)) <= Pile[a] /\ (Finishing(At(a)) => Takes(At(a)) = Pile[a])
  <2>1. a \in 0..N /\ a + 1 \in 1..N /\ (a + 1) - 1 = a /\ At(a) = code[a + 1]
    BY <1>2 DEF Addresses, At
  <2>2. Acts(code[a + 1], u[a], u[a + 1])
    BY <1>1, <2>1 DEF Heights, N
  <2>3. Pile[a] = u[a]
    BY <1>8, <2>1 DEF S
  <2> QED BY <2>1, <2>2, <2>3 DEF Acts
<1> QED BY <1>9

----------------------------------------------------------------------------
(***************************************************************************)
(* What a rule holds when it is complete.                                  *)
(***************************************************************************)

\* The rules whose right-hand side is complete with one value, with none, and
\* those that apply the operator in front.
OneHeld == {"ASSIGN", "CONDHEADER", "WHILEHEADER", "WRITE", "OPTWRID", "RASSERTION", "EXPRFACTOR"}
NoneHeld == {"IDFACTOR", "NUMFACTOR", "EOPTFACTOR", "EOPTEXPRITEM"} \cup DOMAIN oprOf
Applying == {"OPTFACTOR", "OPTEXPRITEM", "FEXPRITEM", "EXPR", "EXPRITEM"}
Whole == items[Len(items)]

\* The values of a complete item, symbol by symbol.
LEMMA HeldBySymbol ==
  ASSUME OnTrack(items), Complete
  PROVE  \A j \in 1..4 : WorthAt(Whole, j) = IF j <= Len(rhs(r)) THEN Worth(rhs(r)[j], v[j]) ELSE 0
<1>1. r = Whole.rule /\ v = Whole.vals /\ Len(v) = Len(rhs(r))
  BY Innermost DEF Whole
<1> QED BY <1>1 DEF WorthAt

\* Rules without an expression hold nothing.
LEMMA HeldByOthers ==
  ASSUME OnTrack(items), Complete, r \notin ExpressionRules, r \notin Containing
  PROVE  Held(Whole) = 0
<1>1. ASSUME NEW j \in 1..4 PROVE WorthAt(Whole, j) = 0
  <2>1. CASE j <= Len(rhs(r))
    <3>1. j \in DOMAIN rhs(r) /\ r \in DOMAIN Rules
      BY <2>1, Innermost
    <3>2. rhs(r)[j] \notin ExpressionSymbols
      BY <3>1, ExpressionsInPlaceEverywhere DEF ExpressionsInPlace
    <3> QED BY <2>1, <3>2, HeldBySymbol, WorthNothing
  <2>2. CASE ~(j <= Len(rhs(r)))
    BY <2>2, HeldBySymbol
  <2> QED BY <2>1, <2>2
<1> QED BY <1>1 DEF Held

\* Separators leave no value.
LEMMA WorthOfSymbols ==
  /\ \A w : Worth(COMMA, w) = 0 /\ Worth(ID, w) = 0 /\ Worth(NUM, w) = 0
  /\ \A w : \A s \in {"T:=", "Tif", "Tthen", "Swhileflag", "Tdo", "Twrite", "T(", "T)", "Soptwriteid",
                      "Todd", "Srelop", "Smdop", "Sasop", "T-", "T+", "T*", "T/", "T=", "T<", "T<=",
                      "T>", "T>=", "T#"} : Worth(s, w) = 0
  /\ \A w : Worth("Sexpr", w) = 1 /\ Worth("Sassert", w) = 1 /\ Worth("Sexpritem", w) = 1
            /\ Worth("Sfactor", w) = 1
  /\ \A w : \A s \in {"Sexprop", "Soptfactor", "Soptexpritem"} :
       Worth(s, w) = IF w \in {nullptr, Operator(OPR_NOP)} THEN 0 ELSE 1
<1>1. COMMA \notin ExpressionSymbols
  BY CommaIsTerminal DEF ExpressionSymbols
<1>2. ID \notin ExpressionSymbols /\ NUM \notin ExpressionSymbols
  BY DEF ExpressionSymbols, ID, NUM
<1>3. \A s \in {"T:=", "Tif", "Tthen", "Swhileflag", "Tdo", "Twrite", "T(", "T)", "Soptwriteid",
                "Todd", "Srelop", "Smdop", "Sasop", "T-", "T+", "T*", "T/", "T=", "T<", "T<=",
                "T>", "T>=", "T#"} : s \notin {"Sassert", "Sexpr", "Sexpritem", "Sfactor"}
                                     /\ s \notin {"Sexprop", "Soptfactor", "Soptexpritem"}
  OBVIOUS
<1>4. \A w : \A s \in {"T:=", "Tif", "Tthen", "Swhileflag", "Tdo", "Twrite", "T(", "T)", "Soptwriteid",
                      "Todd", "Srelop", "Smdop", "Sasop", "T-", "T+", "T*", "T/", "T=", "T<", "T<=",
                      "T>", "T>=", "T#"} : Worth(s, w) = 0
  BY <1>3 DEF Worth
<1>5. \A w : Worth("Sexpr", w) = 1 /\ Worth("Sassert", w) = 1 /\ Worth("Sexpritem", w) = 1
            /\ Worth("Sfactor", w) = 1
  BY DEF Worth
<1>6. \A w : \A s \in {"Sexprop", "Soptfactor", "Soptexpritem"} :
       Worth(s, w) = IF w \in {nullptr, Operator(OPR_NOP)} THEN 0 ELSE 1
  BY DEF Worth
<1>7. \A w : Worth(COMMA, w) = 0 /\ Worth(ID, w) = 0 /\ Worth(NUM, w) = 0
  BY <1>1, <1>2, WorthNothing
<1> QED BY <1>4, <1>5, <1>6, <1>7

\* The statements, conditions and factors that use one value hold one.
LEMMA HeldByOne ==
  ASSUME OnTrack(items), Complete, r \in OneHeld
  PROVE  Held(Whole) = 1
<1> DEFINE W(j) == IF j <= Len(rhs(r)) THEN Worth(rhs(r)[j], v[j]) ELSE 0
<1>1. WorthAt(Whole, 1) = W(1) /\ WorthAt(Whole, 2) = W(2) /\ WorthAt(Whole, 3) = W(3) /\ WorthAt(Whole, 4) = W(4)
  BY HeldBySymbol
<1>2. CASE r = "ASSIGN"
  <2>1. Len(rhs(r)) = 3 /\ rhs(r)[1] = ID /\ rhs(r)[2] = "T:=" /\ rhs(r)[3] = "Sexpr"
    BY <1>2, StatementsRules
  <2>2. W(1) = 0 /\ W(2) = 0 /\ W(3) = 1 /\ W(4) = 0
    BY <2>1, WorthOfSymbols
  <2> QED BY <1>1, <2>2 DEF Held
<1>3. CASE r \in {"CONDHEADER", "WHILEHEADER"}
  <2>1. Len(rhs(r)) = 3 /\ rhs(r)[1] \in {"Tif", "Swhileflag"} /\ rhs(r)[2] = "Sassert" /\ rhs(r)[3] \in {"Tthen", "Tdo"}
    BY <1>3, ControlAndIORules
  <2>2. W(1) = 0 /\ W(2) = 1 /\ W(3) = 0 /\ W(4) = 0
    BY <2>1, WorthOfSymbols
  <2> QED BY <1>1, <2>2 DEF Held
<1>4. CASE r = "WRITE"
  <2>1. Len(rhs(r)) = 5 /\ rhs(r)[1] = "Twrite" /\ rhs(r)[2] = "T(" /\ rhs(r)[3] = "Soptwriteid" /\ rhs(r)[4] = "Sexpr"
    BY <1>4, ControlAndIORules
  <2>2. W(1) = 0 /\ W(2) = 0 /\ W(3) = 0 /\ W(4) = 1
    BY <2>1, WorthOfSymbols
  <2> QED BY <1>1, <2>2 DEF Held
<1>5. CASE r = "OPTWRID"
  <2>1. Len(rhs(r)) = 3 /\ rhs(r)[1] = "Soptwriteid" /\ rhs(r)[2] = "Sexpr" /\ rhs(r)[3] = COMMA
    BY <1>5, ControlAndIORules
  <2>2. W(1) = 0 /\ W(2) = 1 /\ W(3) = 0 /\ W(4) = 0
    BY <2>1, WorthOfSymbols
  <2> QED BY <1>1, <2>2 DEF Held
<1>6. CASE r = "RASSERTION"
  <2>1. Len(rhs(r)) = 2 /\ rhs(r)[1] = "Todd" /\ rhs(r)[2] = "Sexpr"
    BY <1>6, ExpressionsRules
  <2>2. W(1) = 0 /\ W(2) = 1 /\ W(3) = 0 /\ W(4) = 0
    BY <2>1, WorthOfSymbols
  <2> QED BY <1>1, <2>2 DEF Held
<1>7. CASE r = "EXPRFACTOR"
  <2>1. Len(rhs(r)) = 3 /\ rhs(r)[1] = "T(" /\ rhs(r)[2] = "Sexpr" /\ rhs(r)[3] = "T)"
    BY <1>7, ExpressionsRules
  <2>2. W(1) = 0 /\ W(2) = 1 /\ W(3) = 0 /\ W(4) = 0
    BY <2>1, WorthOfSymbols
  <2> QED BY <1>1, <2>2 DEF Held
<1> QED BY <1>2, <1>3, <1>4, <1>5, <1>6, <1>7 DEF OneHeld

\* A factor and what may be left out begin with none, and so do the operators.
LEMMA HeldByNone ==
  ASSUME OnTrack(items), Complete, r \in NoneHeld
  PROVE  Held(Whole) = 0
<1> DEFINE W(j) == IF j <= Len(rhs(r)) THEN Worth(rhs(r)[j], v[j]) ELSE 0
<1>1. WorthAt(Whole, 1) = W(1) /\ WorthAt(Whole, 2) = W(2) /\ WorthAt(Whole, 3) = W(3) /\ WorthAt(Whole, 4) = W(4)
  BY HeldBySymbol
<1>2. CASE r \in {"IDFACTOR", "NUMFACTOR"}
  <2>1. Len(rhs(r)) = 1 /\ rhs(r)[1] \in {ID, NUM}
    BY <1>2, ExpressionsRules
  <2>2. W(1) = 0 /\ W(2) = 0 /\ W(3) = 0 /\ W(4) = 0
    BY <2>1, WorthOfSymbols
  <2> QED BY <1>1, <2>2 DEF Held
<1>3. CASE r \in {"EOPTFACTOR", "EOPTEXPRITEM"}
  <2>1. Len(rhs(r)) = 0
    BY <1>3, ExpressionsRules
  <2>2. W(1) = 0 /\ W(2) = 0 /\ W(3) = 0 /\ W(4) = 0
    BY <2>1
  <2> QED BY <1>1, <2>2 DEF Held
<1>4. CASE r \in DOMAIN oprOf
  <2>1. Len(rhs(r)) = 1 /\ rhs(r)[1] \in {"T-", "T+", "T*", "T/", "T=", "T<", "T<=", "T>", "T>=", "T#"}
    <3>1. r \in {"AOP", "SOP", "MOP", "DOP", "EQOP", "LOP", "LEOP", "GOP", "GEOP", "NEOP", "NEXPROP", "PEXPROP"}
      BY <1>4 DEF oprOf
    <3>2. CASE r \in {"AOP", "SOP", "EQOP", "LOP", "LEOP", "GOP", "GEOP", "NEOP"}
      BY <3>2, OperatorsRules
    <3>3. CASE r \in {"MOP", "DOP", "NEXPROP", "PEXPROP"}
      BY <3>3, ExpressionsRules
    <3> QED BY <3>1, <3>2, <3>3
  <2>2. W(1) = 0 /\ W(2) = 0 /\ W(3) = 0 /\ W(4) = 0
    BY <2>1, WorthOfSymbols
  <2> QED BY <1>1, <2>2 DEF Held
<1> QED BY <1>2, <1>3, <1>4 DEF NoneHeld

\* A comparison has two, and so has an operand behind an operator.
LEMMA HeldByTwo ==
  ASSUME OnTrack(items), Complete
  PROVE  /\ r = "ASSERTION" => Held(Whole) = 2
         /\ r \in Applying => Held(Whole) = 1 + (IF v[1] \in {nullptr, Operator(OPR_NOP)} THEN 0 ELSE 1)
<1> DEFINE W(j) == IF j <= Len(rhs(r)) THEN Worth(rhs(r)[j], v[j]) ELSE 0
<1>1. WorthAt(Whole, 1) = W(1) /\ WorthAt(Whole, 2) = W(2) /\ WorthAt(Whole, 3) = W(3) /\ WorthAt(Whole, 4) = W(4)
  BY HeldBySymbol
<1>2. ASSUME r = "ASSERTION" PROVE Held(Whole) = 2
  <2>1. Len(rhs(r)) = 3 /\ rhs(r)[1] = "Sexpr" /\ rhs(r)[2] = "Srelop" /\ rhs(r)[3] = "Sexpr"
    BY <1>2, ExpressionsRules
  <2>2. W(1) = 1 /\ W(2) = 0 /\ W(3) = 1 /\ W(4) = 0
    BY <2>1, WorthOfSymbols
  <2> QED BY <1>1, <2>2 DEF Held
<1>3. ASSUME r \in Applying
      PROVE  Held(Whole) = 1 + (IF v[1] \in {nullptr, Operator(OPR_NOP)} THEN 0 ELSE 1)
  <2>1. /\ Len(rhs(r)) \in {2, 3} /\ rhs(r)[1] \in {"Sexprop", "Soptfactor", "Soptexpritem"}
        /\ rhs(r)[2] \in {"Sexpritem", "Sfactor"}
        /\ Len(rhs(r)) = 3 => rhs(r)[3] \in {"Smdop", "Sasop"}
    BY <1>3, ExpressionsRules DEF Applying
  <2> DEFINE w == IF v[1] \in {nullptr, Operator(OPR_NOP)} THEN 0 ELSE 1
  <2>2. W(1) = w
    BY <2>1, WorthOfSymbols
  <2>3. W(2) = 1 /\ W(3) = 0 /\ W(4) = 0
    BY <2>1, WorthOfSymbols
  <2>4. w \in {0, 1}
    OBVIOUS
  <2> HIDE DEF w
  <2>5. Held(Whole) = 1 + w
    BY <1>1, <2>2, <2>3, <2>4 DEF Held
  <2> QED BY <2>5 DEF w
<1> QED BY <1>2, <1>3

----------------------------------------------------------------------------
(***************************************************************************)
(* Every action keeps count.                                               *)
(***************************************************************************)

\* The code has left what the rules the source is in hold.
Tallied(its, c) ==
  \E h : Stacked(its, h) /\ Clear(its, h) /\ Runs(c, 0, h[Len(its)])

OperandInv ==
  resolved /\ lexErrors = 0 =>
    /\ code \in Seq(Instructions) /\ {0, 1} \subseteq Fillable(code)
    /\ \E y : Runs(code, 0, y)
    /\ status = "parsing" => Tallied(items, code)

\* What a reduction emits turns the values its rule holds into its own value,
\* whatever there is in front of them; for a rule that is not of an expression
\* there is nothing.
Balanced(e, value) ==
  \A b \in Nat : (r \notin ExpressionRules => b = 0) =>
    Runs(e, b + Held(Whole), b + Worth(lhs(r), value))

\* A reduction that emits such code, and then may fill in operands.
LEMMA ReductionCounts ==
  ASSUME IInv, OperandInv, Reading, Complete, NEW value \in ValuesOf(lhs(r)),
         Return(value) \/ (status' = "crashed" /\ lexErrors' = lexErrors), resolved' => resolved,
         NEW e \in Seq(Instructions), resolved' => Balanced(e, value),
         Alike(code \o e, code')
  PROVE  OperandInv'
<1> SUFFICES ASSUME resolved', lexErrors' = 0
             PROVE  /\ code' \in Seq(Instructions) /\ {0, 1} \subseteq Fillable(code')
                    /\ \E y : Runs(code', 0, y)
                    /\ status' = "parsing" => Tallied(items', code')
  BY DEF OperandInv
<1>1. status = "parsing" /\ r # "PL0" /\ lexErrors = 0 /\ resolved
  BY DEF Reading, Return, automaton
<1>2. /\ OnTrack(items) /\ code \in Seq(Instructions) /\ Tallied(items, code)
      /\ {0, 1} \subseteq Fillable(code)
  BY <1>1 DEF IInv, OperandInv
<1>3. PICK h : Stacked(items, h) /\ Clear(items, h) /\ Runs(code, 0, h[Len(items)])
  BY <1>2 DEF Tallied
<1> DEFINE n == Len(items)
<1>4. n \in Nat /\ n >= 1 /\ r = items[n].rule /\ items \in Seq(Items)
  BY <1>2, Innermost DEF OnTrack
<1>5. h[n] \in Nat /\ h[n - 1] \in Nat /\ h[n] = h[n - 1] + Held(items[n])
  <2>1. Len(items) > 0
    BY <1>4
  <2> QED BY <1>3, <1>4, <2>1, HeightsAreNatural
<1>6. r \notin ExpressionRules => h[n - 1] = 0
  <2>1. n \in 1..n
    BY <1>4
  <2> QED BY <1>3, <1>4, <2>1 DEF Clear
<1> DEFINE z == h[n - 1] + Worth(lhs(r), value)
<1>7. Runs(e, h[n], z)
  <2>1. Runs(e, h[n - 1] + Held(Whole), z)
    BY <1>5, <1>6 DEF Balanced
  <2> QED BY <1>5, <2>1 DEF Whole
<1> HIDE DEF z
<1>8. Runs(code \o e, 0, z)
  <2>1. Runs(code, 0, h[n])
    BY <1>3
  <2> HIDE DEF n
  <2> DEFINE top == h[n]
  <2>2. Runs(code, 0, top) /\ Runs(e, top, z)
    BY <1>7, <2>1
  <2> HIDE DEF top
  <2> QED BY <1>2, <2>2, RunsJoined
<1>9. code' \in Seq(Instructions) /\ Runs(code', 0, z)
  BY <1>8 DEF Alike
<1>10. ASSUME status' = "parsing" PROVE Tallied(items', code')
  <2>1. items' = Recognized(Front(items), value)
    BY <1>10 DEF Return
  <2>2. PICK g : /\ Stacked(items', g) /\ Clear(items', g)
                 /\ g[Len(items')] = h[Len(items) - 1] + Worth(lhs(r), value)
    BY <1>1, <1>2, <1>3, <2>1, StackedByReducing
  <2>3. g[Len(items')] = z
    BY <2>2 DEF z, n
  <2> QED BY <1>9, <2>2, <2>3 DEF Tallied
<1>11. {0, 1} \subseteq Fillable(code')
  <2> DEFINE c == code \o e
  <2>1. /\ Len(code) \in Nat /\ Len(c) >= Len(code)
        /\ \A k \in 1..Len(code) : c[k] = code[k]
    BY <1>2
  <2> HIDE DEF c
  <2>2. Len(code') = Len(c) /\ \A k \in 1..Len(c) : code'[k].type = c[k].type
    BY DEF Alike, c
  <2>3. ASSUME NEW a \in {0, 1} PROVE a \in Fillable(code')
    <3>1. a \in 0..(Len(code) - 1) /\ code[a + 1].type \in {"INT", "JMP", "JPC"}
      BY <1>2 DEF Fillable
    <3>2. a \in 0..(Len(code') - 1) /\ a + 1 \in 1..Len(code) /\ a + 1 \in 1..Len(c)
      BY <2>1, <2>2, <3>1
    <3> QED BY <2>1, <2>2, <3>1, <3>2 DEF Fillable
  <2> QED BY <2>3
<1> QED BY <1>9, <1>10, <1>11

\* No code for a rule that holds what it is worth.
LEMMA NothingBalanced ==
  ASSUME NEW value, Held(Whole) = Worth(lhs(r), value)
  PROVE  Balanced(<<>>, value)
<1> DEFINE w == Worth(lhs(r), value)
<1>1. w \in {0, 1}
  BY WorthIsNatural
<1> HIDE DEF w
<1>2. ASSUME NEW b \in Nat PROVE Runs(<<>>, b + w, b + w)
  <2>1. b + w \in Int
    BY <1>1
  <2> QED BY <2>1, RunsNone
<1>3. Held(Whole) = w
  BY DEF w
<1> QED BY <1>2, <1>3 DEF Balanced, w

\* A rule begins: it holds nothing yet.
LEMMA ExpandCounts ==
  ASSUME IInv, OperandInv, NEW p \in Productions, Expand(p)
  PROVE  OperandInv'
<1> SUFFICES ASSUME resolved', lexErrors' = 0
             PROVE  /\ code' \in Seq(Instructions) /\ {0, 1} \subseteq Fillable(code')
                    /\ \E y : Runs(code', 0, y)
                    /\ Tallied(items', code')
  BY DEF OperandInv
<1>1. /\ UNCHANGED <<code, resolved, lexErrors>> /\ status = "parsing" /\ ~Complete
      /\ items' = Append(items, Item(p, <<>>)) /\ Upcoming = lhs(p)
  BY DEF Expand, automaton, errorFree, Reading, lhs
<1>2. /\ OnTrack(items) /\ code \in Seq(Instructions) /\ Tallied(items, code) /\ p \in DOMAIN Rules
      /\ {0, 1} \subseteq Fillable(code) /\ \E y : Runs(code, 0, y)
  BY <1>1, AssemblerAssumption DEF IInv, OperandInv
<1>3. PICK h : Stacked(items, h) /\ Clear(items, h) /\ Runs(code, 0, h[Len(items)])
  BY <1>2 DEF Tallied
<1>4. PICK g : /\ Stacked(Append(items, Item(p, <<>>)), g) /\ Clear(Append(items, Item(p, <<>>)), g)
               /\ g[Len(items) + 1] = h[Len(items)]
  BY <1>1, <1>2, <1>3, StackedByExpanding
<1>5. Len(items') = Len(items) + 1
  <2>1. items \in Seq(Items) /\ Item(p, <<>>) \in Items
    BY <1>2 DEF OnTrack, Item, Items
  <2> HIDE DEF Item
  <2> QED BY <1>1, <2>1
<1>6. Tallied(items', code')
  BY <1>1, <1>3, <1>4, <1>5 DEF Tallied
<1> QED BY <1>1, <1>2, <1>6

\* A terminal leaves no value.
LEMMA ShiftCounts ==
  ASSUME IInv, OperandInv, Shift
  PROVE  OperandInv'
<1> SUFFICES ASSUME resolved', lexErrors' = 0
             PROVE  /\ code' \in Seq(Instructions) /\ {0, 1} \subseteq Fillable(code')
                    /\ \E y : Runs(code', 0, y)
                    /\ Tallied(items', code')
  BY DEF OperandInv
<1>1. /\ UNCHANGED <<code, resolved, lexErrors>> /\ status = "parsing" /\ ~Complete
      /\ Upcoming \in Terminals
  BY DEF Shift, automaton, errorFree, Reading
<1>2. PICK token \in Tokens(Upcoming) : items' = Recognized(items, token)
  BY DEF Shift
<1>3. /\ OnTrack(items) /\ code \in Seq(Instructions) /\ Tallied(items, code)
      /\ {0, 1} \subseteq Fillable(code) /\ \E y : Runs(code, 0, y)
  BY <1>1 DEF IInv, OperandInv
<1>4. PICK h : Stacked(items, h) /\ Clear(items, h) /\ Runs(code, 0, h[Len(items)])
  BY <1>3 DEF Tallied
<1>5. Awaits(items[Len(items)], Upcoming) /\ Upcoming \in Symbols /\ token \in ValuesOf(Upcoming)
  BY <1>1, <1>3, Innermost DEF Terminals, ValuesOf
<1> DEFINE s == Upcoming
<1>6. Awaits(items[Len(items)], s) /\ s \in Symbols /\ token \in ValuesOf(s)
  BY <1>5
<1>7. s \notin ExpressionSymbols
  BY <1>1, TerminalsAreOther
<1> HIDE DEF s
<1>8. PICK g : /\ Stacked(Recognized(items, token), g) /\ Clear(Recognized(items, token), g)
               /\ Len(Recognized(items, token)) = Len(items)
               /\ g[Len(items)] = h[Len(items)] + Worth(s, token)
  BY <1>3, <1>4, <1>6, StackedByRecognizing
<1>9. Worth(s, token) = 0
  BY <1>7, WorthNothing
<1>10. h[Len(items)] \in Nat
  <2>1. Len(items) > 0 /\ items \in Seq(Items)
    BY <1>3 DEF OnTrack
  <2> QED BY <1>4, <2>1, HeightsAreNatural
<1>11. Tallied(items', code')
  BY <1>1, <1>2, <1>4, <1>8, <1>9, <1>10 DEF Tallied
<1> QED BY <1>1, <1>3, <1>11

\* A rule without an action: a factor in brackets is worth what is between
\* them, and no other such rule holds a value.
LEMMA DefaultCounts ==
  ASSUME IInv, OperandInv, Default
  PROVE  OperandInv'
<1>1. OnTrack(items) /\ StacksTyped /\ Reading /\ Complete /\ r \in DOMAIN Rules \ Attached
  BY DEF IInv, Default, Reducing, Reading
<1>2. nullptr \in ValuesOf(lhs(r)) /\ Return(nullptr)
  <2>1. r \in DOMAIN Rules /\ r \notin DOMAIN oprOf
    BY <1>1 DEF Attached, oprOf
  <2> QED BY <2>1, NothingReturned DEF Default
<1>3. code' = code \o <<>> /\ code \o <<>> \in Seq(Instructions) /\ <<>> \in Seq(Instructions) /\ resolved' = resolved
  <2>1. code' = code
    BY DEF Default
  <2>2. code \in Seq(Instructions)
    BY <1>1 DEF StacksTyped
  <2>3. resolved' = resolved
    BY DEF Default, errorFree
  <2> QED BY <2>1, <2>2, <2>3
<1>4. Held(Whole) = Worth(lhs(r), nullptr)
  <2>1. CASE r = "EXPRFACTOR"
    <3>1. lhs(r) = "Sfactor"
      BY <2>1, ExpressionsRules
    <3> QED BY <1>1, <2>1, <3>1, HeldByOne, WorthOfSymbols DEF OneHeld
  <2>2. CASE r \in {"EOPTFACTOR", "EOPTEXPRITEM"}
    <3>1. lhs(r) \in {"Soptfactor", "Soptexpritem"}
      BY <2>2, ExpressionsRules
    <3>2. Worth(lhs(r), nullptr) = 0
      BY <3>1, WorthOfSymbols
    <3> QED BY <1>1, <2>2, <3>2, HeldByNone DEF NoneHeld
  <2>3. CASE r \notin {"EXPRFACTOR", "EOPTFACTOR", "EOPTEXPRITEM"}
    <3>1. r \notin ExpressionRules /\ r \notin Containing
      BY <1>1, <2>3 DEF ExpressionRules, Expressions, Operators, Containing, Attached
    <3>2. lhs(r) \notin ExpressionSymbols
      <4>1. lhs(r) \in OtherSymbols
        BY <1>1, <3>1, ExpressionsInPlaceEverywhere DEF ExpressionsInPlace
      <4> QED BY <4>1 DEF OtherSymbols, ExpressionSymbols
    <3> QED BY <1>1, <3>1, <3>2, HeldByOthers, WorthNothing
  <2> QED BY <2>1, <2>2, <2>3
<1>5. Balanced(<<>>, nullptr)
  BY <1>4, NothingBalanced
<1>6. Alike(code \o <<>>, code')
  BY <1>3, AlikeItself
<1> QED BY <1>1, <1>2, <1>3, <1>5, <1>6, ReductionCounts

\* Declarations emit nothing.
LEMMA DeclareCounts ==
  ASSUME IInv, OperandInv, Declare
  PROVE  OperandInv'
<1>1. OnTrack(items) /\ StacksTyped /\ Reading /\ Complete /\ r \in {"CONSTDEF", "OPTVARID", "VAR"}
  BY DEF IInv, Declare, Reducing, Reading
<1>2. nullptr \in ValuesOf(lhs(r)) /\ Return(nullptr)
  <2>1. r \in DOMAIN Rules /\ r \notin DOMAIN oprOf
    BY <1>1, ValuesComplete DEF oprOf
  <2> QED BY <2>1, NothingReturned DEF Declare
<1>3. code' = code \o <<>> /\ code \o <<>> \in Seq(Instructions) /\ <<>> \in Seq(Instructions) /\ resolved' = resolved
  <2>1. code' = code /\ resolved' = resolved
    BY DEF Declare, errorFree
  <2>2. code \in Seq(Instructions)
    BY <1>1 DEF StacksTyped
  <2> QED BY <2>1, <2>2
<1>4. Held(Whole) = Worth(lhs(r), nullptr)
  <2>1. r \notin ExpressionRules /\ r \notin Containing
    BY <1>1 DEF ExpressionRules, Expressions, Operators, Containing
  <2>2. lhs(r) \notin ExpressionSymbols
    BY <1>1, DeclarationsRules DEF ExpressionSymbols
  <2> QED BY <1>1, <2>1, <2>2, HeldByOthers, WorthNothing
<1>5. Balanced(<<>>, nullptr)
  BY <1>4, NothingBalanced
<1>6. Alike(code \o <<>>, code')
  BY <1>3, AlikeItself
<1> QED BY <1>1, <1>2, <1>3, <1>5, <1>6, ReductionCounts

\* Rules that are not of an expression begin and end with none.
LEMMA OthersBalanced ==
  ASSUME OnTrack(items), r \notin ExpressionRules, NEW e, NEW value, Runs(e, Held(Whole), 0),
         Held(Whole) \in Nat
  PROVE  Balanced(e, value)
<1>1. lhs(r) \notin ExpressionSymbols
  <2>1. r \in DOMAIN Rules
    BY Innermost
  <2>2. lhs(r) \in OtherSymbols
    BY <2>1, ExpressionsInPlaceEverywhere DEF ExpressionsInPlace
  <2> QED BY <2>2 DEF OtherSymbols, ExpressionSymbols
<1>2. Worth(lhs(r), value) = 0
  BY <1>1, WorthNothing
<1>3. 0 + Held(Whole) = Held(Whole)
  OBVIOUS
<1> QED BY <1>2, <1>3 DEF Balanced

\* What is emitted for a name that is found (Assembler.h:104-169).
LEMMA NamesRun ==
  ASSUME Table!IInv, NEW name, NEW x \in Nat
  PROVE  /\ call_proc(name) # <<>> => Runs(call_proc(name), 0, 0)
         /\ load_id(name) # <<>> => Runs(load_id(name), x, x + 1)
         /\ store_id(name) # <<>> => Runs(store_id(name), 1, 0)
         /\ read_id(name) # <<>> => Runs(read_id(name), 0, 0)
<1>1. 0 \in Int /\ 1 \in Int /\ x \in Int /\ x + 1 \in Int /\ 0 \in Nat
  OBVIOUS
<1>2. Runs(<<Access("CAL", name)>>, 0, 0)
  <2>1. Acts(Access("CAL", name), 0, 0)
    BY ActsPlain DEF Access
  <2> QED BY <1>1, <2>1, RunsOne
<1>3. Runs(<<Access("LOD", name)>>, x, x + 1)
  <2>1. Acts(Access("LOD", name), x, x + 1)
    BY ActsPlain DEF Access
  <2> QED BY <1>1, <2>1, RunsOne
<1>4. ASSUME NEW number PROVE Runs(load_number(number), x, x + 1)
  <2>1. Acts(inst_t("LIT", 0, number), x, x + 1)
    BY ActsPlain
  <2>2. Runs(<<inst_t("LIT", 0, number)>>, x, x + 1)
    BY <1>1, <2>1, RunsOne
  <2> QED BY <2>2 DEF load_number
<1>5. Runs(<<Access("STO", name)>>, 1, 0)
  <2>1. Acts(Access("STO", name), 1, 0)
    BY <1>1, ActsPlain DEF Access
  <2> QED BY <1>1, <2>1, RunsOne
<1>6. Runs(insert_opr(OPR_RD), 0, 1)
  <2>1. Acts(inst_t("OPR", 0, OPR_RD), 0, 0 + 1)
    BY <1>1, ActsOpr
  <2>2. Acts(inst_t("OPR", 0, OPR_RD), 0, 1)
    BY <2>1
  <2>3. Runs(<<inst_t("OPR", 0, OPR_RD)>>, 0, 1)
    BY <1>1, <2>2, RunsOne
  <2>4. OPR_RD # OPR_NOP
    BY DEF OPR_RD, OPR_NOP
  <2> QED BY <2>3, <2>4 DEF insert_opr
<1>7. call_proc(name) # <<>> => Runs(call_proc(name), 0, 0)
  BY <1>2 DEF call_proc
<1>8. load_id(name) # <<>> => Runs(load_id(name), x, x + 1)
  BY <1>3, <1>4 DEF load_id
<1>9. store_id(name) # <<>> => Runs(store_id(name), 1, 0)
  BY <1>5 DEF store_id
<1>10. read_id(name) # <<>> => Runs(read_id(name), 0, 0)
  <2> SUFFICES ASSUME Found(name, {"VARIABLE"}) PROVE Runs(insert_opr(OPR_RD) \o store_id(name), 0, 0)
    BY DEF read_id
  <2>1. Runs(store_id(name), 1, 0)
    BY <1>5 DEF store_id
  <2>2. insert_opr(OPR_RD) \in Seq(Instructions)
    BY Operations DEF Solid, OPR_RD
  <2>3. store_id(name) \in Seq(Instructions)
    BY NamesLoaded DEF Solid
  <2> QED BY <1>6, <2>1, <2>2, <2>3, RunsJoined
<1> QED BY <1>7, <1>8, <1>9, <1>10

\* The operations (Assembler.h:171).
LEMMA OperationsRun ==
  ASSUME NEW x \in Nat
  PROVE  /\ \A b \in Arithmetic \cup Comparisons : Runs(insert_opr(b), x + 2, x + 1)
         /\ Runs(insert_opr(OPR_ODD), x + 1, x + 1)
         /\ Runs(insert_opr(OPR_WR), 1, 0) /\ Runs(insert_opr(OPR_NL), 0, 0)
         /\ Runs(insert_opr(OPR_RET), 0, 0)
<1>1. 0 \in Int /\ 1 \in Int /\ x \in Int /\ x + 1 \in Int /\ x + 2 \in Int /\ 0 \in Nat
  OBVIOUS
<1>2. ASSUME NEW b, b # OPR_NOP PROVE insert_opr(b) = <<inst_t("OPR", 0, b)>>
  BY <1>2 DEF insert_opr
<1>3. ASSUME NEW b \in Arithmetic \cup Comparisons PROVE Runs(insert_opr(b), x + 2, x + 1)
  <2>1. b # OPR_NOP
    BY DEF Arithmetic, Comparisons, OPR_NOP, OPR_ADD, OPR_SUB, OPR_MUL, OPR_DIV,
           OPR_CMPE, OPR_CMPNE, OPR_CMPL, OPR_CMPGE, OPR_CMPG, OPR_CMPLE
  <2>2. Acts(inst_t("OPR", 0, b), x + 2, x + 1)
    BY ActsOpr
  <2>3. Runs(<<inst_t("OPR", 0, b)>>, x + 2, x + 1)
    BY <1>1, <2>2, RunsOne
  <2> QED BY <1>2, <2>1, <2>3
<1>4. Runs(insert_opr(OPR_ODD), x + 1, x + 1)
  <2>1. Runs(<<inst_t("OPR", 0, OPR_ODD)>>, x + 1, x + 1)
    BY <1>1, ActsOpr, RunsOne
  <2>2. OPR_ODD # OPR_NOP
    BY DEF OPR_ODD, OPR_NOP
  <2> QED BY <1>2, <2>1, <2>2
<1>5. Runs(insert_opr(OPR_WR), 1, 0)
  <2>1. Acts(inst_t("OPR", 0, OPR_WR), 0 + 1, 0)
    BY <1>1, ActsOpr
  <2>2. Acts(inst_t("OPR", 0, OPR_WR), 1, 0)
    BY <2>1
  <2>3. Runs(<<inst_t("OPR", 0, OPR_WR)>>, 1, 0)
    BY <1>1, <2>2, RunsOne
  <2>4. OPR_WR # OPR_NOP
    BY DEF OPR_WR, OPR_NOP
  <2> QED BY <1>2, <2>3, <2>4
<1>6. Runs(insert_opr(OPR_NL), 0, 0)
  <2>1. Runs(<<inst_t("OPR", 0, OPR_NL)>>, 0, 0)
    BY <1>1, ActsOpr, RunsOne
  <2>2. OPR_NL # OPR_NOP
    BY DEF OPR_NL, OPR_NOP
  <2> QED BY <1>2, <2>1, <2>2
<1>7. Runs(insert_opr(OPR_RET), 0, 0)
  <2>1. Runs(<<inst_t("OPR", 0, OPR_RET)>>, 0, 0)
    BY <1>1, ActsOpr, RunsOne
  <2>2. OPR_RET # OPR_NOP
    BY DEF OPR_RET, OPR_NOP
  <2> QED BY <1>2, <2>1, <2>2
<1> QED BY <1>3, <1>4, <1>5, <1>6, <1>7

\* What a write has for the value of its expression (Assembler.cpp:85 and 92).
LEMMA NothingToName ==
  ASSUME OnTrack(items), Complete
  PROVE  /\ r = "WRITE" => v[4] = nullptr
         /\ r = "OPTWRID" => v[2] = nullptr
<1>1. ValuesOf("Sexpr") = {nullptr}
  <2>1. lhs("EXPR") = "Sexpr" /\ "EXPR" \in DOMAIN Rules
    BY ExpressionsRules, RuleNames DEF Expressions
  <2>2. "Sexpr" \notin Terminals
    BY <2>1, MadeByRules
  <2> QED BY <2>2 DEF ValuesOf
<1>2. ASSUME r = "WRITE" PROVE v[4] = nullptr
  <2>1. Len(rhs(r)) = 5 /\ rhs(r)[4] = "Sexpr"
    BY <1>2, ControlAndIORules
  <2> QED BY <1>1, <2>1, ValuesComplete
<1>3. ASSUME r = "OPTWRID" PROVE v[2] = nullptr
  <2>1. Len(rhs(r)) = 3 /\ rhs(r)[2] = "Sexpr"
    BY <1>3, ControlAndIORules
  <2> QED BY <1>1, <2>1, ValuesComplete
<1> QED BY <1>2, <1>3

\* A simple statement uses what it holds, and a factor leaves its value.
LEMMA EmitSimpleCounts ==
  ASSUME IInv, OperandInv, EmitSimple
  PROVE  OperandInv'
<1>1. OnTrack(items) /\ StacksTyped /\ Table!IInv /\ Reading /\ Complete /\ r \in Simple
  BY DEF IInv, EmitSimple, Reducing, Reading
<1>2. nullptr \in ValuesOf(lhs(r)) /\ Return(nullptr)
  <2>1. r \in DOMAIN Rules /\ r \notin DOMAIN oprOf
    BY <1>1, ValuesComplete DEF Simple, oprOf
  <2> QED BY <2>1, NothingReturned DEF EmitSimple
<1>3. code' = code \o Emitted /\ Emitted \in Seq(Instructions) /\ code \in Seq(Instructions)
  BY <1>1, SolidEmitted DEF EmitSimple, insert, Solid, StacksTyped
<1>4. resolved' => resolved /\ Emitted # <<>>
  BY DEF EmitSimple
<1>5. ASSUME Emitted # <<>> PROVE Balanced(Emitted, nullptr)
  <2>1. CASE r = "CALL"
    <3>1. Held(Whole) = 0 /\ r \notin ExpressionRules
      BY <1>1, <2>1, HeldByOthers DEF ExpressionRules, Expressions, Operators, Containing
    <3>2. Emitted = call_proc(v[2].name)
      BY <2>1 DEF Emitted
    <3>3. Runs(Emitted, 0, 0)
      BY <1>1, <1>5, <3>2, NamesRun
    <3> QED BY <1>1, <3>1, <3>3, OthersBalanced
  <2>2. CASE r \in {"READ", "OPTRDID"}
    <3>1. Held(Whole) = 0 /\ r \notin ExpressionRules
      BY <1>1, <2>2, HeldByOthers DEF ExpressionRules, Expressions, Operators, Containing
    <3>2. \E name : Emitted = read_id(name)
      BY <2>2 DEF Emitted
    <3>3. Runs(Emitted, 0, 0)
      BY <1>1, <1>5, <3>2, NamesRun
    <3> QED BY <1>1, <3>1, <3>3, OthersBalanced
  <2>3. CASE r = "OPTWRID"
    <3>1. Held(Whole) = 1 /\ r \notin ExpressionRules
      BY <1>1, <2>3, HeldByOne DEF ExpressionRules, Expressions, Operators, OneHeld
    <3>2. Emitted = insert_opr(OPR_WR)
      BY <1>1, <2>3, NothingToName DEF Emitted, Written
    <3>3. Runs(Emitted, 1, 0)
      BY <3>2, OperationsRun
    <3> QED BY <1>1, <3>1, <3>3, OthersBalanced
  <2>4. CASE r = "WRITE"
    <3>1. Held(Whole) = 1 /\ r \notin ExpressionRules
      BY <1>1, <2>4, HeldByOne DEF ExpressionRules, Expressions, Operators, OneHeld
    <3>2. Emitted = insert_opr(OPR_WR) \o insert_opr(OPR_NL)
      BY <1>1, <2>4, NothingToName DEF Emitted, Written
    <3>3. Runs(insert_opr(OPR_WR), 1, 0) /\ Runs(insert_opr(OPR_NL), 0, 0)
      BY OperationsRun
    <3>4. insert_opr(OPR_WR) \in Seq(Instructions) /\ insert_opr(OPR_NL) \in Seq(Instructions)
      BY Operations DEF Solid, OPR_WR, OPR_NL
    <3>5. Runs(Emitted, 1, 0)
      BY <3>2, <3>3, <3>4, RunsJoined
    <3> QED BY <1>1, <3>1, <3>5, OthersBalanced
  <2>5. CASE r \in {"IDFACTOR", "NUMFACTOR"}
    <3>1. Held(Whole) = 0 /\ Worth(lhs(r), nullptr) = 1
      <4>1. lhs(r) = "Sfactor"
        BY <2>5, ExpressionsRules
      <4> QED BY <1>1, <2>5, <4>1, HeldByNone, WorthOfSymbols DEF NoneHeld
    <3>2. ASSUME NEW b \in Nat PROVE Runs(Emitted, b, b + 1)
      <4>1. CASE r = "IDFACTOR"
        <5>1. Emitted = load_id(v[1].name)
          BY <4>1 DEF Emitted
        <5> QED BY <1>1, <1>5, <5>1, NamesRun
      <4>2. CASE r = "NUMFACTOR"
        <5>1. Emitted = <<inst_t("LIT", 0, v[1].desc)>>
          BY <4>2 DEF Emitted, load_number
        <5>2. Acts(inst_t("LIT", 0, v[1].desc), b, b + 1)
          BY ActsPlain
        <5> QED BY <5>1, <5>2, RunsOne
      <4> QED BY <2>5, <4>1, <4>2
    <3>3. \A b \in Nat : b + 0 = b
      OBVIOUS
    <3> QED BY <3>1, <3>2, <3>3 DEF Balanced
  <2> QED BY <1>1, <2>1, <2>2, <2>3, <2>4, <2>5 DEF Simple
<1>6. Alike(code \o Emitted, code')
  <2>1. code \o Emitted \in Seq(Instructions)
    BY <1>3
  <2> QED BY <1>3, <2>1, AlikeItself
<1> QED BY <1>1, <1>2, <1>3, <1>4, <1>5, <1>6, ReductionCounts

\* An operator leaves nothing, but a minus sign the 0 it subtracts from
\* (Assembler.cpp:124).
LEMMA ReadOperatorCounts ==
  ASSUME IInv, OperandInv, ReadOperator
  PROVE  OperandInv'
<1>1. OnTrack(items) /\ StacksTyped /\ Reading /\ Complete /\ r \in DOMAIN oprOf
  BY DEF IInv, ReadOperator, Reducing, Reading
<1> DEFINE value == Operator(oprOf[r])
<1>2. value \in ValuesOf(lhs(r)) /\ Return(value)
  BY <1>1, OperatorReturned DEF ReadOperator
<1>3. code' = code \o Minuend /\ Minuend \in Seq(Instructions) /\ code \in Seq(Instructions) /\ resolved' = resolved
  <2>1. Solid(Minuend)
    BY NoCode, Literals DEF Minuend
  <2> QED BY <1>1, <2>1 DEF ReadOperator, insert, Solid, StacksTyped, errorFree
<1>4. Held(Whole) = 0
  BY <1>1, HeldByNone DEF NoneHeld
<1>5. Balanced(Minuend, value)
  <2>1. CASE r = "NEXPROP"
    <3>1. lhs(r) = "Sexprop" /\ value = Operator(OPR_SUB)
      BY <2>1, ExpressionsRules DEF oprOf
    <3>2. value \notin {nullptr, Operator(OPR_NOP)}
      BY <3>1 DEF Operator, nullptr, symbol_t, OPR_SUB, OPR_NOP
    <3>3. Worth(lhs(r), value) = 1
      BY <3>1, <3>2, WorthOfSymbols
    <3>4. Minuend = <<inst_t("LIT", 0, 0)>>
      BY <2>1 DEF Minuend, load_number
    <3>5. ASSUME NEW b \in Nat PROVE Runs(Minuend, b + 0, b + 1)
      <4>1. Acts(inst_t("LIT", 0, 0), b, b + 1)
        BY ActsPlain
      <4>2. Runs(<<inst_t("LIT", 0, 0)>>, b, b + 1)
        BY <4>1, RunsOne
      <4>3. b + 0 = b
        OBVIOUS
      <4> QED BY <3>4, <4>2, <4>3
    <3> QED BY <1>4, <3>3, <3>5 DEF Balanced
  <2>2. CASE r # "NEXPROP"
    <3>1. Minuend = <<>>
      BY <2>2 DEF Minuend
    <3>2. Worth(lhs(r), value) = 0
      <4>1. CASE r = "PEXPROP"
        <5>1. lhs(r) = "Sexprop" /\ value = Operator(OPR_NOP)
          BY <4>1, ExpressionsRules DEF oprOf
        <5> QED BY <5>1, WorthOfSymbols
      <4>2. CASE r \in {"MOP", "DOP"}
        <5>1. lhs(r) = "Smdop"
          BY <4>2, ExpressionsRules
        <5> QED BY <5>1, WorthOfSymbols
      <4>3. CASE r \in {"AOP", "SOP", "EQOP", "LOP", "LEOP", "GOP", "GEOP", "NEOP"}
        <5>1. lhs(r) \in {"Sasop", "Srelop"}
          BY <4>3, OperatorsRules
        <5> QED BY <5>1, WorthOfSymbols
      <4>4. r \in {"PEXPROP", "MOP", "DOP", "AOP", "SOP", "EQOP", "LOP", "LEOP", "GOP", "GEOP", "NEOP"}
        BY <1>1, <2>2 DEF oprOf
      <4> QED BY <4>1, <4>2, <4>3, <4>4
    <3> QED BY <1>4, <3>1, <3>2, NothingBalanced
  <2> QED BY <2>1, <2>2
<1>6. Alike(code \o Minuend, code')
  <2>1. code \o Minuend \in Seq(Instructions)
    BY <1>3
  <2> QED BY <1>3, <2>1, AlikeItself
<1> HIDE DEF value
<1> QED BY <1>1, <1>2, <1>3, <1>5, <1>6, ReductionCounts

\* The operator in front of an operand.
LEMMA OperatorsInFront ==
  ASSUME OnTrack(items), Complete, r \in Applying
  PROVE  v[1] = nullptr \/ \E o \in Arithmetic \cup {OPR_NOP} : v[1] = Operator(o)
<1>1. /\ Len(rhs(r)) \in {2, 3} /\ rhs(r)[1] \in {"Sexprop", "Soptfactor", "Soptexpritem"}
  BY ExpressionsRules DEF Applying
<1>2. v[1] \in ValuesOf(rhs(r)[1])
  <2>1. 1 \in 1..Len(rhs(r))
    BY <1>1
  <2> QED BY <2>1, ValuesComplete
<1>3. {"Sexprop", "Soptfactor", "Soptexpritem"} \cap Terminals = {}
  <2>1. /\ lhs("NEXPROP") = "Sexprop" /\ lhs("EOPTFACTOR") = "Soptfactor"
        /\ lhs("EOPTEXPRITEM") = "Soptexpritem"
        /\ {"NEXPROP", "EOPTFACTOR", "EOPTEXPRITEM"} \subseteq DOMAIN Rules
    BY ExpressionsRules, RuleNames DEF Expressions
  <2> QED BY <2>1, MadeByRules
<1>4. OPR_SUB \in Arithmetic
  BY DEF Arithmetic
<1> QED BY <1>1, <1>2, <1>3, <1>4 DEF ValuesOf

\* What an operand is worth, the operator behind it counted in.
LEMMA HandedOnWorth ==
  ASSUME OnTrack(items), Complete, r \in Applying
  PROVE  Worth(lhs(r), HandedOn) = 1
<1>1. CASE r \in {"EXPR", "EXPRITEM"}
  <2>1. lhs(r) \in {"Sexpr", "Sexpritem"}
    BY <1>1, ExpressionsRules
  <2> QED BY <2>1, WorthOfSymbols
<1>2. CASE r \in {"OPTFACTOR", "OPTEXPRITEM", "FEXPRITEM"}
  <2>1. /\ lhs(r) \in {"Soptfactor", "Soptexpritem"} /\ Len(rhs(r)) = 3
        /\ rhs(r)[3] \in {"Smdop", "Sasop"} /\ HandedOn = Operator(v[3].desc)
    BY <1>2, ExpressionsRules DEF HandedOn
  <2>2. lhs("MOP") = "Smdop" /\ lhs("AOP") = "Sasop" /\ "MOP" \in DOMAIN Rules /\ "AOP" \in DOMAIN Rules
    BY ExpressionsRules, OperatorsRules, RuleNames DEF Expressions, Operators
  <2>3. rhs(r)[3] \notin Terminals
    BY <2>1, <2>2, MadeByRules
  <2>4. PICK o \in Arithmetic : v[3] = Operator(o)
    BY <2>1, <2>3, ValuesComplete DEF ValuesOf
  <2>5. HandedOn = Operator(o) /\ o # OPR_NOP
    <3>1. v[3].desc = o
      BY <2>4 DEF Operator, symbol_t
    <3> QED BY <2>1, <3>1 DEF Arithmetic, OPR_NOP, OPR_ADD, OPR_SUB, OPR_MUL, OPR_DIV
  <2>6. HandedOn \notin {nullptr, Operator(OPR_NOP)}
    BY <2>5 DEF Operator, nullptr, symbol_t
  <2> QED BY <2>1, <2>6, WorthOfSymbols
<1> QED BY <1>1, <1>2 DEF Applying

\* An operator makes one value of two (Assembler.cpp:139).
LEMMA ApplyOperatorCounts ==
  ASSUME IInv, OperandInv, ApplyOperator
  PROVE  OperandInv'
<1>1. OnTrack(items) /\ StacksTyped /\ Reading /\ Complete /\ r \in Applying
  BY DEF IInv, ApplyOperator, Reducing, Reading, Applying
<1>2. HandedOn \in ValuesOf(lhs(r)) /\ Return(HandedOn)
  BY <1>1, HandedOnReturned DEF ApplyOperator, Applying
<1> DEFINE e == Pending(v[1])
<1>3. code' = code \o e /\ e \in Seq(Instructions) /\ code \in Seq(Instructions) /\ resolved' = resolved
  <2>1. Solid(e)
    <3>1. Len(rhs(r)) >= 1
      BY <1>1, ExpressionsRules DEF Applying
    <3>2. Len(rhs(r)) \in Nat
      BY <1>1, Innermost
    <3>3. v[1].desc \in Int
      BY <1>1, <3>1, <3>2, ValuesComplete
    <3> QED BY <3>3, Operations, NoCode DEF Pending
  <2>2. e \in Seq(Instructions)
    BY <2>1 DEF Solid
  <2> HIDE DEF e
  <2> QED BY <1>1, <2>2 DEF ApplyOperator, insert, StacksTyped, errorFree, e
<1>4. Worth(lhs(r), HandedOn) = 1
  BY <1>1, HandedOnWorth
<1>5. Held(Whole) = 1 + (IF v[1] \in {nullptr, Operator(OPR_NOP)} THEN 0 ELSE 1)
  BY <1>1, HeldByTwo
<1>6. Balanced(e, HandedOn)
  <2>1. CASE v[1] \in {nullptr, Operator(OPR_NOP)}
    <3>1. Held(Whole) = 1
      BY <1>5, <2>1
    <3>2. e = <<>>
      BY <2>1 DEF Pending, insert_opr, Operator, symbol_t
    <3> QED BY <1>4, <3>1, <3>2, NothingBalanced
  <2>2. CASE v[1] \notin {nullptr, Operator(OPR_NOP)}
    <3>1. Held(Whole) = 2
      BY <1>5, <2>2
    <3>2. PICK o \in Arithmetic : v[1] = Operator(o)
      BY <1>1, <2>2, OperatorsInFront
    <3>3. v[1].desc = o
      BY <3>2 DEF Operator, symbol_t
    <3>4. e = insert_opr(o)
      BY <2>2, <3>3 DEF Pending
    <3>5. \A b \in Nat : Runs(insert_opr(o), b + 2, b + 1)
      BY OperationsRun
    <3> QED BY <1>4, <3>1, <3>4, <3>5 DEF Balanced
  <2> QED BY <2>1, <2>2
<1>7. Alike(code \o e, code')
  <2> HIDE DEF e
  <2>1. code \o e \in Seq(Instructions)
    BY <1>3
  <2> QED BY <1>3, <2>1, AlikeItself
<1> HIDE DEF e
<1> QED BY <1>1, <1>2, <1>3, <1>6, <1>7, ReductionCounts

\* A condition makes one value of the one or two it compares (Assembler.cpp:144).
LEMMA AssertionCounts ==
  ASSUME IInv, OperandInv, Assertion
  PROVE  OperandInv'
<1>1. OnTrack(items) /\ StacksTyped /\ Reading /\ Complete /\ r \in {"ASSERTION", "RASSERTION"}
  BY DEF IInv, Assertion, Reducing, Reading
<1>2. /\ nullptr \in ValuesOf(lhs(r))
      /\ Return(nullptr) \/ (status' = "crashed" /\ lexErrors' = lexErrors)
  <2>1. r \in DOMAIN Rules /\ r \notin DOMAIN oprOf
    BY <1>1, ValuesComplete DEF oprOf
  <2> QED BY <2>1, NothingReturned DEF Assertion, EndWithoutReturn
<1> DEFINE e == insert_opr(IF r = "ASSERTION" THEN v[2].desc ELSE OPR_ODD)
<1>3. lhs(r) = "Sassert"
  BY <1>1, ExpressionsRules
<1>4. Worth(lhs(r), nullptr) = 1
  BY <1>3, WorthOfSymbols
<1>5. Solid(e) /\ Balanced(e, nullptr)
  <2>1. CASE r = "ASSERTION"
    <3>1. Len(rhs(r)) = 3 /\ rhs(r)[2] = "Srelop"
      BY <2>1, ExpressionsRules
    <3>2. "Srelop" \notin Terminals
      <4>1. lhs("EQOP") = "Srelop" /\ "EQOP" \in DOMAIN Rules
        BY OperatorsRules, RuleNames DEF Operators
      <4> QED BY <4>1, MadeByRules
    <3>3. PICK o \in Comparisons : v[2] = Operator(o)
      BY <1>1, <3>1, <3>2, ValuesComplete DEF ValuesOf
    <3>4. e = insert_opr(o)
      BY <2>1, <3>3 DEF Operator, symbol_t
    <3>5. o \in Int
      BY DEF Comparisons, OPR_CMPE, OPR_CMPNE, OPR_CMPL, OPR_CMPGE, OPR_CMPG, OPR_CMPLE
    <3>6. Held(Whole) = 2
      BY <1>1, <2>1, HeldByTwo
    <3>7. \A b \in Nat : Runs(insert_opr(o), b + 2, b + 1)
      BY OperationsRun
    <3> QED BY <1>4, <3>4, <3>5, <3>6, <3>7, Operations DEF Balanced
  <2>2. CASE r = "RASSERTION"
    <3>1. e = insert_opr(OPR_ODD)
      BY <2>2
    <3>2. Held(Whole) = 1
      BY <1>1, <2>2, HeldByOne DEF OneHeld
    <3>3. \A b \in Nat : Runs(insert_opr(OPR_ODD), b + 1, b + 1)
      BY OperationsRun
    <3>4. OPR_ODD \in Int
      BY DEF OPR_ODD
    <3> QED BY <1>4, <3>1, <3>2, <3>3, <3>4, Operations DEF Balanced
  <2> QED BY <1>1, <2>1, <2>2
<1>6. code' = code \o e /\ e \in Seq(Instructions) /\ code \in Seq(Instructions) /\ resolved' = resolved
  <2>1. e \in Seq(Instructions)
    BY <1>5 DEF Solid
  <2> QED BY <1>1, <2>1 DEF Assertion, insert, StacksTyped, errorFree
<1> HIDE DEF e
<1>7. Alike(code \o e, code')
  <2>1. code \o e \in Seq(Instructions)
    BY <1>6
  <2> QED BY <1>6, <2>1, AlikeItself
<1> QED BY <1>1, <1>2, <1>5, <1>6, <1>7, ReductionCounts

\* An assignment stores the value it holds (Assembler.cpp:151).
LEMMA AssignCounts ==
  ASSUME IInv, OperandInv, Assign
  PROVE  OperandInv'
<1>1. OnTrack(items) /\ StacksTyped /\ Table!IInv /\ Reading /\ Complete /\ r = "ASSIGN"
  BY DEF IInv, Assign, Reducing, Reading
<1>2. /\ nullptr \in ValuesOf(lhs(r))
      /\ Return(nullptr) \/ (status' = "crashed" /\ lexErrors' = lexErrors)
  <2>1. r \in DOMAIN Rules /\ r \notin DOMAIN oprOf
    BY <1>1, ValuesComplete DEF oprOf
  <2> QED BY <2>1, NothingReturned DEF Assign, EndWithoutReturn
<1> DEFINE e == store_id(v[1].name)
<1>3. Solid(e) /\ (e # <<>> => Runs(e, 1, 0))
  <2>1. 0 \in Nat
    OBVIOUS
  <2> QED BY <1>1, <2>1, NamesLoaded, NamesRun
<1>4. code' = code \o e /\ e \in Seq(Instructions) /\ code \in Seq(Instructions)
      /\ (resolved' => resolved /\ e # <<>>)
  <2>1. e \in Seq(Instructions)
    BY <1>3 DEF Solid
  <2> QED BY <1>1, <2>1 DEF Assign, insert, StacksTyped
<1> HIDE DEF e
<1>5. ASSUME e # <<>> PROVE Balanced(e, nullptr)
  <2>1. Held(Whole) = 1 /\ r \notin ExpressionRules
    BY <1>1, HeldByOne DEF ExpressionRules, Expressions, Operators, OneHeld
  <2> QED BY <1>1, <1>3, <1>5, <2>1, OthersBalanced
<1>6. Alike(code \o e, code')
  <2>1. code \o e \in Seq(Instructions)
    BY <1>4
  <2> QED BY <1>4, <2>1, AlikeItself
<1> QED BY <1>1, <1>2, <1>4, <1>5, <1>6, ReductionCounts

\* The jump of an if or a loop takes the condition's value (Assembler.cpp:156 and 173).
LEMMA HeadersCount ==
  ASSUME IInv, OperandInv, IfHeader \/ WhileHeader
  PROVE  OperandInv'
<1>1. OnTrack(items) /\ StacksTyped /\ Reading /\ Complete /\ r \in {"CONDHEADER", "WHILEHEADER"}
  BY DEF IInv, IfHeader, WhileHeader, Reducing, Reading
<1>2. /\ nullptr \in ValuesOf(lhs(r))
      /\ Return(nullptr) \/ (status' = "crashed" /\ lexErrors' = lexErrors)
  <2>1. r \in DOMAIN Rules /\ r \notin DOMAIN oprOf
    BY <1>1, ValuesComplete DEF oprOf
  <2> QED BY <2>1, NothingReturned DEF IfHeader, WhileHeader, EndWithoutReturn
<1> DEFINE e == <<inst_t("JPC", 0, 0)>>
<1>3. e \in Seq(Instructions)
  <2>1. inst_t("JPC", 0, 0) \in Instructions
    BY DEF inst_t, Instructions, InstTypes
  <2> QED BY <2>1
<1>4. Runs(e, 1, 0)
  <2>1. 0 \in Nat /\ 0 \in Int /\ 1 \in Int
    OBVIOUS
  <2>2. Acts(inst_t("JPC", 0, 0), 1, 0)
    BY <2>1, ActsPlain
  <2> QED BY <2>1, <2>2, RunsOne
<1> HIDE DEF e
<1>5. code' = code \o e /\ code \in Seq(Instructions) /\ resolved' = resolved
  BY <1>1 DEF IfHeader, WhileHeader, insert, StacksTyped, errorFree, e
<1>6. Balanced(e, nullptr)
  <2>1. Held(Whole) = 1 /\ r \notin ExpressionRules
    BY <1>1, HeldByOne DEF ExpressionRules, Expressions, Operators, OneHeld
  <2> QED BY <1>1, <1>4, <2>1, OthersBalanced
<1>7. Alike(code \o e, code')
  <2>1. code \o e \in Seq(Instructions)
    BY <1>3, <1>5
  <2> QED BY <1>5, <2>1, AlikeItself
<1> QED BY <1>1, <1>2, <1>3, <1>5, <1>6, <1>7, ReductionCounts

\* The addresses that are remembered are such, also when code is appended.
LEMMA QueuedAreFillable ==
  ASSUME IInv, status = "parsing", NEW e \in Seq(Instructions)
  PROVE  /\ if_not_backfill # <<>> => Last(if_not_backfill) \in Fillable(code \o e)
         /\ while_not_backfill # <<>> => Last(while_not_backfill) \in Fillable(code \o e)
         /\ proc_int_backfill # <<>> => Last(proc_int_backfill) \in Fillable(code \o e)
         /\ proc_body_backfill # <<>> => Last(proc_body_backfill).jmp_inst \in Fillable(code \o e)
<1> DEFINE c == code \o e
           J == JmpsOf(proc_body_backfill)
<1>1. /\ code \in Seq(Instructions) /\ AllQueued /\ J \in Seq(Nat)
      /\ proc_int_backfill \in Seq(Nat) /\ if_not_backfill \in Seq(Nat)
      /\ while_not_backfill \in Seq(Nat) /\ proc_body_backfill \in Seq(BodyEntries)
  BY BeforeReduction
<1>2. /\ Len(code) \in Nat /\ Len(c) \in Nat /\ Len(c) >= Len(code)
      /\ \A k \in 1..Len(code) : c[k] = code[k]
  BY <1>1
<1> HIDE DEF c
<1>3. ASSUME NEW a \in Blanks(code) PROVE a \in Fillable(c)
  <2>1. a \in 0..(Len(code) - 1) /\ code[a + 1].type \in {"INT", "JMP", "JPC"}
    BY DEF Blanks, Blank
  <2>2. a \in 0..(Len(c) - 1) /\ a + 1 \in 1..Len(code)
    BY <1>2, <2>1
  <2> QED BY <1>2, <2>1, <2>2 DEF Fillable
<1>4. /\ ToSet(proc_int_backfill) \subseteq Blanks(code) /\ ToSet(if_not_backfill) \subseteq Blanks(code)
      /\ ToSet(while_not_backfill) \subseteq Blanks(code) /\ ToSet(J) \subseteq Blanks(code)
  BY <1>1 DEF AllQueued, Queues
<1> HIDE DEF J
<1>5. ASSUME NEW s \in Seq(Nat), s # <<>>, ToSet(s) \subseteq Blanks(code)
      PROVE  Last(s) \in Fillable(c)
  <2>1. Last(s) \in ToSet(s)
    BY <1>5, Popped
  <2> QED BY <1>3, <1>5, <2>1
<1>6. ASSUME proc_body_backfill # <<>> PROVE Last(proc_body_backfill).jmp_inst \in Fillable(c)
  <2>1. Last(proc_body_backfill).jmp_inst = Last(J) /\ J # <<>>
    BY <1>1, <1>6, JmpsPopped DEF J
  <2> QED BY <1>1, <1>4, <1>5, <2>1
<1> QED BY <1>1, <1>4, <1>5, <1>6 DEF c

\* The end of an if fills in its jump (Assembler.cpp:162).
LEMMA IfEndCounts ==
  ASSUME IInv, OperandInv, IfEnd
  PROVE  OperandInv'
<1>1. /\ OnTrack(items) /\ StacksTyped /\ StacksDeep /\ Reading /\ Complete /\ r = "CONDITION"
      /\ status = "parsing"
  BY DEF IInv, IfEnd, Reducing, Reading
<1>2. /\ nullptr \in ValuesOf(lhs(r))
      /\ Return(nullptr) \/ (status' = "crashed" /\ lexErrors' = lexErrors)
  <2>1. r \in DOMAIN Rules /\ r \notin DOMAIN oprOf
    BY <1>1, ValuesComplete DEF oprOf
  <2> QED BY <2>1, NothingReturned DEF IfEnd, EndWithoutReturn
<1>3. /\ code' = Backfill(code, Last(if_not_backfill), length) /\ resolved' = resolved
      /\ code \in Seq(Instructions) /\ code \o <<>> = code /\ <<>> \in Seq(Instructions) /\ length \in Int
  <2>1. code \in Seq(Instructions)
    BY <1>1 DEF StacksTyped
  <2>2. code \o <<>> = code /\ length \in Int
    BY <2>1 DEF length
  <2> QED BY <2>1, <2>2 DEF IfEnd, InnermostIf, errorFree
<1>4. if_not_backfill # <<>>
  <2>1. Depth(items, "CONDITION") > 0 /\ Depth(items, "CONDITION") \in Nat
    BY <1>1, DepthsAreNatural DEF HasDepth
  <2> QED BY <1>1, <2>1 DEF StacksDeep
<1>5. Last(if_not_backfill) \in Fillable(code)
  <2>1. Last(if_not_backfill) \in Fillable(code \o <<>>)
    BY <1>1, <1>3, <1>4, QueuedAreFillable
  <2> QED BY <1>3, <2>1
<1>6. Alike(code \o <<>>, code')
  <2>1. Alike(code, code')
    BY <1>3, <1>5, AlikeFilled
  <2> QED BY <1>3, <2>1
<1>7. Balanced(<<>>, nullptr)
  <2>1. Held(Whole) = 0 /\ r \notin ExpressionRules
    BY <1>1, HeldByOthers DEF ExpressionRules, Expressions, Operators, Containing
  <2>2. Runs(<<>>, 0, 0)
    BY RunsNone
  <2> QED BY <1>1, <2>1, <2>2, OthersBalanced
<1> QED BY <1>1, <1>2, <1>3, <1>6, <1>7, ReductionCounts

\* The word while emits nothing (Assembler.cpp:168).
LEMMA WhileEntryCounts ==
  ASSUME IInv, OperandInv, WhileEntry
  PROVE  OperandInv'
<1>1. OnTrack(items) /\ StacksTyped /\ Reading /\ Complete /\ r = "WHILEFLAG"
  BY DEF IInv, WhileEntry, Reducing, Reading
<1>2. /\ nullptr \in ValuesOf(lhs(r))
      /\ Return(nullptr) \/ (status' = "crashed" /\ lexErrors' = lexErrors)
  <2>1. r \in DOMAIN Rules /\ r \notin DOMAIN oprOf
    BY <1>1, ValuesComplete DEF oprOf
  <2> QED BY <2>1, NothingReturned DEF WhileEntry, EndWithoutReturn
<1>3. code' = code \o <<>> /\ code \o <<>> \in Seq(Instructions) /\ <<>> \in Seq(Instructions) /\ resolved' = resolved
  <2>1. code' = code /\ resolved' = resolved
    BY DEF WhileEntry, errorFree
  <2>2. code \in Seq(Instructions)
    BY <1>1 DEF StacksTyped
  <2> QED BY <2>1, <2>2
<1>4. Alike(code \o <<>>, code')
  BY <1>3, AlikeItself
<1>5. Balanced(<<>>, nullptr)
  <2>1. Held(Whole) = 0 /\ r \notin ExpressionRules
    BY <1>1, HeldByOthers DEF ExpressionRules, Expressions, Operators, Containing
  <2>2. Runs(<<>>, 0, 0)
    BY RunsNone
  <2> QED BY <1>1, <2>1, <2>2, OthersBalanced
<1> QED BY <1>1, <1>2, <1>3, <1>4, <1>5, ReductionCounts

\* The end of a loop jumps back where nothing is left (Assembler.cpp:179).
LEMMA WhileEndCounts ==
  ASSUME IInv, OperandInv, WhileEnd
  PROVE  OperandInv'
<1>1. /\ OnTrack(items) /\ StacksTyped /\ StacksDeep /\ Reading /\ Complete /\ r = "WHILE"
      /\ status = "parsing"
  BY DEF IInv, WhileEnd, Reducing, Reading
<1>2. /\ nullptr \in ValuesOf(lhs(r))
      /\ Return(nullptr) \/ (status' = "crashed" /\ lexErrors' = lexErrors)
  <2>1. r \in DOMAIN Rules /\ r \notin DOMAIN oprOf
    BY <1>1, ValuesComplete DEF oprOf
  <2> QED BY <2>1, NothingReturned DEF WhileEnd, EndWithoutReturn
<1>3. while_not_backfill # <<>> /\ while_entry_backfill # <<>>
  <2>1. /\ Depth(items, "WHILE") > 0 /\ Depth(items, "WHILE") \in Nat
        /\ Depth(items, "WHILEHEADER") \in Nat
    BY <1>1, DepthsAreNatural DEF HasDepth
  <2> QED BY SMTT(60), <1>1, <2>1 DEF StacksDeep, StacksTyped
<1> DEFINE back == inst_t("JMP", 0, Last(while_entry_backfill))
           e == <<back>>
           c == code \o e
<1>4. code \in Seq(Instructions) /\ length \in Nat /\ while_entry_backfill \in Seq(Nat \ {0})
  <2>1. code \in Seq(Instructions) /\ while_entry_backfill \in Seq(Nat \ {0})
    BY <1>1 DEF StacksTyped
  <2> QED BY <2>1 DEF length
<1>5. back \in Instructions
  <2>1. Last(while_entry_backfill) \in Nat \ {0}
    BY <1>3, <1>4, Popped
  <2> QED BY <2>1 DEF inst_t, Instructions, InstTypes
<1>6. Acts(back, 0, 0)
  BY ActsPlain
<1> HIDE DEF back
<1>7. e \in Seq(Instructions) /\ c \in Seq(Instructions) /\ Append(code, back) = c
  BY <1>4, <1>5
<1>8. Runs(e, 0, 0)
  BY <1>6, RunsOne
<1> HIDE DEF e
<1>9. code' = Backfill(c, Last(while_not_backfill), length + 1) /\ resolved' = resolved
  BY <1>7 DEF WhileEnd, LoopExit, errorFree, back
<1>10. Last(while_not_backfill) \in Fillable(c)
  BY <1>1, <1>3, <1>7, QueuedAreFillable
<1>11. Alike(c, code')
  <2>1. length + 1 \in Int
    BY <1>4
  <2> HIDE DEF c
  <2> QED BY <1>7, <1>9, <1>10, <2>1, AlikeFilled
<1>12. Balanced(e, nullptr)
  <2>1. Held(Whole) = 0 /\ r \notin ExpressionRules
    BY <1>1, HeldByOthers DEF ExpressionRules, Expressions, Operators, Containing
  <2> QED BY <1>1, <1>8, <2>1, OthersBalanced
<1> QED BY <1>1, <1>2, <1>7, <1>9, <1>11, <1>12, ReductionCounts

\* The two instructions a block begins with take and leave nothing.
LEMMA PrologueRuns == Prologue \in Seq(Instructions) /\ Runs(Prologue, 0, 0)
<1> DEFINE i == inst_t("INT", 0, 0)
           j == inst_t("JMP", 0, 0)
<1>1. i \in Instructions /\ j \in Instructions
  BY DEF inst_t, Instructions, InstTypes
<1>2. Acts(i, 0, 0) /\ Acts(j, 0, 0)
  BY ActsPlain
<1>3. Prologue = <<i, j>>
  BY DEF Prologue
<1> HIDE DEF i, j
<1>4. Runs(<<i>>, 0, 0) /\ Runs(<<j>>, 0, 0)
  BY <1>2, RunsOne
<1>5. <<i>> \in Seq(Instructions) /\ <<j>> \in Seq(Instructions)
  BY <1>1
<1>6. Runs(<<i>> \o <<j>>, 0, 0)
  BY <1>4, <1>5, RunsJoined
<1>7. <<i>> \o <<j>> = <<i, j>>
  <2> DEFINE s == <<i>> \o <<j>>
  <2>1. s \in Seq(Instructions) /\ Len(s) = 2 /\ s[1] = i /\ s[2] = j
    BY <1>5
  <2> HIDE DEF s
  <2>2. s = <<i, j>>
    BY <2>1
  <2> QED BY <2>2 DEF s
<1>8. <<i, j>> \in Seq(Instructions)
  BY <1>1
<1> QED BY <1>3, <1>6, <1>7, <1>8

\* A procedure begins where nothing is left (Assembler.cpp:30).
LEMMA ProcedureHeaderCounts ==
  ASSUME IInv, OperandInv, ProcedureHeader
  PROVE  OperandInv'
<1>1. OnTrack(items) /\ StacksTyped /\ Reading /\ Complete /\ r = "PROCH"
  BY DEF IInv, ProcedureHeader, Reducing, Reading
<1>2. nullptr \in ValuesOf(lhs(r)) /\ Return(nullptr)
  <2>1. r \in DOMAIN Rules /\ r \notin DOMAIN oprOf
    BY <1>1, ValuesComplete DEF oprOf
  <2> QED BY <2>1, NothingReturned DEF ProcedureHeader
<1>3. code' = code \o Prologue /\ resolved' = resolved /\ code \in Seq(Instructions)
  BY <1>1 DEF ProcedureHeader, StacksTyped
<1>4. Prologue \in Seq(Instructions) /\ Runs(Prologue, 0, 0)
  BY PrologueRuns
<1>5. Alike(code \o Prologue, code')
  <2>1. code \o Prologue \in Seq(Instructions)
    BY <1>3, <1>4
  <2> QED BY <1>3, <2>1, AlikeItself
<1>6. Balanced(Prologue, nullptr)
  <2>1. Held(Whole) = 0 /\ r \notin ExpressionRules
    BY <1>1, HeldByOthers DEF ExpressionRules, Expressions, Operators, Containing
  <2> QED BY <1>1, <1>4, <2>1, OthersBalanced
<1> QED BY <1>1, <1>2, <1>3, <1>4, <1>5, <1>6, ReductionCounts

\* A block's operands are filled in behind its return.
LEMMA BlockFilled ==
  ASSUME code \in Seq(Instructions), NEW b, NEW x \in Int, NEW d, NEW y \in Int,
         b \in Fillable(code \o insert_opr(OPR_RET)), d \in Fillable(code \o insert_opr(OPR_RET))
  PROVE  /\ insert_opr(OPR_RET) \in Seq(Instructions)
         /\ Alike(code \o insert_opr(OPR_RET),
                  Backfill(Backfill(code \o insert_opr(OPR_RET), b, x), d, y))
<1> DEFINE longer == code \o insert_opr(OPR_RET)
           mid == Backfill(longer, b, x)
           c == Backfill(mid, d, y)
<1>1. insert_opr(OPR_RET) \in Seq(Instructions)
  BY Operations DEF Solid, OPR_RET
<1>2. longer \in Seq(Instructions) /\ b \in Fillable(longer) /\ d \in Fillable(longer)
  BY <1>1
<1> HIDE DEF longer
<1>3. Alike(longer, mid)
  BY <1>2, AlikeFilled
<1>4. mid \in Seq(Instructions) /\ Alike(mid, mid)
  <2>1. mid \in Seq(Instructions)
    BY <1>3 DEF Alike
  <2> HIDE DEF mid
  <2> QED BY <2>1, AlikeItself
<1> HIDE DEF mid
<1>5. d \in Fillable(mid)
  BY <1>2, <1>3, <1>4, AlikeJoined
<1>6. Alike(mid, c)
  BY <1>4, <1>5, AlikeFilled
<1> HIDE DEF c
<1>7. Alike(longer, c)
  BY <1>3, <1>6, AlikeJoined
<1> QED BY <1>1, <1>7 DEF longer, mid, c

\* A procedure returns where nothing is left (Assembler.cpp:44).
LEMMA ProcedureEndCounts ==
  ASSUME IInv, OperandInv, ProcedureEnd
  PROVE  OperandInv'
<1>1. /\ OnTrack(items) /\ StacksTyped /\ StacksDeep /\ Table!IInv /\ Reading /\ Complete /\ r = "PROC"
      /\ status = "parsing"
  BY DEF IInv, ProcedureEnd, Reducing, Reading
<1>2. nullptr \in ValuesOf(lhs(r)) /\ Return(nullptr)
  <2>1. r \in DOMAIN Rules /\ r \notin DOMAIN oprOf
    BY <1>1, ValuesComplete DEF oprOf
  <2> QED BY <2>1, NothingReturned DEF ProcedureEnd
<1>3. /\ code' = Backfill(Backfill(code \o insert_opr(OPR_RET), Last(proc_int_backfill), FrameSize),
                          Last(proc_body_backfill).jmp_inst, Last(proc_body_backfill).proc_body)
      /\ resolved' = resolved
  BY DEF ProcedureEnd, errorFree
<1>4. /\ code \in Seq(Instructions) /\ proc_body_backfill \in Seq(BodyEntries)
      /\ insert_opr(OPR_RET) \in Seq(Instructions)
  BY <1>1, Operations DEF StacksTyped, Solid, OPR_RET
<1>5. proc_int_backfill # <<>> /\ proc_body_backfill # <<>>
  <2>1. Depth(items, "PROC") > 0 /\ Depth(items, "PROC") \in Nat
    BY <1>1, DepthsAreNatural DEF HasDepth
  <2> QED BY <1>1, <2>1 DEF StacksDeep
<1>6. FrameSize \in Int /\ Last(proc_body_backfill).proc_body \in Int
  <2>1. Last(proc_body_backfill) \in BodyEntries
    BY <1>4, <1>5, Popped
  <2> QED BY <1>1, <2>1, FrameSizes DEF BodyEntries
<1>7. Alike(code \o insert_opr(OPR_RET), code')
  <2>1. /\ Last(proc_int_backfill) \in Fillable(code \o insert_opr(OPR_RET))
        /\ Last(proc_body_backfill).jmp_inst \in Fillable(code \o insert_opr(OPR_RET))
    BY <1>1, <1>4, <1>5, QueuedAreFillable
  <2> QED BY <1>3, <1>4, <1>6, <2>1, BlockFilled
<1>8. Balanced(insert_opr(OPR_RET), nullptr)
  <2>1. Held(Whole) = 0 /\ r \notin ExpressionRules
    BY <1>1, HeldByOthers DEF ExpressionRules, Expressions, Operators, Containing
  <2>2. Runs(insert_opr(OPR_RET), 0, 0)
    BY OperationsRun
  <2> QED BY <1>1, <2>1, <2>2, OthersBalanced
<1> QED BY <1>1, <1>2, <1>3, <1>4, <1>7, <1>8, ReductionCounts

\* The program ends where nothing is left (plc.cpp:45).
LEMMA SucceedCounts ==
  ASSUME IInv, OperandInv, Succeed
  PROVE  OperandInv'
<1> SUFFICES ASSUME resolved', lexErrors' = 0
             PROVE  /\ code' \in Seq(Instructions) /\ {0, 1} \subseteq Fillable(code')
                    /\ \E y : Runs(code', 0, y)
                    /\ status' # "parsing"
  BY DEF OperandInv
<1>1. /\ status = "parsing" /\ r = "PL0" /\ Complete /\ status' = "succeeded"
      /\ resolved /\ lexErrors = 0
      /\ code' = Backfill(Backfill(code \o insert_opr(OPR_RET), 0, Symbol!countLayerSize),
                          1, Last(proc_body_backfill).proc_body)
  BY DEF Succeed, Reading, errorFree
<1>2. /\ OnTrack(items) /\ StacksTyped /\ StacksDeep /\ Table!IInv /\ code \in Seq(Instructions)
      /\ Tallied(items, code) /\ {0, 1} \subseteq Fillable(code)
      /\ insert_opr(OPR_RET) \in Seq(Instructions)
  BY <1>1, Operations DEF IInv, OperandInv, Solid, OPR_RET
<1>3. PICK h : Stacked(items, h) /\ Clear(items, h) /\ Runs(code, 0, h[Len(items)])
  BY <1>2 DEF Tallied
<1>4. h[Len(items)] = 0
  <2>1. Held(Whole) = 0 /\ r \notin ExpressionRules
    BY <1>1, <1>2, HeldByOthers DEF ExpressionRules, Expressions, Operators, Containing
  <2>2. Len(items) > 0 /\ items \in Seq(Items)
    BY <1>2 DEF OnTrack
  <2>3. h[Len(items)] = h[Len(items) - 1] + Held(items[Len(items)]) /\ Len(items) \in Nat
    BY <1>3, <2>2, HeightsAreNatural
  <2>4. Len(items) \in 1..Len(items) /\ items[Len(items)].rule = r
    BY <1>2, <2>2, <2>3, Innermost
  <2>5. h[Len(items) - 1] = 0
    BY <1>3, <2>1, <2>4 DEF Clear
  <2> QED BY <2>1, <2>3, <2>5 DEF Whole
<1>5. Runs(code \o insert_opr(OPR_RET), 0, 0)
  <2>1. Runs(code, 0, 0) /\ Runs(insert_opr(OPR_RET), 0, 0)
    BY <1>3, <1>4, OperationsRun
  <2> QED BY <1>2, <2>1, RunsJoined
<1>6. Symbol!countLayerSize \in Int /\ Last(proc_body_backfill).proc_body \in Int
  <2>1. proc_body_backfill # <<>> /\ proc_body_backfill \in Seq(BodyEntries)
    <3>1. Depth(items, "PROC") \in Nat
      BY <1>2, DepthsAreNatural DEF HasDepth
    <3> QED BY <1>2, <3>1 DEF StacksDeep, StacksTyped
  <2>2. Last(proc_body_backfill) \in BodyEntries
    BY <2>1, Popped
  <2> QED BY <1>2, <2>2, FrameSizes DEF BodyEntries
<1> DEFINE longer == code \o insert_opr(OPR_RET)
<1>7. ASSUME NEW a \in {0, 1} PROVE a \in Fillable(longer)
  <2>1. /\ Len(code) \in Nat /\ Len(longer) \in Nat /\ Len(longer) >= Len(code)
        /\ \A k \in 1..Len(code) : longer[k] = code[k]
    BY <1>2
  <2> HIDE DEF longer
  <2>2. a \in 0..(Len(code) - 1) /\ code[a + 1].type \in {"INT", "JMP", "JPC"}
    BY <1>2 DEF Fillable
  <2>3. a \in 0..(Len(longer) - 1) /\ a + 1 \in 1..Len(code)
    BY <2>1, <2>2
  <2> QED BY <2>1, <2>2, <2>3 DEF Fillable
<1>8. Alike(longer, code')
  BY <1>1, <1>2, <1>6, <1>7, BlockFilled
<1>9. Alike(code', code') /\ code' \in Seq(Instructions)
  <2>1. code' \in Seq(Instructions)
    BY <1>8 DEF Alike
  <2> QED BY <2>1, AlikeItself
<1>10. Runs(code', 0, 0) /\ {0, 1} \subseteq Fillable(code')
  <2>1. Runs(longer, 0, 0)
    BY <1>5
  <2> HIDE DEF longer
  <2>2. Fillable(longer) = Fillable(code')
    BY <1>8, <1>9, AlikeJoined
  <2> QED BY <1>7, <1>8, <2>1, <2>2 DEF Alike
<1> QED BY <1>1, <1>9, <1>10

\* Before the source is read.
LEMMA NothingCountedYet == Init => OperandInv
<1> SUFFICES ASSUME Init PROVE OperandInv
  OBVIOUS
<1>1. /\ items = <<Item("PL0", <<>>)>> /\ code = Prologue
      /\ code \in Seq(Instructions) /\ Runs(code, 0, 0)
  BY PrologueRuns DEF Init
<1>2. {0, 1} \subseteq Fillable(code)
  <2>1. Len(code) = 2 /\ code[1].type = "INT" /\ code[2].type = "JMP" /\ 0..(2 - 1) = {0, 1}
    BY <1>1 DEF Prologue, inst_t
  <2> QED BY <2>1 DEF Fillable
<1> DEFINE it == Item("PL0", <<>>)
           h == [k \in 0..1 |-> 0]
<1>3. Held(it) = 0
  BY HeldFirst
<1>4. Len(items) = 1 /\ items[1] = it
  BY <1>1
<1> HIDE DEF it
<1>5. h \in [0..1 -> Nat] /\ h[0] = 0 /\ h[1] = 0 /\ \A k \in 1..1 : k = 1 /\ k - 1 = 0
  OBVIOUS
<1> HIDE DEF h
<1>6. Stacked(items, h) /\ Clear(items, h) /\ Runs(code, 0, h[Len(items)])
  BY <1>1, <1>3, <1>4, <1>5 DEF Stacked, Clear
<1>7. Tallied(items, code)
  BY <1>6 DEF Tallied
<1> QED BY <1>1, <1>2, <1>7 DEF OperandInv

\* What the code leaves is what the rules that are underway hold.
THEOREM OperandInvariance == Spec => []OperandInv
<1>1. IInv /\ OperandInv /\ [Next]_vars => OperandInv'
  <2> SUFFICES ASSUME IInv, OperandInv, [Next]_vars PROVE OperandInv'
    OBVIOUS
  <2>1. ASSUME NEW p \in Productions, Expand(p) PROVE OperandInv'
    BY <2>1, ExpandCounts
  <2>2. CASE Shift
    BY <2>2, ShiftCounts
  <2>3. CASE Default
    BY <2>3, DefaultCounts
  <2>4. CASE Declare
    BY <2>4, DeclareCounts
  <2>5. CASE ProcedureHeader
    BY <2>5, ProcedureHeaderCounts
  <2>6. CASE ProcedureEnd
    BY <2>6, ProcedureEndCounts
  <2>7. CASE EmitSimple
    BY <2>7, EmitSimpleCounts
  <2>8. CASE ReadOperator
    BY <2>8, ReadOperatorCounts
  <2>9. CASE ApplyOperator
    BY <2>9, ApplyOperatorCounts
  <2>10. CASE Assertion
    BY <2>10, AssertionCounts
  <2>11. CASE Assign
    BY <2>11, AssignCounts
  <2>12. CASE IfHeader \/ WhileHeader
    BY <2>12, HeadersCount
  <2>13. CASE IfEnd
    BY <2>13, IfEndCounts
  <2>14. CASE WhileEntry
    BY <2>14, WhileEntryCounts
  <2>15. CASE WhileEnd
    BY <2>15, WhileEndCounts
  <2>16. CASE Succeed
    BY <2>16, SucceedCounts
  <2>17. CASE SyntaxErrorFound
    BY <2>17 DEF SyntaxErrorFound, OperandInv, errorFree
  <2>18. CASE LexicalError
    <3>1. status = "parsing" /\ lexErrors' = lexErrors + 1 /\ resolved' = resolved
      BY <2>18 DEF LexicalError, Reading, errorFree
    <3>2. lexErrors \in Nat
      BY <3>1 DEF IInv, StacksDeep
    <3>3. lexErrors' # 0
      BY <3>1, <3>2
    <3> QED BY <3>3 DEF OperandInv
  <2>19. CASE Done \/ UNCHANGED vars
    BY <2>19 DEF Done, OperandInv, vars, automaton, errorFree
  <2> QED BY <2>1, <2>2, <2>3, <2>4, <2>5, <2>6, <2>7, <2>8, <2>9, <2>10, <2>11, <2>12,
             <2>13, <2>14, <2>15, <2>16, <2>17, <2>18, <2>19 DEF Next
<1> QED BY NothingCountedYet, Invariance, <1>1, PTL DEF Spec

\* Every instruction finds the operands it takes, and where a jump, a call, a
\* procedure or the end of one stands none is left over, however expressions
\* nest and operators wait for their second operand (Assembler.cpp:135).
THEOREM OperandsReadyHolds == Spec => []OperandsReady
<1>1. OperandInv => OperandsReady
  <2> SUFFICES ASSUME OperandInv, resolved /\ lexErrors = 0, NEW a \in Addresses
               PROVE  /\ Takes(At(a)) <= Pile[a]
                      /\ At(a).type \in {"INT", "CAL", "JMP", "JPC", "STO"}
                           \/ At(a) = inst_t("OPR", 0, OPR_RET) => Takes(At(a)) = Pile[a]
    BY DEF OperandsReady
  <2>1. PICK y : code \in Seq(Instructions) /\ Runs(code, 0, y)
    BY DEF OperandInv
  <2>2. /\ Takes(At(a)) <= Pile[a]
        /\ Finishing(At(a)) => Takes(At(a)) = Pile[a]
    BY <2>1, RunsReady
  <2> QED BY <2>2 DEF Finishing
<1> QED BY OperandInvariance, <1>1, PTL
=============================================================================
