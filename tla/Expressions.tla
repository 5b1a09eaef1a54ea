---------------------------- MODULE Expressions ----------------------------
(***************************************************************************)
(* What the compiler makes of an expression: the code must compute the     *)
(* value the expression has by the usual rules, that * and / bind tighter  *)
(* than + and -, that operators of one rank are applied from left to right *)
(* and that a sign in front applies to the first term.                     *)
(*                                                                         *)
(* The compiler has no tree of the source.  It emits an operator one       *)
(* operand late, and until then the operator is a value on the automaton's *)
(* stack.  This module reads along with the compiler and compares.         *)
(***************************************************************************)
EXTENDS Assembler

VARIABLES
  tokens,  \* history: the tokens so far of the expression that is read
  start    \* history: the length of the code when the expression began

expressionVars == <<vars, tokens, start>>

\* The source is in an expression.
Inside == \E k \in DOMAIN items : items[k].rule = "EXPR"

EInit == Init /\ tokens = <<>> /\ start = length

\* Collect the tokens of the outermost expression the source is in.
ReadAlong ==
  /\ start' = IF Inside' THEN start ELSE length'
  /\ tokens' = IF ~Inside' THEN <<>>
               ELSE IF Shift THEN Append(tokens, Last(v')) ELSE tokens

ENext == Next /\ ReadAlong

ESpec == EInit /\ [][ENext]_expressionVars
----------------------------------------------------------------------------
(***************************************************************************)
(* The value of an expression is a term: an instruction that loads, or an  *)
(* operator with two terms.                                                *)
(***************************************************************************)

Term(opr, x, y) == [opr |-> opr, x |-> x, y |-> y]

\* The operators of a rank, by their token.
Additive == [s \in {"T+", "T-"} |-> IF s = "T+" THEN OPR_ADD ELSE OPR_SUB]
Multiplicative == [s \in {"T*", "T/"} |-> IF s = "T*" THEN OPR_MUL ELSE OPR_DIV]

\* How many parentheses are open behind the first k tokens.
Nesting(s, k) ==
  LET count(name) == Cardinality({i \in 1..k : s[i].name = name})
  IN  count("T(") - count("T)")

\* Where an operator of the rank stands between two operands, outside of
\* parentheses.
Splits(s, rank) ==
  {k \in 2..(Len(s) - 1) : s[k].name \in DOMAIN rank /\ Nesting(s, k) = 0}

\* What the source says: split at the last operator of the lowest rank.
RECURSIVE Meaning(_)
Meaning(s) ==
  LET split(rank) ==
        LET k == CHOOSE k \in Splits(s, rank) : \A j \in Splits(s, rank) : j <= k
        IN  Term(rank[s[k].name], Meaning(SubSeq(s, 1, k - 1)),
                 Meaning(SubSeq(s, k + 1, Len(s))))
  IN  CASE Splits(s, Additive) # {} -> split(Additive)
        [] Splits(s, Additive) = {} /\ s[1].name = "T-" ->
             Term(OPR_SUB, load_number(0)[1], Meaning(Tail(s)))
        [] Splits(s, Additive) = {} /\ s[1].name = "T+" -> Meaning(Tail(s))
        [] Splits(s, Additive) = {} /\ s[1].name \notin DOMAIN Additive ->
             CASE Splits(s, Multiplicative) # {} -> split(Multiplicative)
               [] Splits(s, Multiplicative) = {} /\ s[1].name = "T(" ->
                    Meaning(SubSeq(s, 2, Len(s) - 1))
               [] Splits(s, Multiplicative) = {} /\ s[1].name = NUM ->
                    load_number(s[1].desc)[1]
               [] Splits(s, Multiplicative) = {} /\ s[1].name \in Names ->
                    load_id(s[1].name)[1]

\* What the code says: the terms on the machine's stack when the instructions
\* have run, the top last.
Stacked(terms, i) ==
  IF i.type = "OPR"
  THEN Append(SubSeq(terms, 1, Len(terms) - 2),
              Term(i.a, terms[Len(terms) - 1], terms[Len(terms)]))
  ELSE Append(terms, i)
Executed(insts) == FoldLeft(Stacked, <<>>, insts)
----------------------------------------------------------------------------
(***************************************************************************)
(* Properties.                                                             *)
(***************************************************************************)

\* When an expression is complete, the instructions emitted since it began
\* leave exactly one value, the one the source means: no operator is lost,
\* applied twice, too late, or to the wrong operands, however signs, ranks and
\* parentheses nest.
ExpressionsMean ==
  [][Inside /\ ~Inside' /\ resolved =>
       Executed(SubSeq(code', start + 1, length')) = <<Meaning(tokens)>>]_expressionVars
============================================================================
