----------------------------- MODULE MCParsing -----------------------------
(***************************************************************************)
(* Parsing for the PL/0 grammar, for the grammar in the comment before it  *)
(* in lalrparser.h, for a chain of rules, and for small grammars of all     *)
(* shapes.                                                                 *)
(***************************************************************************)
EXTENDS Parsing, Grammar, FiniteSetsExt

CONSTANTS MaxTokens, MaxPL0Tokens

PL0 == <<Rules["PL0"]>> \o
       FoldSet(LAMBDA r, s : Append(s, Rules[r]), <<>>, DOMAIN Rules \ {"PL0"})

Dragon == <<Rule("SS'", <<"SS">>), Rule("SS", <<"SL", "T=", "SR">>), Rule("SS", <<"SR">>),
            Rule("SL", <<"T*", "SR">>), Rule("SL", <<ID>>), Rule("SR", <<"SL">>)>>

\* Two items that hand different lookaheads to a chain of rules, which the
\* loops of the generator meet in the wrong order.
Chain == <<Rule("SZ", <<"SE">>), Rule("SC", <<ID>>), Rule("SB", <<"SC">>), Rule("SA", <<"SB">>),
           Rule("SE", <<"Ta", "SA", "Tb">>), Rule("SE", <<"Ta", "SA", "Tc">>)>>

\* One or two right-hand sides of up to two symbols for SE, and for SF.
Symbol == {"SE", "SF", "Ta", "Tb"}
RhssE == {<<>>} \cup {<<a>> : a \in Symbol} \cup (Symbol \X Symbol)
RhssF == {<<>>, <<"Ta">>, <<"Tb">>, <<"Ta", "SF">>, <<"Ta", "SE">>, <<"Ta", "SF", "Tb">>}
Alternatives(lhs, rhss) == SetToSeq({Rule(lhs, rhs) : rhs \in rhss})

LeftRecursive(g) == \E b \in Beginnings(g) : b[1] = b[3]

Small == {g \in {<<Rule("SZ", <<"SE">>)>> \o Alternatives("SE", e) \o Alternatives("SF", f) :
                 e \in {{v, w} : v, w \in RhssE}, f \in {{v, w} : v, w \in RhssF}} :
          Expandable(g) /\ ~LeftRecursive(g)}

MCGrammars == {PL0, Dragon, Chain} \cup Small

Terminal(g) == {"$"} \cup UNION {{s \in ToSet(g[r].rhs) : RulesOf(g, s) = <<>>} : r \in DOMAIN g}

\* The source that test.cpp feeds.
Sample ==
  <<"Tconst", ID, "T=", NUM, "T;", "Tprocedure", ID, "T;", "Tvar", ID, "T;",
    "Tbegin", ID, "T:=", ID, "T+", ID, "T*", NUM, "Tend", "T;",
    "Tbegin", "Tcall", ID, "T;", "Twrite", "T(", ID, "T,", ID, "T)", "Tend", "T.", "$">>

Derived(g, tokens, depth) == [symbols |-> [k \in 1..tokens |-> Terminal(g)], depth |-> depth]
Given(tokens, depth) == [symbols |-> [k \in DOMAIN tokens |-> {tokens[k]}], depth |-> depth]

MCSources(g) == IF g[1].lhs = "Spl0" THEN {Derived(g, MaxPL0Tokens, 12), Given(Sample, 24)}
                ELSE {Derived(g, MaxTokens, 6)}

MCCallback(rule, values) == FlattenSeq(values)

\* Lookaheads go to every item of a closure, more than LALR(1) has them, and
\* may lead to conflicts that are none.  For the language the compiler is
\* made for they do not: PL/0 gets its tables, and so does the example.
OwnGrammarsFit == stage = "conflict" => rules \notin {PL0, Dragon}
============================================================================
