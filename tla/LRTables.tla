----------------------------- MODULE LRTables -----------------------------
(***************************************************************************)
(* What the table generator (parser/lalrparser.cpp) hands over to the      *)
(* automaton (Automaton.cpp): the grammar, the closures and the table of   *)
(* actions.  Rules and closures count from 1 here and from 0 in the code.  *)
(***************************************************************************)
EXTENDS Integers, Sequences

VARIABLES
  rules,      \* the grammar: a sequence of records [lhs, rhs], the first one is the start
  kernel,     \* the closures: elem maps items to lookaheads, transit symbols to closures
  goto_table  \* for every closure its actions; where nothing stands the action is error

tables == <<rules, kernel, goto_table>>

sym_table == {rules[r].lhs : r \in DOMAIN rules} \cup {"i", "n", "$"} \cup
  UNION {{rules[r].rhs[k] : k \in DOMAIN rules[r].rhs} : r \in DOMAIN rules}

\* An item <<r, p>> is rule r with p symbols of its right-hand side recognized.
Rhs(x) == rules[x[1]].rhs
Lhs(x) == rules[x[1]].lhs
Complete(x) == x[2] = Len(Rhs(x))
Marked(x) == Rhs(x)[x[2] + 1]
Advanced(x) == <<x[1], x[2] + 1>>

StartItem == <<1, 0>>

Items(q) == DOMAIN kernel[q].elem

action_t(action, ptr) == [action |-> action, ptr |-> ptr]

Action(q, symbol) ==
  IF symbol \in DOMAIN goto_table[q] THEN goto_table[q][symbol] ELSE action_t("error", 0)
============================================================================
