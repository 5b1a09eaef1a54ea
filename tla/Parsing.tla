------------------------------ MODULE Parsing ------------------------------
(***************************************************************************)
(* The generator and the automaton together: tables are generated for a    *)
(* grammar, and then symbols are fed.  What is fed is derived from the     *)
(* grammar from left to right: path holds the items of the rules that have *)
(* been begun, the innermost one last.  At any point another symbol may    *)
(* come instead, as when the lexer dropped one after an error.             *)
(***************************************************************************)
EXTENDS TableGenerator, Automaton

CONSTANTS
  Sources(_),  \* for a grammar: the sources looked at
  Strays       \* symbols that come out of turn

VARIABLES
  source,   \* symbols: which ones may come first, second, ...; depth: a bound on path
  count,    \* how many symbols have been fed
  path,     \* the rules begun; empty behind the end of the source
  owed,     \* the rules recognized since the last symbol: the reductions to come
  derived   \* nothing has come out of turn yet

sourceVars == <<source, count, path, owed, derived>>
parsingVars == <<generatorVars, automatonVars, sourceVars>>

ParsingInit ==
  /\ GeneratorInit
  /\ AutomatonInit
  /\ source \in Sources(rules)
  /\ count = 0
  /\ path = <<StartItem>>
  /\ owed = <<>>
  /\ derived = TRUE

Generate == GeneratorNext /\ UNCHANGED <<states, error_flag, succeed_flag, fed, result, sourceVars>>

Ready == stage = "written" /\ Idle /\ count < Len(source.symbols)
Deriving == Ready /\ path # <<>>
Innermost == Last(path)
Proceeded(p) == [p EXCEPT ![Len(p)] = Advanced(@)]

\* A rule for the next symbol is begun.
Begin ==
  /\ Deriving /\ Len(path) < source.depth
  /\ \E r \in ToSet(Expansions(Innermost)) : path' = Append(path, <<r, 0>>)
  /\ UNCHANGED <<generatorVars, automatonVars, source, count, owed, derived>>

\* A rule is complete: its reduction must come before the next symbol is shifted.
Recognize ==
  /\ Deriving /\ Len(path) > 1 /\ Complete(Innermost)
  /\ path' = Proceeded(Front(path))
  /\ owed' = Append(owed, Innermost[1])
  /\ UNCHANGED <<generatorVars, automatonVars, source, count, derived>>

FeedNext(symbol) ==
  /\ symbol \in source.symbols[count + 1]
  /\ Feed(symbol, <<count + 1>>)
  /\ count' = count + 1

FeedTerminal ==
  /\ Deriving /\ ~Complete(Innermost) /\ Expansions(Innermost) = <<>>
  /\ FeedNext(Marked(Innermost))
  /\ path' = Proceeded(path)
  /\ UNCHANGED <<propagations, stage, next, done, source, owed, derived>>

FeedEnd ==
  /\ Deriving /\ Len(path) = 1 /\ Complete(Innermost)
  /\ FeedNext("$")
  /\ path' = <<>>
  /\ UNCHANGED <<propagations, stage, next, done, source, owed, derived>>

FeedStray ==
  /\ Ready
  /\ \E s \in Strays : Feed(s, <<count + 1>>)
  /\ count' = count + 1
  /\ path' = <<>> /\ owed' = <<>> /\ derived' = FALSE
  /\ UNCHANGED <<propagations, stage, next, done, source>>

Run ==
  /\ Loop
  /\ owed' = IF act.action = "reduce" /\ owed # <<>> THEN Tail(owed) ELSE owed
  /\ UNCHANGED <<propagations, stage, next, done, source, count, path, derived>>

\* There are no tables, or the source ends.
Finished ==
  /\ stage = "conflict" \/ (stage = "written" /\ Idle /\ count = Len(source.symbols))
  /\ UNCHANGED parsingVars

ParsingNext ==
  \/ Generate
  \/ Begin \/ Recognize \/ FeedTerminal \/ FeedEnd \/ FeedStray
  \/ Run
  \/ Finished

\* Whoever calls feed waits for it to return.
ParsingSpec == ParsingInit /\ [][ParsingNext]_parsingVars /\ WF_parsingVars(Run)
----------------------------------------------------------------------------
(***************************************************************************)
(* Properties of the tables, looked at when all closures are complete.     *)
(***************************************************************************)
ClosuresReady == stage = "generate_goto_table" /\ next = 1

\* The closures are the LR(0) collection: each is closed under the rules of
\* the symbols that may come next, its successors hold the items advanced
\* over one symbol and nothing else, and no closure is there twice.
CollectionComplete ==
  ClosuresReady => \A q \in DOMAIN kernel :
    /\ \A x \in {x \in Items(q) : ~Complete(x)} :
         /\ \A r \in ToSet(Expansions(x)) : <<r, 0>> \in Items(q)
         /\ {y \in Items(kernel[q].transit[Marked(x)]) : y[2] > 0} =
              {Advanced(z) : z \in {z \in Items(q) : ~Complete(z) /\ Marked(z) = Marked(x)}}
    /\ \A d \in DOMAIN kernel \ {q} : Items(d) # Items(q)

\* The terminals each symbol can begin with, by definition.
First ==
  LET empty == Vanishing(rules, {})
      RECURSIVE Grown(_)
      Grown(f) ==
        LET g == [s \in sym_table |-> f[s] \cup UNION
                    {UNION {f[rules[r].rhs[k]] : k \in Leading(rules[r].rhs, empty)} :
                     r \in ToSet(RulesOf(rules, s))}]
        IN  IF g = f THEN f ELSE Grown(g)
  IN  Grown([s \in sym_table |-> IF RulesOf(rules, s) = <<>> THEN {s} ELSE {}])

\* What may follow the symbol behind the dot of an item with these lookaheads.
Following(first, x, lookaheads) ==
  LET empty  == Vanishing(rules, {})
      behind == SubSeq(Rhs(x), x[2] + 2, Len(Rhs(x)))
  IN  UNION {first[behind[k]] : k \in Leading(behind, empty)}
        \cup (IF ToSet(behind) \subseteq empty THEN lookaheads ELSE {})

\* The lookaheads solve the equations of LALR(1): an item takes them along
\* into the next closure, and the items derived from it get all that may
\* follow.  So they include the least solution, however few passes
\* propagate_lookaheads and expand_all_by_LR1 make.
LookaheadsClosed ==
  ClosuresReady =>
    LET first == First IN
    /\ "$" \in kernel[1].elem[StartItem]
    /\ \A q \in DOMAIN kernel : \A x \in {x \in Items(q) : ~Complete(x)} :
         LET lookaheads == kernel[q].elem[x] IN
         /\ lookaheads \subseteq kernel[kernel[q].transit[Marked(x)]].elem[Advanced(x)]
         /\ \A r \in ToSet(Expansions(x)) :
              Following(first, x, lookaheads) \subseteq kernel[q].elem[<<r, 0>>]

\* The table that is written suits the automaton.
TablesSuit == stage = "written" /\ count = 0 /\ path = <<StartItem>> => TablesFit
----------------------------------------------------------------------------
(***************************************************************************)
(* Properties of the automaton with these tables.                          *)
(***************************************************************************)

\* For a source of the grammar the automaton makes the reductions of its
\* derivation, in that order and before the next symbol is shifted.
\* Assembler relies on it.
ActionsInOrder ==
  derived /\ ~Idle =>
    /\ act.action = "reduce" => owed # <<>> /\ Head(owed) = act.ptr
    /\ act.action \in {"shift", "succeed"} => owed = <<>>

\* No source of the grammar is refused.
SentencesAccepted ==
  derived => ~error_flag /\ (path = <<>> /\ Idle => succeed_flag)

\* The values on the stack, put together, are those of the symbols fed so far,
\* in order: a reduction hands the function the values of its symbols as they
\* stand in the rule, and none is lost or taken twice.
ValuesInOrder ==
  ~error_flag /\ ~succeed_flag =>
    FlattenSeq([k \in DOMAIN states |-> states[k].symbol]) =
      [n \in 1..(IF Idle THEN count ELSE count - 1) |-> n]

\* Every call of feed returns.
FeedReturns == ~Idle ~> Idle
============================================================================
