-------------------------- MODULE TableGenerator --------------------------
(***************************************************************************)
(* The table generator, parser/lalrparser.cpp: the closures of the         *)
(* grammar, lookaheads that arise in a closure, lookaheads that go from    *)
(* closure to closure, the lookaheads of the items that are not in a       *)
(* kernel, and the table.  A step is one round of the loop over the        *)
(* closures that each of these five stages consists of.                    *)
(***************************************************************************)
EXTENDS LRTables, SequencesExt

CONSTANT Grammars  \* the grammars that the generator may be compiled with

VARIABLES
  propagations,  \* for every closure the pairs <<e, d>>: lookaheads of its item e go to closure d
  stage,         \* the function main has called
  next,          \* the closure whose turn it is in the loop
  done           \* the flag of the loop around it

generatorVars == <<tables, propagations, stage, next, done>>

----------------------------------------------------------------------------
(***************************************************************************)
(* Closures.                                                               *)
(***************************************************************************)
\* The numbers of the rules for a symbol, in order; none for a terminal.
RulesOf(g, symbol) == SelectSeq([r \in DOMAIN g |-> r], LAMBDA r : g[r].lhs = symbol)
Expansions(x) == IF Complete(x) THEN <<>> ELSE RulesOf(rules, Marked(x))

\* Insert an item, or more lookaheads for it.
Include(elem, x, lookaheads) ==
  (x :> (lookaheads \cup (IF x \in DOMAIN elem THEN elem[x] ELSE {}))) @@ elem

\* The terminals that the rest of an item can begin with, and whether the
\* code came to the end of the rule while it collected them.  A rule that
\* begins with its own left-hand side is not followed.
RECURSIVE find_first(_)
find_first(x) ==
  IF Complete(x) THEN [sym |-> {}, end |-> TRUE]
  ELSE LET found == {find_first(<<r, 0>>) : r \in ToSet(Expansions(x)) \ (IF x[2] = 0 THEN {x[1]} ELSE {})}
           first == UNION {f.sym : f \in found}
           rest  == find_first(Advanced(x))
       IN  CASE Expansions(x) = <<>> -> [sym |-> {Marked(x)}, end |-> FALSE]
             [] \E f \in found : f.end -> [sym |-> first \cup rest.sym, end |-> rest.end]
             [] OTHER -> [sym |-> first, end |-> FALSE]

\* Slip: nothing is handed on behind the end of the rule.
SlipInherited(elem, prev) ==
  IF prev \notin DOMAIN elem THEN {"@"} ELSE find_first(Advanced(prev)).sym

\* Slip: it is handed on whether or not the end of the rule was reached.
SlipInheritedAlways(elem, prev) ==
  IF prev \notin DOMAIN elem THEN {"@"} ELSE find_first(Advanced(prev)).sym \cup elem[prev]

\* The lookaheads an item gets from the item prev it is derived from.
Inherited(elem, prev) ==
  IF prev \notin DOMAIN elem THEN {"@"}
  ELSE LET first == find_first(Advanced(prev))
       IN  first.sym \cup (IF first.end THEN elem[prev] ELSE {})

\* No item is derived from it.
NoItem == <<0, 0>>

\* Slip: an item that is there is not expanded again.
RECURSIVE SlipInsertAndExpand(_, _, _, _)
SlipInsertAndExpand(elem, x, use_LR1, prev) ==
  LET included == Include(elem, x, IF use_LR1 THEN Inherited(elem, prev) ELSE {})
  IN  IF x \in DOMAIN elem THEN included
      ELSE FoldLeft(LAMBDA e, r : SlipInsertAndExpand(e, <<r, 0>>, use_LR1, x),
                    included, Expansions(x))

\* An item goes in, and all that is derived from it.  For LR(0) the sets of
\* lookaheads are empty.
RECURSIVE insert_and_expand(_, _, _, _)
insert_and_expand(elem, x, use_LR1, prev) ==
  IF x = prev THEN elem
  ELSE FoldLeft(LAMBDA e, r : insert_and_expand(e, <<r, 0>>, use_LR1, x),
                Include(elem, x, IF use_LR1 THEN Inherited(elem, prev) ELSE {}),
                Expansions(x))

NoElem == [x \in {} |-> {}]

\* The order of a set<closure_elem_t>.
Before(x, y) == x[1] < y[1] \/ (x[1] = y[1] /\ x[2] < y[2])
FirstOf(items) == CHOOSE x \in items : \A y \in items \ {x} : Before(x, y)
LastOf(items) == CHOOSE x \in items : \A y \in items \ {x} : Before(y, x)
InOrder(op(_, _), base, items) ==
  MapThenFoldSet(LAMBDA x, acc : op(acc, x), base, LAMBDA x : x, LastOf, items)

\* Visit the items behind x in order, also those inserted on the way.
RECURSIVE ExpandBehind(_, _)
ExpandBehind(elem, x) ==
  LET behind == {y \in DOMAIN elem : Before(x, y)}
      y == FirstOf(behind)
  IN  IF behind = {} THEN elem
      ELSE ExpandBehind(FoldLeft(LAMBDA e, r : insert_and_expand(e, <<r, 0>>, TRUE, y),
                                 elem, Expansions(y)), y)

RECURSIVE expand_all_by_LR1(_)
expand_all_by_LR1(elem) ==
  LET grown == ExpandBehind(elem, NoItem)
  IN  IF DOMAIN grown = DOMAIN elem THEN grown ELSE expand_all_by_LR1(grown)

find_goto_set(elem, symbol) ==
  InOrder(LAMBDA e, x : insert_and_expand(e, Advanced(x), FALSE, NoItem), NoElem,
          {x \in DOMAIN elem : ~Complete(x) /\ Marked(x) = symbol})

\* Slip: whether the other closure holds these items, and maybe more.
SlipIsClosureDuplicated(elem, other) == DOMAIN elem \subseteq DOMAIN other
\* Closures are the same when their items are, whatever the lookaheads.
is_closure_duplicated(elem, other) == DOMAIN elem = DOMAIN other

link_to(closures, q, d, symbol) ==
  [closures EXCEPT ![q].transit = (symbol :> d) @@ @]

----------------------------------------------------------------------------
(***************************************************************************)
(* The stages.                                                             *)
(***************************************************************************)
\* The nonterminals that may be empty.
RECURSIVE Vanishing(_, _)
Vanishing(g, found) ==
  LET more == {g[r].lhs : r \in {r \in DOMAIN g : ToSet(g[r].rhs) \subseteq found}}
  IN  IF more = found THEN found ELSE Vanishing(g, more)

\* The symbols of a string with nothing but empty ones before them.
Leading(symbols, empty) ==
  {k \in DOMAIN symbols : \A j \in 1..k - 1 : symbols[j] \in empty}

\* <<r, k, s>>: what rule r derives may begin with its k-th symbol, and so with rule s.
Beginnings(g) ==
  LET empty == Vanishing(g, {})
  IN  UNION {{<<r, k, s>> : k \in {k \in Leading(g[r].rhs, empty) : g[r].rhs[k] = g[s].lhs}} :
             r, s \in DOMAIN g}

\* What is left of a relation's pairs without those that lead to no circle.
RECURSIVE Circles(_)
Circles(pairs) ==
  LET rest == {p \in pairs : \E q \in pairs : q[1] = p[2]}
  IN  IF rest = pairs THEN pairs ELSE Circles(rest)

\* A rule may begin with itself, but not with one that begins with it, nor
\* with itself behind symbols that may be empty: the recursions of the
\* generator have no end then.  Such grammars are none of Grammars.
Expandable(g) ==
  Circles({<<b[1], b[3]>> : b \in {b \in Beginnings(g) : b[1] # b[3] \/ b[2] # 1}}) = {}

ASSUME GrammarsExpandable == \A g \in Grammars : Expandable(g)

Closure(elem) == [elem |-> elem, transit |-> [s \in {} |-> 0]]

GeneratorInit ==
  /\ rules \in Grammars
  /\ kernel = <<Closure(insert_and_expand(NoElem, StartItem, FALSE, NoItem))>>
  /\ propagations = <<>>
  /\ goto_table = <<>>
  /\ stage = "find_LR0_kernels"
  /\ next = 1
  /\ done = TRUE

\* The head of the loops: the next closure, or the next pass, or the stage after.
Turn(name) == stage = name /\ next <= Len(kernel)
Pass(name) == stage = name /\ next > Len(kernel)
GoOn == next' = next + 1 /\ UNCHANGED stage
Then(name) == stage' = name /\ next' = 1

\* The successor of a closure; a set that is there already is only linked.
Successor(symbol, closures) ==
  LET elem == find_goto_set(closures[next].elem, symbol)
      same == {d \in DOMAIN closures : is_closure_duplicated(elem, closures[d].elem)}
  IN  IF same # {} THEN link_to(closures, next, CHOOSE d \in same : TRUE, symbol)
      ELSE link_to(Append(closures, Closure(elem)), next, Len(closures) + 1, symbol)

\* For the symbols no item is waiting for there is no successor.
FindSuccessors ==
  /\ Turn("find_LR0_kernels")
  /\ kernel' = FoldSet(Successor, kernel,
                       {Marked(x) : x \in {x \in Items(next) : ~Complete(x)}})
  /\ done' = (done /\ Len(kernel') = Len(kernel))
  /\ GoOn
  /\ UNCHANGED <<rules, goto_table, propagations>>

Kernelified(elem) == [x \in {x \in DOMAIN elem : x[2] # 0 \/ x[1] = 1} |-> elem[x]]

kernelify ==
  /\ Pass("find_LR0_kernels")
  /\ kernel' = IF done THEN [q \in DOMAIN kernel |-> [kernel[q] EXCEPT !.elem = Kernelified(@)]]
               ELSE kernel
  /\ IF done THEN Then("assign_lookaheads") ELSE next' = 1 /\ UNCHANGED stage
  /\ done' = TRUE
  /\ UNCHANGED <<rules, goto_table, propagations>>

\* The items that get the lookaheads of an item that moves into a closure:
\* all of its kernel (and not only the item itself).
Receivers(d) == DOMAIN kernel[d].elem

\* What item e of the current closure sends on: triples <<e, d, s>> for the
\* lookaheads s of the items derived from it whose dot moves into closure d.
Arriving(e) ==
  LET derived == insert_and_expand(NoElem, e, TRUE, NoItem)
  IN  UNION {{<<e, kernel[next].transit[Marked(x)], s>> : s \in derived[x]} :
             x \in {x \in DOMAIN derived : ~Complete(x)}}

AssignLookaheads ==
  /\ Turn("assign_lookaheads")
  /\ LET arriving == UNION {Arriving(e) : e \in Items(next)}
         fixed(d) == {t[3] : t \in {t \in arriving : t[2] = d /\ t[3] # "@"}}
     IN  /\ kernel' = [d \in DOMAIN kernel |-> [kernel[d] EXCEPT !.elem =
                         [x \in DOMAIN @ |->
                            @[x] \cup (IF x \in Receivers(d) THEN fixed(d) ELSE {})
                                 \cup (IF d = next /\ x = StartItem THEN {"$"} ELSE {})]]]
         /\ propagations' = Append(propagations,
                              {<<t[1], t[2]>> : t \in {t \in arriving : t[3] = "@"}})
  /\ GoOn
  /\ UNCHANGED <<rules, goto_table, done>>

EndAssign ==
  /\ Pass("assign_lookaheads")
  /\ Then("propagate_lookaheads")
  /\ UNCHANGED <<tables, propagations, done>>

\* The items of the closure pass their lookaheads on, one after the other;
\* what an item of the same closure gets, it passes on in its turn.
Propagated(closures, e) ==
  [d \in DOMAIN closures |->
     IF <<e, d>> \in propagations[next]
     THEN [closures[d] EXCEPT !.elem =
             [x \in DOMAIN @ |-> @[x] \cup (IF x \in Receivers(d)
                                            THEN closures[next].elem[e] ELSE {})]]
     ELSE closures[d]]

Propagate ==
  /\ Turn("propagate_lookaheads")
  /\ kernel' = InOrder(Propagated, kernel, Items(next))
  /\ done' = (done /\ kernel' = kernel)
  /\ GoOn
  /\ UNCHANGED <<rules, goto_table, propagations>>

EndPropagate ==
  /\ Pass("propagate_lookaheads")
  /\ IF done THEN Then("expand_kernel") ELSE next' = 1 /\ UNCHANGED stage
  /\ done' = TRUE
  /\ UNCHANGED <<tables, propagations>>

ExpandKernel ==
  /\ Turn("expand_kernel")
  /\ kernel' = [kernel EXCEPT ![next].elem = expand_all_by_LR1(@)]
  /\ GoOn
  /\ UNCHANGED <<rules, goto_table, propagations, done>>

EndExpand ==
  /\ Pass("expand_kernel")
  /\ Then("generate_goto_table")
  /\ UNCHANGED <<tables, propagations, done>>

\* The row of a closure.  The complete start rule means success on "$", and a
\* reduction on any other lookahead.
Completing(elem, symbol) == {x \in DOMAIN elem : Complete(x) /\ symbol \in elem[x]}
\* Slip: the start rule is reduced like any other.
SlipStartReduced(x, symbol) == action_t("reduce", x[1])
\* Slip: every rule means success at the end.
SlipSuccess(x, symbol) == action_t(IF symbol = "$" THEN "succeed" ELSE "reduce", x[1])
Reduction(x, symbol) ==
  IF x[1] = 1 /\ symbol = "$" THEN action_t("succeed", x[1]) ELSE action_t("reduce", x[1])

Row(c) ==
  [s \in {s \in sym_table : s \in DOMAIN c.transit \/ Completing(c.elem, s) # {}} |->
     IF s \in DOMAIN c.transit THEN action_t("shift", c.transit[s])
     ELSE Reduction(CHOOSE x \in Completing(c.elem, s) : TRUE, s)]

\* Slip: between a shift and a reduction there is no conflict.
SlipConflict(c) == \E s \in sym_table : \E x, y \in Completing(c.elem, s) : x # y
Conflict(c) ==
  \E s \in sym_table :
    \/ Completing(c.elem, s) # {} /\ s \in DOMAIN c.transit
    \/ \E x, y \in Completing(c.elem, s) : x # y

GenerateRow ==
  /\ Turn("generate_goto_table")
  /\ ~Conflict(kernel[next])
  /\ goto_table' = Append(goto_table, Row(kernel[next]))
  /\ GoOn
  /\ UNCHANGED <<rules, kernel, propagations, done>>

\* A conflict leaves the table empty.
ReportConflict ==
  /\ Turn("generate_goto_table")
  /\ Conflict(kernel[next])
  /\ goto_table' = <<>>
  /\ Then("conflict")
  /\ UNCHANGED <<rules, kernel, propagations, done>>

\* rules.h is written and the generator ends.
WriteRules ==
  /\ Pass("generate_goto_table")
  /\ stage' = "written"
  /\ propagations' = <<>>
  /\ UNCHANGED <<tables, next, done>>

GeneratorNext ==
  \/ FindSuccessors \/ kernelify
  \/ AssignLookaheads \/ EndAssign
  \/ Propagate \/ EndPropagate
  \/ ExpandKernel \/ EndExpand
  \/ GenerateRow \/ ReportConflict \/ WriteRules
============================================================================
