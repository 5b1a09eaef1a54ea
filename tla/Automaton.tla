----------------------------- MODULE Automaton -----------------------------
(***************************************************************************)
(* The automaton that runs the tables, Automaton.h and Automaton.cpp.      *)
(* Feed begins a call of feed or answers at once; while the call lasts,    *)
(* fed holds the symbol, and each round of the loop in feed is a step.     *)
(***************************************************************************)
EXTENDS LRTables, SequencesExt

CONSTANT
  Callback(_, _)  \* what the function attached to a rule makes of the values

VARIABLES
  states,        \* the stack: records [state, symbol_name, symbol], the top is the last
  error_flag,
  succeed_flag,
  fed,           \* the symbol the loop works on, and its value
  result         \* what the last call returned

automatonVars == <<tables, states, error_flag, succeed_flag, fed, result>>

NoSymbol == [name |-> "", value |-> <<>>]

automaton_state_t(state, name, value) ==
  [state |-> state, symbol_name |-> name, symbol |-> value]

reset ==
  /\ states = <<automaton_state_t(1, "$", <<>>)>>
  /\ error_flag = FALSE
  /\ succeed_flag = FALSE

AutomatonInit == reset /\ fed = NoSymbol /\ result = "none"

Idle == fed = NoSymbol
act == Action(Last(states).state, fed.name)

Feed(name, value) ==
  /\ Idle
  /\ CASE error_flag -> result' = "error_occured" /\ UNCHANGED <<fed, error_flag>>
       [] ~error_flag /\ succeed_flag -> result' = "succeeded" /\ UNCHANGED <<fed, error_flag>>
       [] ~error_flag /\ ~succeed_flag /\ name \notin sym_table ->
            result' = "error_bad_symbol" /\ error_flag' = TRUE /\ UNCHANGED fed
       [] OTHER -> fed' = [name |-> name, value |-> value] /\ UNCHANGED <<result, error_flag>>
  /\ UNCHANGED <<tables, states, succeed_flag>>

Return(answer) == result' = answer /\ fed' = NoSymbol

SyntaxError ==
  /\ ~Idle /\ act.action = "error"
  /\ error_flag' = TRUE
  /\ Return("error_syntax")
  /\ UNCHANGED <<tables, states, succeed_flag>>

Shift ==
  /\ ~Idle /\ act.action = "shift"
  /\ states' = Append(states, automaton_state_t(act.ptr, fed.name, fed.value))
  /\ Return("waiting")
  /\ UNCHANGED <<tables, error_flag, succeed_flag>>

\* A reduction pops as many states as the rule has symbols.  Popping more
\* than there are is undefined, and no step here; see HandleOnTop.
Handle == Len(rules[act.ptr].rhs)
Reducing == ~Idle /\ act.action = "reduce" /\ Handle < Len(states)
\* Slip: of a longer rule one symbol too few is popped.
SlipBelow == SubSeq(states, 1, Len(states) - (IF Handle > 1 THEN Handle - 1 ELSE Handle))
Below == SubSeq(states, 1, Len(states) - Handle)
GotoAction == Action(Last(Below).state, rules[act.ptr].lhs)

\* Slip: the first symbol's value first, so that the reversal turns them around.
SlipPopped == [k \in 1..Handle |-> states[Len(states) - Handle + k].symbol]

\* The values as they are popped, the last symbol's first.
Popped == [k \in 1..Handle |-> states[Len(states) + 1 - k].symbol]

ReductionError ==
  /\ Reducing /\ GotoAction.action # "shift"
  /\ states' = Below
  /\ error_flag' = TRUE
  /\ Return("error_syntax")
  /\ UNCHANGED <<tables, succeed_flag>>

Reduce ==
  /\ Reducing /\ GotoAction.action = "shift"
  /\ states' = Append(Below, automaton_state_t(GotoAction.ptr, rules[act.ptr].lhs,
                                               Callback(act.ptr, Reverse(Popped))))
  /\ UNCHANGED <<tables, error_flag, succeed_flag, fed, result>>

\* Slip: the loop is not left.
SlipSucceed ==
  /\ ~Idle /\ act.action = "succeed"
  /\ succeed_flag' = TRUE
  /\ UNCHANGED <<tables, states, error_flag, fed, result>>

Succeed ==
  /\ ~Idle /\ act.action = "succeed"
  /\ succeed_flag' = TRUE
  /\ Return("succeeded")
  /\ UNCHANGED <<tables, states, error_flag>>

Loop == SyntaxError \/ Shift \/ Reduce \/ ReductionError \/ Succeed
----------------------------------------------------------------------------
(***************************************************************************)
(* Properties.                                                             *)
(***************************************************************************)

\* Closures as the automaton needs them: only the start item has no
\* transition behind it, and an item at its beginning has one for its rule.
ClosureFits(q) ==
  /\ Items(q) \subseteq (DOMAIN rules) \X Nat
  /\ q = 1 <=> StartItem \in Items(q)
  /\ q = 1 => \A x \in Items(q) : x[2] = 0
  /\ \A x \in Items(q) : x[2] = 0 /\ x # StartItem => Action(q, Lhs(x)).action = "shift"

\* What a shift leads to: an item with a symbol recognized is reached by that
\* symbol, from the item before.
ReachedBy(q, s, d) ==
  /\ d \in DOMAIN goto_table \ {1}
  /\ \A x \in Items(d) : x[2] > 0 => Rhs(x)[x[2]] = s /\ <<x[1], x[2] - 1>> \in Items(q)

\* Complete items alone call for a reduction, or for success.
ActionFits(q, s, a) ==
  /\ a.action \in {"shift", "reduce", "succeed"}
  /\ a.action = "shift" => ReachedBy(q, s, a.ptr)
  /\ a.action = "reduce" =>
       a.ptr \in DOMAIN rules \ {1} /\ <<a.ptr, Len(rules[a.ptr].rhs)>> \in Items(q)
  /\ a.action = "succeed" => <<1, Len(rules[1].rhs)>> \in Items(q)

\* Tables that belong to the closures: what the automaton needs of the generator.
TablesFit ==
  /\ 1 \in DOMAIN goto_table
  /\ \A r \in DOMAIN rules : rules[r].rhs \in Seq(sym_table)
  /\ \A q \in DOMAIN goto_table :
       ClosureFits(q) /\ \A s \in DOMAIN goto_table[q] : ActionFits(q, s, goto_table[q][s])

\* The loop takes a rule back only when its right-hand side is on top of the
\* stack, symbol by symbol, and the state below has a transition for it: the
\* code checks this after the symbols were popped and the values collected
\* (Automaton.cpp:61-70), too late to undo it.
HandleOnTop ==
  ~Idle /\ act.action = "reduce" =>
    /\ Handle < Len(states)
    /\ \A k \in 1..Handle :
         states[Len(states) - Handle + k].symbol_name = rules[act.ptr].rhs[k]
    /\ GotoAction.action = "shift"

\* Success means that the stack holds the start rule's right-hand side and
\* nothing else: all that was fed is part of one program.
AcceptsWhole ==
  succeed_flag => [k \in 1..Len(states) - 1 |-> states[k + 1].symbol_name] = rules[1].rhs
============================================================================
