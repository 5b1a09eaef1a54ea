-------------------------- MODULE AutomatonProofs --------------------------
(***************************************************************************)
(* The automaton for every grammar and all tables that fit it: a rule is   *)
(* only taken back when it is on top of the stack, and success means one   *)
(* whole program.  The tables are what TablesFit says of them; that the    *)
(* generator's are, TLC checks (TablesSuit).                               *)
(***************************************************************************)
EXTENDS Automaton, SequenceTheorems, TLAPS

Step == (\E name, value : Feed(name, value)) \/ Loop

\* The automaton alone: any symbols are fed to it, one at a time.
AutomatonSpec == AutomatonInit /\ [][Step]_automatonVars

\* The closure at height k has rule r with p symbols recognized: these are the
\* ones on top there, and below them the rule was at its beginning.
Spelled(k, r, p) ==
  /\ p < k
  /\ \A j \in 1..p : states[k - p + j].symbol_name = rules[r].rhs[j]
  /\ <<r, 0>> \in Items(states[k - p].state)

StackLabelled ==
  \A k \in 1..Len(states) :
    /\ states[k].state \in DOMAIN goto_table
    /\ states[k].state = 1 <=> k = 1
    /\ \A r \in DOMAIN rules, p \in Nat :
         <<r, p>> \in Items(states[k].state) => Spelled(k, r, p)

Stacked == (\E S : states \in Seq(S)) /\ Len(states) > 0

\* Nothing happens after success, so what was true at that moment still is.
SuccessKept ==
  succeed_flag => Idle /\ <<1, Len(rules[1].rhs)>> \in Items(Last(states).state)

\* The inductive invariant.
IInv == TablesFit /\ Stacked /\ StackLabelled /\ SuccessKept

\* What a state's stack says of the next one's: a new entry for a symbol goes
\* on the stack or on a lower part of it, and the stack stays labelled.
LEMMA PushKeepsLabels ==
  ASSUME TablesFit, StackLabelled, Stacked,
         NEW m \in 1..Len(states), NEW s, NEW v,
         Action(states[m].state, s).action = "shift",
         states' = Append(SubSeq(states, 1, m),
                          automaton_state_t(Action(states[m].state, s).ptr, s, v)),
         UNCHANGED tables
  PROVE  StackLabelled' /\ Stacked'
PROOF
<1> DEFINE q == states[m].state
           d == Action(q, s).ptr
           e == automaton_state_t(d, s, v)
<1>1. PICK S : states \in Seq(S)
  BY DEF Stacked
<1>2. /\ SubSeq(states, 1, m) \in Seq(S)
      /\ Len(SubSeq(states, 1, m)) = m
      /\ \A k \in 1..m : SubSeq(states, 1, m)[k] = states[k]
  BY <1>1
<1>3. /\ states' \in Seq(S \cup {e})
      /\ Len(states') = m + 1
      /\ \A k \in 1..m : states'[k] = states[k]
      /\ states'[m + 1] = e
  <2>1. SubSeq(states, 1, m) \in Seq(S \cup {e})
    BY <1>2
  <2> HIDE DEF e
  <2> QED
    BY <1>2, <2>1, AppendProperties DEF e
<1>4. Stacked'
  <2>1. \E T : states' \in Seq(T)
    BY <1>3, Zenon
  <2>2. Len(states') > 0
    BY <1>3
  <2> QED
    BY <2>1, <2>2 DEF Stacked
<1>5. /\ rules' = rules /\ kernel' = kernel /\ goto_table' = goto_table
  BY DEF tables
<1>7. StackLabelled' <=>
        \A k \in 1..Len(states') :
          /\ states'[k].state \in DOMAIN goto_table
          /\ states'[k].state = 1 <=> k = 1
          /\ \A r \in DOMAIN rules, p \in Nat :
               <<r, p>> \in Items(states'[k].state) => Spelled(k, r, p)'
  BY <1>5 DEF StackLabelled, Items
<1>8. q \in DOMAIN goto_table
  BY DEF StackLabelled
<1>9. s \in DOMAIN goto_table[q] /\ goto_table[q][s] = Action(q, s)
  BY DEF Action, action_t
<1>10. /\ d \in DOMAIN goto_table \ {1}
       /\ \A r \in DOMAIN rules, p \in Nat :
            <<r, p>> \in Items(d) /\ p > 0 =>
              rules[r].rhs[p] = s /\ <<r, p - 1>> \in Items(q)
  <2>1. ActionFits(q, s, Action(q, s))
    BY <1>8, <1>9 DEF TablesFit
  <2>2. ReachedBy(q, s, d)
    BY <2>1 DEF ActionFits
  <2> HIDE DEF q, d
  <2> QED
    BY <2>2 DEF ReachedBy, Rhs
<1>11. e.state = d /\ e.symbol_name = s
  BY DEF automaton_state_t
<1> SUFFICES ASSUME NEW k \in 1..m + 1
             PROVE  /\ states'[k].state \in DOMAIN goto_table
                    /\ states'[k].state = 1 <=> k = 1
                    /\ \A r \in DOMAIN rules, p \in Nat :
                         <<r, p>> \in Items(states'[k].state) => Spelled(k, r, p)'
  BY <1>3, <1>4, <1>7
<1>12. CASE k \in 1..m
  <2>1. states'[k] = states[k] /\ k \in 1..Len(states)
    BY <1>1, <1>3, <1>12
  <2>2. ASSUME NEW r \in DOMAIN rules, NEW p \in Nat,
               <<r, p>> \in Items(states[k].state)
        PROVE  Spelled(k, r, p)'
    <3>1. /\ p < k
          /\ \A j \in 1..p : states[k - p + j].symbol_name = rules[r].rhs[j]
          /\ <<r, 0>> \in Items(states[k - p].state)
      BY <2>1, <2>2 DEF StackLabelled, Spelled
    <3>2. \A j \in 1..p : k - p + j \in 1..m
      BY <1>12, <3>1
    <3>3. \A j \in 1..p : states'[k - p + j] = states[k - p + j]
      BY <1>3, <3>2
    <3>4. states'[k - p] = states[k - p]
      BY <1>3, <1>12, <3>1
    <3>5. \A j \in 1..p : states'[k - p + j].symbol_name = rules[r].rhs[j]
      BY <3>1, <3>3
    <3> QED
      BY <1>5, <3>1, <3>4, <3>5 DEF Spelled, Items
  <2> QED
    BY <2>1, <2>2 DEF StackLabelled
<1>13. CASE k = m + 1
  <2>1. states'[k].state = d
    BY <1>3, <1>11, <1>13
  <2>2. ASSUME NEW r \in DOMAIN rules, NEW p \in Nat, <<r, p>> \in Items(d)
        PROVE  Spelled(k, r, p)'
    <3>1. CASE p = 0
      BY <1>5, <1>13, <2>1, <2>2, <3>1 DEF Spelled, Items
    <3>2. CASE p > 0
      <4>1. rules[r].rhs[p] = s /\ <<r, p - 1>> \in Items(q)
        BY <1>10, <2>2, <3>2
      <4>2. /\ p - 1 < m
            /\ \A j \in 1..p - 1 : states[m - (p - 1) + j].symbol_name = rules[r].rhs[j]
            /\ <<r, 0>> \in Items(states[m - (p - 1)].state)
        BY <3>2, <4>1 DEF StackLabelled, Spelled
      <4>3. k - p = m - (p - 1) /\ k - p \in 1..m
        BY <1>13, <3>2, <4>2
      <4>4. ASSUME NEW j \in 1..p
            PROVE  states'[k - p + j].symbol_name = rules[r].rhs[j]
        <5>1. CASE j = p
          <6>1. k - p + j = m + 1
            BY <1>13, <5>1
          <6> QED
            BY <1>3, <1>11, <4>1, <5>1, <6>1
        <5>2. CASE j < p
          <6>1. k - p + j \in 1..m /\ j \in 1..p - 1 /\ k - p + j = m - (p - 1) + j
            BY <1>13, <4>3, <5>2
          <6> QED
            BY <1>3, <4>2, <6>1
        <5>3. j = p \/ j < p
          OBVIOUS
        <5> QED
          BY <5>1, <5>2, <5>3, Zenon
      <4>5. states'[k - p] = states[m - (p - 1)]
        BY <1>3, <4>3
      <4> QED
        BY <1>5, <1>13, <4>2, <4>4, <4>5 DEF Spelled, Items
    <3> QED
      BY <3>1, <3>2
  <2> QED
    BY <1>10, <1>13, <2>1, <2>2
<1> QED
  BY <1>12, <1>13

\* What a labelled stack says of a complete rule on top of it.
LEMMA HandleSpelled ==
  ASSUME IInv, NEW r \in DOMAIN rules,
         <<r, Len(rules[r].rhs)>> \in Items(Last(states).state)
  PROVE  LET len == Len(rules[r].rhs) IN
         /\ len \in Nat /\ len < Len(states)
         /\ \A j \in 1..len : states[Len(states) - len + j].symbol_name = rules[r].rhs[j]
         /\ <<r, 0>> \in Items(states[Len(states) - len].state)
PROOF
<1> DEFINE len == Len(rules[r].rhs)
<1>1. len \in Nat
  BY DEF IInv, TablesFit
<1>2. Len(states) \in 1..Len(states) /\ Last(states) = states[Len(states)]
  BY DEF IInv, Stacked, Last
<1>3. Spelled(Len(states), r, len)
  BY <1>1, <1>2 DEF IInv, StackLabelled
<1> QED
  BY <1>1, <1>3 DEF Spelled

\* So a reduction finds its right-hand side, and a closure below that has a
\* transition for the rule.
LEMMA ReductionsFit ==
  ASSUME IInv
  PROVE  HandleOnTop
PROOF
<1> SUFFICES ASSUME ~Idle, act.action = "reduce"
             PROVE  /\ Handle < Len(states)
                    /\ \A k \in 1..Handle :
                         states[Len(states) - Handle + k].symbol_name = rules[act.ptr].rhs[k]
                    /\ GotoAction.action = "shift"
  BY DEF HandleOnTop
<1> DEFINE q == Last(states).state
           r == act.ptr
<1>1. q \in DOMAIN goto_table
  BY DEF IInv, Stacked, StackLabelled, Last
<1>2. fed.name \in DOMAIN goto_table[q] /\ goto_table[q][fed.name] = act
  BY DEF act, Action, action_t
<1>3. ActionFits(q, fed.name, act)
  BY <1>1, <1>2 DEF IInv, TablesFit
<1>4. r \in DOMAIN rules \ {1} /\ <<r, Handle>> \in Items(q)
  BY <1>3 DEF ActionFits, Handle
<1>5. /\ Handle \in Nat /\ Handle < Len(states)
      /\ \A j \in 1..Handle : states[Len(states) - Handle + j].symbol_name = rules[r].rhs[j]
      /\ <<r, 0>> \in Items(states[Len(states) - Handle].state)
  BY <1>4, HandleSpelled DEF Handle
<1>6. Len(states) \in Nat /\ Len(states) - Handle \in 1..Len(states)
  BY <1>5 DEF IInv, Stacked
<1>7. Last(Below) = states[Len(states) - Handle]
  BY <1>5, <1>6 DEF Below, Last, IInv, Stacked
<1>8. Last(Below).state \in DOMAIN goto_table
  BY <1>6, <1>7 DEF IInv, StackLabelled
<1>9. ClosureFits(Last(Below).state)
  BY <1>8 DEF IInv, TablesFit
<1>10. Action(Last(Below).state, rules[r].lhs).action = "shift"
  <2>1. <<r, 0>> \in Items(Last(Below).state) /\ <<r, 0>> # StartItem
    BY <1>4, <1>5, <1>7 DEF StartItem
  <2> HIDE DEF r
  <2> QED
    BY <1>9, <2>1 DEF ClosureFits, Lhs
<1> QED
  BY <1>5, <1>10 DEF GotoAction

\* With the start rule complete on top of the stack there is nothing below it.
LEMMA SuccessFits ==
  ASSUME IInv
  PROVE  AcceptsWhole
PROOF
<1> SUFFICES ASSUME succeed_flag
             PROVE  [k \in 1..Len(states) - 1 |-> states[k + 1].symbol_name] = rules[1].rhs
  BY DEF AcceptsWhole
<1> DEFINE len == Len(rules[1].rhs)
<1>1. 1 \in DOMAIN goto_table /\ StartItem \in Items(1)
  BY DEF IInv, TablesFit, ClosureFits
<1>2. 1 \in DOMAIN rules
  <2>1. Items(1) \subseteq (DOMAIN rules) \X Nat
    BY <1>1 DEF IInv, TablesFit, ClosureFits
  <2> QED
    BY <1>1, <2>1 DEF StartItem
<1>3. <<1, len>> \in Items(Last(states).state)
  BY DEF IInv, SuccessKept
<1>4. /\ len \in Nat /\ len < Len(states)
      /\ \A j \in 1..len : states[Len(states) - len + j].symbol_name = rules[1].rhs[j]
      /\ <<1, 0>> \in Items(states[Len(states) - len].state)
  BY <1>2, <1>3, HandleSpelled
<1>5. Len(states) \in Nat /\ Len(states) - len \in 1..Len(states)
  BY <1>4 DEF IInv, Stacked
<1>6. Len(states) - len = 1
  <2>1. states[Len(states) - len].state \in DOMAIN goto_table
    BY <1>5 DEF IInv, StackLabelled
  <2>2. states[Len(states) - len].state = 1
    BY <1>4, <2>1 DEF IInv, TablesFit, ClosureFits, StartItem
  <2> QED
    BY <1>5, <2>2 DEF IInv, StackLabelled
<1>7. rules[1].rhs = [k \in 1..len |-> rules[1].rhs[k]]
  BY <1>2 DEF IInv, TablesFit
<1>8. len = Len(states) - 1
  BY <1>4, <1>5, <1>6
<1>9. \A k \in 1..len : states[k + 1].symbol_name = rules[1].rhs[k]
  <2> HIDE DEF len
  <2> QED
    BY SMTT(60), <1>4, <1>5, <1>6
<1> HIDE DEF len
<1> QED
  BY <1>7, <1>8, <1>9

LEMMA TablesKept ==
  ASSUME TablesFit, UNCHANGED tables
  PROVE  TablesFit'
PROOF
<1>1. rules' = rules /\ kernel' = kernel /\ goto_table' = goto_table
  BY DEF tables
<1>2. sym_table' = sym_table
  BY <1>1 DEF sym_table
<1>3. ASSUME NEW q \in DOMAIN goto_table
      PROVE  ClosureFits(q)'
  <2>1. ClosureFits(q)
    BY DEF TablesFit
  <2> QED
    BY <1>1, <2>1 DEF ClosureFits, Items, StartItem, Action, action_t, Lhs
<1>4. ASSUME NEW q \in DOMAIN goto_table, NEW s \in DOMAIN goto_table[q]
      PROVE  ActionFits(q, s, goto_table[q][s])'
  <2>1. ActionFits(q, s, goto_table[q][s])
    BY DEF TablesFit
  <2> QED
    BY <1>1, <2>1 DEF ActionFits, ReachedBy, Items, Rhs
<1>5. \A q \in DOMAIN goto_table' : 
        ClosureFits(q)' /\ \A s \in DOMAIN goto_table'[q] : ActionFits(q, s, goto_table[q][s])'
  BY <1>1, <1>3, <1>4
<1> QED
  BY <1>1, <1>2, <1>5 DEF TablesFit

LEMMA StackKept ==
  ASSUME Stacked, StackLabelled, UNCHANGED <<tables, states>>
  PROVE  Stacked' /\ StackLabelled'
PROOF
<1>1. /\ rules' = rules /\ kernel' = kernel /\ goto_table' = goto_table
      /\ states' = states
  BY DEF tables
<1>2. Stacked'
  BY <1>1 DEF Stacked
<1>3. ASSUME NEW k \in 1..Len(states), NEW r \in DOMAIN rules, NEW p \in Nat,
             <<r, p>> \in Items(states[k].state)
      PROVE  Spelled(k, r, p)'
  <2>1. Spelled(k, r, p)
    BY <1>3 DEF StackLabelled
  <2> QED
    BY <1>1, <2>1 DEF Spelled, Items
<1>4. StackLabelled'
  BY <1>1, <1>3 DEF StackLabelled, Items
<1> QED
  BY <1>2, <1>4

LEMMA InitLabelled ==
  ASSUME AutomatonInit, TablesFit
  PROVE  IInv
PROOF
<1>1. /\ states = <<automaton_state_t(1, "$", <<>>)>>
      /\ succeed_flag = FALSE
  BY DEF AutomatonInit, reset
<1>2. Len(states) = 1 /\ states[1].state = 1
  BY <1>1 DEF automaton_state_t
<1>3. Stacked
  <2>1. states \in Seq({automaton_state_t(1, "$", <<>>)})
    BY <1>1
  <2>2. \E S : states \in Seq(S)
    BY <2>1, Zenon
  <2> QED
    BY <1>2, <2>2 DEF Stacked
<1>4. StackLabelled
  <2>1. \A r \in DOMAIN rules, p \in Nat : <<r, p>> \in Items(1) => p = 0
    BY DEF TablesFit, ClosureFits
  <2> QED
    BY <1>2, <2>1 DEF StackLabelled, Spelled, TablesFit
<1> QED
  BY <1>1, <1>3, <1>4 DEF IInv, SuccessKept

LEMMA StepKeepsLabels ==
  ASSUME IInv, [Step]_automatonVars
  PROVE  IInv'
PROOF
<1>1. TablesFit /\ Stacked /\ StackLabelled /\ SuccessKept
  BY DEF IInv
<1>2. UNCHANGED tables
  BY DEF Step, Feed, Loop, SyntaxError, Shift, Reduce, ReductionError, Succeed, automatonVars
<1>3. TablesFit'
  BY <1>1, <1>2, TablesKept
<1>4. ASSUME NEW name, NEW value, Feed(name, value)
      PROVE  IInv'
  <2>1. UNCHANGED states /\ UNCHANGED succeed_flag /\ (succeed_flag => UNCHANGED fed)
    BY <1>4 DEF Feed
  <2>2. Stacked' /\ StackLabelled'
    BY <1>1, <1>2, <2>1, StackKept
  <2>3. SuccessKept'
    BY <1>1, <1>2, <2>1 DEF SuccessKept, Idle, Items, tables
  <2> QED
    BY <1>3, <2>2, <2>3 DEF IInv
<1>5. CASE SyntaxError
  <2>1. Stacked' /\ StackLabelled'
    BY <1>1, <1>2, <1>5, StackKept DEF SyntaxError
  <2> QED
    BY <1>1, <1>3, <1>5, <2>1 DEF IInv, SyntaxError, SuccessKept
<1>6. CASE Shift
  <2> DEFINE m == Len(states)
  <2>1. PICK S : states \in Seq(S)
    BY <1>1 DEF Stacked
  <2>2. m \in 1..Len(states) /\ Last(states) = states[m] /\ SubSeq(states, 1, m) = states
    BY <1>1, <2>1 DEF Stacked, Last
  <2>3. /\ Action(states[m].state, fed.name).action = "shift"
        /\ states' = Append(SubSeq(states, 1, m),
             automaton_state_t(Action(states[m].state, fed.name).ptr, fed.name, fed.value))
    BY <1>6, <2>2 DEF Shift, act
  <2>4. Stacked' /\ StackLabelled'
    BY <1>1, <1>2, <2>2, <2>3, PushKeepsLabels
  <2> QED
    BY <1>1, <1>3, <1>6, <2>4 DEF IInv, Shift, SuccessKept
<1>7. CASE Reduce
  <2> DEFINE m == Len(states) - Handle
             lhs == rules[act.ptr].lhs
  <2>1. Handle \in Nat /\ Handle < Len(states)
    <3>1. Last(states).state \in DOMAIN goto_table
      BY <1>1 DEF Stacked, StackLabelled, Last
    <3>2. ActionFits(Last(states).state, fed.name, act)
      BY <1>1, <1>7, <3>1 DEF TablesFit, Reduce, Reducing, act, Action, action_t
    <3>3. act.ptr \in DOMAIN rules
      BY <1>7, <3>2 DEF ActionFits, Reduce, Reducing
    <3> QED
      BY <1>1, <1>7, <3>3 DEF TablesFit, Handle, Reduce, Reducing
  <2>2. m \in 1..Len(states)
    BY <1>1, <2>1 DEF Stacked
  <2>3. Below = SubSeq(states, 1, m) /\ Last(Below) = states[m]
    BY <1>1, <2>2 DEF Below, Stacked, Last
  <2>4. /\ Action(states[m].state, lhs).action = "shift"
        /\ states' = Append(SubSeq(states, 1, m),
             automaton_state_t(Action(states[m].state, lhs).ptr, lhs,
                               Callback(act.ptr, Reverse(Popped))))
    BY <1>7, <2>3 DEF Reduce, GotoAction
  <2>5. Stacked' /\ StackLabelled'
    BY <1>1, <1>2, <2>2, <2>4, PushKeepsLabels
  <2> QED
    BY <1>1, <1>3, <1>7, <2>5 DEF IInv, Reduce, Reducing, SuccessKept
<1>8. CASE ReductionError
  BY <1>8, ReductionsFit DEF HandleOnTop, ReductionError, Reducing
<1>9. CASE Succeed
  <2>1. Stacked' /\ StackLabelled'
    BY <1>1, <1>2, <1>9, StackKept DEF Succeed
  <2>2. <<1, Len(rules[1].rhs)>> \in Items(Last(states).state)
    <3>1. Last(states).state \in DOMAIN goto_table
      BY <1>1 DEF Stacked, StackLabelled, Last
    <3>2. ActionFits(Last(states).state, fed.name, act)
      BY <1>1, <1>9, <3>1 DEF TablesFit, Succeed, act, Action, action_t
    <3> QED
      BY <1>9, <3>2 DEF ActionFits, Succeed
  <2>3. SuccessKept'
    BY <1>2, <1>9, <2>2 DEF SuccessKept, Succeed, Return, Idle, NoSymbol, Items, tables
  <2> QED
    BY <1>3, <2>1, <2>3 DEF IInv
<1>10. CASE UNCHANGED automatonVars
  <2>1. Stacked' /\ StackLabelled'
    BY <1>1, <1>10, StackKept DEF automatonVars
  <2>2. SuccessKept'
    BY <1>1, <1>10 DEF SuccessKept, automatonVars, Idle, Items, tables
  <2> QED
    BY <1>3, <2>1, <2>2 DEF IInv
<1> QED
  BY <1>4, <1>5, <1>6, <1>7, <1>8, <1>9, <1>10 DEF Step, Loop

THEOREM Labelled == AutomatonSpec /\ TablesFit => []IInv
PROOF
<1>1. AutomatonInit /\ TablesFit => IInv
  BY InitLabelled
<1>2. IInv /\ [Step]_automatonVars => IInv'
  BY StepKeepsLabels
<1> QED
  BY <1>1, <1>2, PTL DEF AutomatonSpec

THEOREM ReductionsOnTop == AutomatonSpec /\ TablesFit => []HandleOnTop
BY Labelled, ReductionsFit, PTL

THEOREM SuccessIsWhole == AutomatonSpec /\ TablesFit => []AcceptsWhole
BY Labelled, SuccessFits, PTL
=============================================================================
