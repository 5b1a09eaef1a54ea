---------------------------- MODULE BlockProofs ----------------------------
(***************************************************************************)
(* Theorems about blocks in the compiler, for every source program whose   *)
(* procedures are nested but do not follow one another in a block:         *)
(*  - scopes: with any number of lexical errors, the symbol table's layers *)
(*    are the blocks of the source, and calls lead where the source says;  *)
(*  - finished code: if the lexer finds no error, the JMP a block starts   *)
(*    with goes to the block's own statement, and the variables the code   *)
(*    reads and writes lie in the frames it reserves.                      *)
(***************************************************************************)
EXTENDS AssemblerProofs

\* The block of the procedure it has been left; the procedure itself has not
\* been reduced yet.
HasLeft(it) == it.rule = "PROC" /\ Len(it.vals) >= 2

\* Only the innermost procedure can be in that state: no other follows it.
OneProcedure(its) ==
  \A k \in 1..(Len(its) - 1) :
    HasLeft(its[k]) => k = Len(its) - 1 /\ its[Len(its)].rule = "EPROC"

Leaving(its) ==
  \/ HasLeft(its[Len(its)])
  \/ its[Len(its)].rule = "EPROC" /\ HasLeft(its[Len(its) - 1])

\* The program's own block has been left.
Ended(its) == its[Len(its)].rule \in {"PL0", "PROG"} /\ its[Len(its)].vals # <<>>
----------------------------------------------------------------------------
(***************************************************************************)
(* The steps of the parser.                                                *)
(***************************************************************************)

\* A rule begins.
LEMMA AfterExpand ==
  ASSUME OnTrack(items), OneProcedure(items), NEW p \in DOMAIN Rules, ~Complete,
         Upcoming = lhs(p), p = "PROC" => r # "PROC", items' = Append(items, Item(p, <<>>))
  PROVE  /\ OneProcedure(items') /\ (Leaving(items') <=> Leaving(items))
         /\ ~Ended(items) /\ ~Ended(items')
<1> DEFINE n == Len(items)
<1>1. /\ n \in Nat /\ n >= 1 /\ Awaits(items[n], lhs(p)) /\ r = items[n].rule /\ v = items[n].vals
      /\ v \in Seq(AllValues) /\ r \in DOMAIN Rules
  BY Innermost
<1>2. /\ Len(items') = n + 1 /\ \A k \in 1..n : items'[k] = items[k]
      /\ items'[n + 1].rule = p /\ items'[n + 1].vals = <<>>
  BY <1>1 DEF OnTrack, Item
<1>3. BlocksInPlace(p) /\ BlocksInPlace(r) /\ RhsIsSequence(r)
  BY <1>1, BlocksInPlaceEverywhere, RhsAreSequences
<1>4. lhs(p) = rhs(r)[Len(v) + 1] /\ Len(v) + 1 \in DOMAIN rhs(r) /\ Len(v) \in Nat
  BY <1>1, <1>3 DEF Awaits, RhsIsSequence
<1>5. r # "EPROC"
  BY <1>1, BlockShapes DEF Awaits
<1>6. HasLeft(items[n]) => p = "EPROC"
  <2> SUFFICES ASSUME HasLeft(items[n]) PROVE p = "EPROC"
    OBVIOUS
  <2> DEFINE m == Len(v)
  <2>1. r = "PROC" /\ m >= 2 /\ m < Len(rhs("PROC")) /\ lhs(p) = rhs("PROC")[m + 1] /\ m \in Nat
    BY <1>1, <1>4 DEF HasLeft, Awaits
  <2> HIDE DEF m
  <2>2. m = 2 \/ m = 3
    <3>1. \A k \in Nat : k >= 2 /\ k < 4 => k = 2 \/ k = 3
      OBVIOUS
    <3> QED BY <2>1, <3>1, BlockShapes
  <2>3. lhs(p) = SEMICOLON \/ lhs(p) = "Sproc"
    BY <2>1, <2>2, BlockShapes
  <2> QED BY <1>3, <2>1, <2>3 DEF BlocksInPlace
<1>7. OneProcedure(items')
  BY <1>1, <1>2, <1>5, <1>6 DEF OneProcedure, HasLeft
<1>8. Leaving(items') <=> Leaving(items)
  <2>1. ~HasLeft(items'[n + 1])
    BY <1>2 DEF HasLeft
  <2>2. (p = "EPROC" /\ HasLeft(items[n])) <=> HasLeft(items[n])
    BY <1>6
  <2>3. Leaving(items) <=> HasLeft(items[n])
    BY <1>1, <1>5 DEF Leaving
  <2>4. items'[Len(items') - 1] = items[n] /\ items'[Len(items')] = items'[n + 1]
    BY <1>1, <1>2
  <2> QED BY <1>2, <2>1, <2>2, <2>3, <2>4 DEF Leaving
<1>9. ~Ended(items')
  BY <1>2 DEF Ended
<1>10. ~Ended(items)
  <2> SUFFICES ASSUME Ended(items) PROVE FALSE
    OBVIOUS
  <2> DEFINE m == Len(v)
  <2>1. m >= 1 /\ m \in Nat /\ m < Len(rhs(r)) /\ lhs(p) = rhs(r)[m + 1]
    BY <1>1, <1>4 DEF Ended, Awaits
  <2>2. r = "PL0" \/ r = "PROG"
    BY <1>1 DEF Ended
  <2> HIDE DEF m
  <2>3. r = "PROG" /\ m = 1
    BY <2>1, <2>2, BlockShapes
  <2>4. lhs(p) = "T."
    BY <2>1, <2>3, BlockShapes
  <2> QED BY <1>3, <2>4 DEF BlocksInPlace
<1> QED BY <1>7, <1>8, <1>9, <1>10

\* A terminal is read.
LEMMA AfterShift ==
  ASSUME OnTrack(items), OneProcedure(items), ~Complete, Upcoming \in Terminals,
         NEW token \in Tokens(Upcoming), items' = Recognized(items, token)
  PROVE  /\ OneProcedure(items') /\ (Leaving(items') <=> Leaving(items))
         /\ (Ended(items') <=> Ended(items))
<1> DEFINE n == Len(items)
<1>1. /\ n \in Nat /\ n >= 1 /\ Awaits(items[n], Upcoming) /\ r = items[n].rule /\ v = items[n].vals
      /\ v \in Seq(AllValues) /\ r \in DOMAIN Rules /\ Len(v) \in Nat
      /\ items[n] \in Items /\ items \in Seq(Items)
  BY Innermost DEF OnTrack
<1>2. /\ Len(items') = n /\ \A k \in 1..(n - 1) : items'[k] = items[k]
      /\ items'[n].rule = r /\ items'[n].vals = Append(v, token)
  BY <1>1 DEF Recognized, Items
<1>3. /\ Len(items'[n].vals) = Len(v) + 1 /\ items'[n].vals # <<>>
  BY <1>1, <1>2
<1>4. r # "EPROC"
  BY <1>1, BlockShapes DEF Awaits
<1>5. \A q \in DOMAIN Rules : lhs(q) # Upcoming
  BY MadeByRules
<1> DEFINE m == Len(v)
<1>10. /\ m \in Nat /\ m < Len(rhs(r)) /\ rhs(r)[m + 1] = Upcoming
       /\ Len(items[n].vals) = m /\ Len(items'[n].vals) = m + 1
  BY <1>1, <1>3 DEF Awaits
<1> HIDE DEF m
<1>6. HasLeft(items'[n]) <=> HasLeft(items[n])
  <2>1. CASE r = "PROC"
    <3>1. m # 1 /\ m # 0
      BY <1>5, <1>10, <2>1, BlockShapes
    <3> QED BY <1>1, <1>2, <1>10, <3>1 DEF HasLeft
  <2>2. CASE r # "PROC"
    BY <1>1, <1>2, <2>2 DEF HasLeft
  <2> QED BY <2>1, <2>2
<1>7. OneProcedure(items')
  BY <1>1, <1>2, <1>4 DEF OneProcedure
<1>8. Leaving(items') <=> Leaving(items)
  BY <1>1, <1>2, <1>4, <1>6 DEF Leaving
<1>9. Ended(items') <=> Ended(items)
  <2>1. r \in {"PL0", "PROG"} => m # 0
    BY <1>5, <1>10, BlockShapes
  <2>2. m # 0 => items[n].vals # <<>>
    BY <1>10
  <2> QED BY <1>1, <1>2, <1>3, <2>1, <2>2 DEF Ended
<1> QED BY <1>7, <1>8, <1>9

\* A rule is reduced: the innermost item goes, and the one below has its symbol.
LEMMA BelowReduction ==
  ASSUME OnTrack(items), Complete, r # "PL0", NEW value \in ValuesOf(lhs(r)),
         items' = Recognized(Front(items), value)
  PROVE  LET n == Len(items)
         IN  /\ n \in Nat /\ n >= 2 /\ Len(items') = n - 1
             /\ r = items[n].rule /\ r \in DOMAIN Rules
             /\ Awaits(items[n - 1], lhs(r)) /\ items[n - 1] \in Items
             /\ items'[n - 1].rule = items[n - 1].rule
             /\ Len(items[n - 1].vals) \in Nat
             /\ Len(items'[n - 1].vals) = Len(items[n - 1].vals) + 1
             /\ items'[n - 1].vals # <<>>
             /\ \A k \in 1..(n - 2) : items'[k] = items[k]
<1> DEFINE n == Len(items)
           front == Front(items)
<1>1. n \in Nat /\ n >= 1 /\ r = items[n].rule /\ r \in DOMAIN Rules /\ items \in Seq(Items)
  BY Innermost DEF OnTrack
<1>2. /\ OnTrack(front) /\ Len(front) = n - 1 /\ n > 1
      /\ Awaits(front[n - 1], lhs(r)) /\ front[n - 1] = items[n - 1]
  BY <1>1, FrontItems
<1>3. front \in Seq(Items) /\ \A k \in 1..(n - 1) : front[k] = items[k]
  BY <1>1, <1>2 DEF Front, OnTrack
<1>4. front[n - 1] \in Items
  BY <1>1, <1>2, <1>3
<1>5. front[n - 1].vals \in Seq(AllValues)
  BY <1>4 DEF Items
<1> HIDE DEF front
<1>6. /\ Len(items') = n - 1
      /\ items'[n - 1].rule = front[n - 1].rule
      /\ items'[n - 1].vals = Append(front[n - 1].vals, value)
      /\ \A k \in 1..(n - 2) : items'[k] = front[k]
  BY SMTT(60), <1>1, <1>2, <1>3, <1>4 DEF Recognized, Items, front
<1>7. \A k \in 1..(n - 2) : items'[k] = items[k]
  BY <1>1, <1>3, <1>6
<1>8. /\ Len(items'[n - 1].vals) = Len(front[n - 1].vals) + 1 /\ items'[n - 1].vals # <<>>
      /\ Len(front[n - 1].vals) \in Nat
  BY SMTT(60), <1>5, <1>6
<1> DEFINE below == items[n - 1]
<1>9. /\ below = front[n - 1] /\ Awaits(below, lhs(r)) /\ below \in Items
      /\ Len(below.vals) \in Nat /\ items'[n - 1].rule = below.rule
      /\ Len(items'[n - 1].vals) = Len(below.vals) + 1
  BY <1>2, <1>4, <1>6, <1>8
<1> HIDE DEF below
<1>10. /\ n >= 2 /\ Len(items') = n - 1 /\ items'[n - 1].vals # <<>>
  BY <1>1, <1>2, <1>6, <1>8
<1> QED BY <1>1, <1>7, <1>9, <1>10 DEF below

\* A reduction moves into the state Leaving with a SUBPROG, and out of it with
\* a PROC, which comes next.
LEMMA AfterReduction ==
  ASSUME OnTrack(items), OneProcedure(items), Complete, r # "PL0",
         NEW value \in ValuesOf(lhs(r)), items' = Recognized(Front(items), value)
  PROVE  /\ OneProcedure(items')
         /\ Ended(items) => Ended(items')
         /\ r \notin {"PROC", "EPROC"} => ~Leaving(items)
         /\ r = "SUBPROG" => Ended(items') \/ Leaving(items')
         /\ r = "PROC" => Leaving(items) /\ ~Leaving(items')
         /\ r \notin {"PROC", "SUBPROG"} => (Leaving(items') <=> Leaving(items))
<1> DEFINE n == Len(items)
           q == items[n - 1].rule
           m == Len(items[n - 1].vals)
<1>1. /\ n \in Nat /\ n >= 2 /\ Len(items') = n - 1
      /\ r = items[n].rule /\ r \in DOMAIN Rules
      /\ q \in DOMAIN Rules /\ m \in Nat
      /\ m < Len(rhs(q)) /\ rhs(q)[m + 1] = lhs(r)
      /\ items'[n - 1].rule = q /\ Len(items'[n - 1].vals) = m + 1
      /\ items'[n - 1].vals # <<>>
      /\ \A k \in 1..(n - 2) : items'[k] = items[k]
  BY BelowReduction DEF Awaits, Items
<1>2. v = items[n].vals /\ Len(v) = Len(rhs(r))
  BY Innermost
<1>3. BlocksInPlace(r) /\ BlocksInPlace(q) /\ RhsIsSequence(q) /\ LhsInPlace(r)
  BY <1>1, BlocksInPlaceEverywhere, RhsAreSequences, LhsInPlaceEverywhere
<1>4. m + 1 \in DOMAIN rhs(q) /\ q # "EPROC"
  BY <1>1, <1>3, BlockShapes DEF RhsIsSequence
<1>5. HasLeft(items[n - 1]) <=> q = "PROC" /\ m >= 2
  BY DEF HasLeft
<1>6. HasLeft(items'[n - 1]) <=> q = "PROC" /\ m >= 1
  BY <1>1 DEF HasLeft
<1>7. Leaving(items') <=> HasLeft(items'[n - 1])
  BY <1>1, <1>4 DEF Leaving
<1>8. HasLeft(items[n]) <=> r = "PROC"
  BY <1>1, <1>2, BlockShapes DEF HasLeft
<1>9. Leaving(items) <=> r = "PROC" \/ (r = "EPROC" /\ HasLeft(items[n - 1]))
  BY <1>1, <1>8 DEF Leaving
<1>10. HasLeft(items[n - 1]) => r = "EPROC"
  BY <1>1 DEF OneProcedure
<1>11. Ended(items') <=> q \in {"PL0", "PROG"}
  BY <1>1 DEF Ended
<1> HIDE DEF n, q, m
<1>12. q = "PROC" => \/ m = 0 /\ r = "PROCH"
                     \/ m = 1 /\ r = "SUBPROG"
                     \/ m = 3 /\ r \in {"PROC", "EPROC"}
  <2> SUFFICES ASSUME q = "PROC"
               PROVE  \/ m = 0 /\ r = "PROCH"
                      \/ m = 1 /\ r = "SUBPROG"
                      \/ m = 3 /\ r \in {"PROC", "EPROC"}
    OBVIOUS
  <2>1. \A k \in Nat : k < 4 => k = 0 \/ k = 1 \/ k = 2 \/ k = 3
    OBVIOUS
  <2>2. m = 0 \/ m = 1 \/ m = 2 \/ m = 3
    BY <1>1, <2>1, BlockShapes
  <2>3. m = 0 => r = "PROCH"
    BY <1>1, <1>3, BlockShapes DEF LhsInPlace
  <2>4. m = 1 => r = "SUBPROG"
    BY <1>1, <1>3, BlockShapes DEF BlocksInPlace
  <2>5. m # 2
    BY <1>1, <1>3, BlockShapes DEF BlocksInPlace
  <2>6. m = 3 => r \in {"PROC", "EPROC"}
    BY <1>1, <1>3, BlockShapes DEF BlocksInPlace
  <2> QED BY <2>2, <2>3, <2>4, <2>5, <2>6
<1>13. OneProcedure(items')
  BY <1>1 DEF OneProcedure, n
<1>14. Ended(items) => Ended(items')
  <2> SUFFICES ASSUME Ended(items) PROVE Ended(items')
    OBVIOUS
  <2>1. r = "PROG"
    BY <1>1 DEF Ended, n
  <2>2. q = "PL0"
    BY <1>1, <1>3, <1>4, <2>1, BlockShapes DEF BlocksInPlace
  <2> QED BY <1>11, <2>2
<1>15. r \notin {"PROC", "EPROC"} => ~Leaving(items)
  BY <1>9
<1>16. r = "SUBPROG" => Ended(items') \/ Leaving(items')
  <2> SUFFICES ASSUME r = "SUBPROG" PROVE Ended(items') \/ Leaving(items')
    OBVIOUS
  <2>1. q = "PROG" \/ (q = "PROC" /\ m + 1 = 2)
    BY <1>1, <1>3, <1>4, BlockShapes DEF BlocksInPlace
  <2>2. q = "PROC" => m >= 1
    BY <1>12
  <2> QED BY <1>6, <1>7, <1>11, <2>1, <2>2
<1>17. r = "PROC" => Leaving(items) /\ ~Leaving(items')
  <2> SUFFICES ASSUME r = "PROC" PROVE Leaving(items) /\ ~Leaving(items')
    OBVIOUS
  <2>1. q # "PROC"
    BY <1>5, <1>10, <1>12
  <2> QED BY <1>6, <1>7, <1>9, <2>1
<1>18. r \notin {"PROC", "SUBPROG"} => (Leaving(items') <=> Leaving(items))
  BY <1>5, <1>6, <1>7, <1>9, <1>12
<1> QED BY <1>13, <1>14, <1>15, <1>16, <1>17, <1>18
----------------------------------------------------------------------------
(***************************************************************************)
(* The layers of the symbol table.                                         *)
(***************************************************************************)

\* The entry point of the procedure that layer d is the block of.
BlockOf(ls, d) == IF d = 1 THEN 0 ELSE ls[d - 1][1].address

ProceduresOf(layer) ==
  {layer[i].address : i \in {j \in DOMAIN layer : layer[j].type = "PROCEDURE"}}

\* What every layer is.
LEMMA LayersTyped ==
  ASSUME Table!IInv
  PROVE  /\ layers \in Seq(Seq(Table!Entries)) /\ Len(layers) \in Nat /\ Len(layers) >= 1
         /\ Table!depth = Len(layers) /\ cur \in 0..Len(layers[Len(layers)])
         /\ \A d \in 1..(Len(layers) - 1) : layers[d] # <<>> /\ layers[d][1].type = "PROCEDURE"
BY DEF Table!IInv, Table!TypeOK, Table!EnclosedByProcedure, Table!depth, Table!Layer

\* Declaring a constant or a variable opens no block and adds no procedure.
LEMMA DeclarationsOpenNothing ==
  ASSUME Table!IInv, NEW name, NEW x,
         Table!insertVariable(name, x) \/ Table!insertConstant(name, x)
  PROVE  /\ Len(layers') = Len(layers)
         /\ \A d \in 1..Len(layers) :
              BlockOf(layers', d) = BlockOf(layers, d) /\ ProceduresOf(layers'[d]) \subseteq ProceduresOf(layers[d])
<1> DEFINE n == Len(layers)
           old == layers[n]
<1>1. /\ layers \in Seq(Seq(Table!Entries)) /\ n \in Nat /\ n >= 1
      /\ Table!depth = n /\ cur \in 0..Len(old) /\ old \in Seq(Table!Entries)
  BY LayersTyped
<1>2. CASE UNCHANGED layers
  BY <1>2 DEF BlockOf
<1>3. ASSUME NEW new, layers' = [layers EXCEPT ![n] = new], ProceduresOf(new) \subseteq ProceduresOf(old)
      PROVE  /\ Len(layers') = n
             /\ \A d \in 1..n : BlockOf(layers', d) = BlockOf(layers, d)
                                /\ ProceduresOf(layers'[d]) \subseteq ProceduresOf(layers[d])
  <2>1. Len(layers') = n /\ layers'[n] = new /\ \A d \in 1..(n - 1) : layers'[d] = layers[d]
    BY <1>1, <1>3
  <2>2. \A d \in 1..n : BlockOf(layers', d) = BlockOf(layers, d)
    BY <1>1, <2>1 DEF BlockOf
  <2>3. ASSUME NEW d \in 1..n PROVE ProceduresOf(layers'[d]) \subseteq ProceduresOf(layers[d])
    BY <1>1, <1>3, <2>1
  <2> QED BY <2>1, <2>2, <2>3
<1>4. CASE Table!insertVariable(name, x)
  <2> DEFINE e == [name |-> name, type |-> "VARIABLE", address |-> Table!SlotBehindCur(x)]
             new == Append(SubSeq(old, 1, cur), e)
  <2>1. UNCHANGED layers \/ layers' = [layers EXCEPT ![n] = new]
    BY <1>1, <1>4 DEF Table!insertVariable, Table!BehindCur, Table!vars
  <2>2. \A i \in DOMAIN new : (i \in DOMAIN old /\ new[i] = old[i]) \/ new[i].type = "VARIABLE"
    <3> HIDE DEF e, old
    <3>1. Len(new) = cur + 1 /\ new[cur + 1] = e /\ \A i \in 1..cur : new[i] = old[i]
      BY <1>1
    <3>2. DOMAIN new = 1..(cur + 1) /\ DOMAIN old = 1..Len(old) /\ Len(old) \in Nat
      BY <1>1
    <3>3. e.type = "VARIABLE"
      BY DEF e
    <3> QED BY <1>1, <3>1, <3>2, <3>3
  <2> HIDE DEF new
  <2>3. ProceduresOf(new) \subseteq ProceduresOf(old)
    BY <2>2 DEF ProceduresOf
  <2> QED BY <1>2, <1>3, <2>1, <2>3
<1>5. CASE Table!insertConstant(name, x)
  <2> DEFINE e == [name |-> name, type |-> "CONSTANT", value |-> x]
             new == <<e>> \o old
  <2>1. UNCHANGED layers \/ layers' = [layers EXCEPT ![n] = new]
    BY <1>1, <1>5 DEF Table!insertConstant, Table!AtHead, Table!vars
  <2>2. \A i \in DOMAIN new : (i - 1 \in DOMAIN old /\ new[i] = old[i - 1]) \/ new[i].type = "CONSTANT"
    <3> HIDE DEF e, old
    <3>1. /\ Len(new) = Len(old) + 1 /\ new[1] = e /\ DOMAIN new = 1..Len(new)
          /\ \A i \in 2..(Len(old) + 1) : new[i] = old[i - 1]
          /\ DOMAIN old = 1..Len(old) /\ Len(old) \in Nat
      BY <1>1
    <3>2. e.type = "CONSTANT"
      BY DEF e
    <3> QED BY <1>1, <3>1, <3>2
  <2> HIDE DEF new
  <2>3. ProceduresOf(new) \subseteq ProceduresOf(old)
    BY <2>2 DEF ProceduresOf
  <2> QED BY <1>2, <1>3, <2>1, <2>3
<1> QED BY <1>4, <1>5

\* Declaring a procedure opens its block.
LEMMA ProcedureOpensBlock ==
  ASSUME Table!IInv, NEW name, NEW a, ~Table!isDuplicated(name), Table!insertProcedure(name, a)
  PROVE  LET n == Len(layers)
         IN  /\ Len(layers') = n + 1
             /\ \A d \in 1..n : BlockOf(layers', d) = BlockOf(layers, d)
             /\ BlockOf(layers', n + 1) = a
             /\ \A d \in 1..(n - 1) : layers'[d] = layers[d]
             /\ ProceduresOf(layers'[n]) = ProceduresOf(layers[n]) \cup {a}
             /\ ProceduresOf(layers'[n + 1]) = {}
             /\ layers'[n] = <<[name |-> name, type |-> "PROCEDURE", address |-> a]>> \o layers[n]
             /\ layers'[n + 1] = <<>>
<1> DEFINE n == Len(layers)
           old == layers[n]
           e == [name |-> name, type |-> "PROCEDURE", address |-> a]
           new == <<e>> \o old
           outer == [layers EXCEPT ![n] = new]
<1>1. /\ layers \in Seq(Seq(Table!Entries)) /\ n \in Nat /\ n >= 1
      /\ Table!depth = n /\ old \in Seq(Table!Entries)
  BY LayersTyped
<1>2. layers' = Append(outer, <<>>)
  BY <1>1 DEF Table!insertProcedure, Table!AtHead
<1>3. /\ Len(new) = Len(old) + 1 /\ new[1] = e /\ DOMAIN new = 1..Len(new)
      /\ \A i \in 2..(Len(old) + 1) : new[i] = old[i - 1]
      /\ DOMAIN old = 1..Len(old) /\ Len(old) \in Nat
      /\ e.type = "PROCEDURE" /\ e.address = a
  BY <1>1
<1> HIDE DEF e, old
<1> DEFINE All == Table!Entries \cup {e}
<1>12. new \in Seq(All) /\ layers \in Seq(Seq(All))
  <2>1. e \in All /\ Table!Entries \subseteq All
    OBVIOUS
  <2> HIDE DEF All
  <2>2. Seq(Table!Entries) \subseteq Seq(All)
    BY <2>1
  <2>3. old \in Seq(All)
    BY <1>1, <2>2
  <2>4. \A d \in 1..n : layers[d] \in Seq(All)
    BY <1>1, <2>2
  <2> QED BY <1>1, <2>1, <2>3, <2>4 DEF new
<1> HIDE DEF All, new
<1>4. /\ Len(outer) = n /\ outer[n] = new /\ \A d \in 1..(n - 1) : outer[d] = layers[d]
  BY <1>1
<1>5. outer \in Seq(Seq(All))
  BY <1>1, <1>12
<1> HIDE DEF outer
<1>6. /\ Len(layers') = n + 1 /\ layers'[n + 1] = <<>>
      /\ \A d \in 1..n : layers'[d] = outer[d]
  BY <1>1, <1>2, <1>4, <1>5
<1>7. /\ layers'[n] = new /\ \A d \in 1..(n - 1) : layers'[d] = layers[d]
  <2> HIDE DEF n
  <2>1. n \in 1..n /\ 1..(n - 1) \subseteq 1..n
    BY <1>1
  <2> QED BY <1>4, <1>6, <2>1
<1>8. \A d \in 1..n : BlockOf(layers', d) = BlockOf(layers, d)
  BY <1>1, <1>7 DEF BlockOf
<1>9. BlockOf(layers', n + 1) = a
  <2> HIDE DEF n
  <2>1. n + 1 # 1 /\ (n + 1) - 1 = n
    BY <1>1
  <2> QED BY <1>3, <1>7, <2>1 DEF BlockOf
<1>10. ProceduresOf(new) = ProceduresOf(old) \cup {a}
  <2>1. \A i \in DOMAIN old : i + 1 \in DOMAIN new /\ new[i + 1] = old[i]
    BY <1>3
  <2>2. \A i \in DOMAIN new : i = 1 \/ (i - 1 \in DOMAIN old /\ new[i] = old[i - 1])
    BY <1>3
  <2>3. ProceduresOf(old) \subseteq ProceduresOf(new)
    BY <2>1 DEF ProceduresOf
  <2>4. ProceduresOf(new) \subseteq ProceduresOf(old) \cup {a}
    BY <1>3, <2>2 DEF ProceduresOf
  <2>5. a \in ProceduresOf(new)
    <3>1. 1 \in DOMAIN new /\ new[1].type = "PROCEDURE" /\ new[1].address = a
      BY <1>3
    <3> QED BY <3>1 DEF ProceduresOf
  <2> QED BY <2>3, <2>4, <2>5
<1>11. ProceduresOf(<<>>) = {}
  BY DEF ProceduresOf
<1>13. new = <<[name |-> name, type |-> "PROCEDURE", address |-> a]>> \o old
  BY DEF new, e
<1> QED BY <1>6, <1>7, <1>8, <1>9, <1>10, <1>11, <1>13 DEF old

\* The end of a procedure closes its block.
LEMMA AscendClosesBlock ==
  ASSUME Table!IInv, Len(layers) >= 2, Table!ascend
  PROVE  /\ Len(layers') = Len(layers) - 1
         /\ \A d \in 1..(Len(layers) - 1) : layers'[d] = layers[d] /\ BlockOf(layers', d) = BlockOf(layers, d)
<1> DEFINE n == Len(layers)
<1>1. layers \in Seq(Seq(Table!Entries)) /\ n \in Nat /\ Table!depth = n
  BY LayersTyped
<1>2. layers' = SubSeq(layers, 1, n - 1)
  <2>1. n # 1
    BY SMTT(60), <1>1
  <2> QED BY <1>1, <2>1 DEF Table!ascend
<1>3. Len(layers') = n - 1 /\ \A d \in 1..(n - 1) : layers'[d] = layers[d]
  BY <1>1, <1>2
<1>4. \A d \in 1..(n - 1) : BlockOf(layers', d) = BlockOf(layers, d)
  <2> HIDE DEF n
  <2>1. \A d \in 1..(n - 1) : d # 1 => d - 1 \in 1..(n - 1)
    BY <1>1
  <2> QED BY <1>3, <2>1 DEF BlockOf
<1> QED BY <1>3, <1>4
----------------------------------------------------------------------------
(***************************************************************************)
(* The code.                                                               *)
(***************************************************************************)

\* Address a of code c, with owners o, is where a procedure declared in the
\* block that blocks lead to starts.
Entered(c, o, a, blocks) ==
  /\ a \in 0..(Len(c) - 1)
  /\ c[a + 1].type = "INT"
  /\ o[a + 1] = Append(blocks, a)

\* Code d with owners p continues c with owners o: instructions are added and
\* operands filled in, but not those of calls.
Continues(c, o, d, p) ==
  /\ d \in Seq(Instructions) /\ p \in Seq(Seq(Nat)) /\ Len(p) = Len(d) /\ Len(d) >= Len(c)
  /\ \A k \in 1..Len(c) : /\ p[k] = o[k] /\ d[k].type = c[k].type
                          /\ c[k].type = "CAL" => d[k] = c[k]

\* Every instruction has its blocks, and the main program its first two.
Owned ==
  /\ owner \in Seq(Seq(Nat)) /\ open \in Seq(Nat)
  /\ Len(owner) = Len(code) /\ Len(code) >= 2
  /\ code[1].type = "INT" /\ code[2].type = "JMP"

\* Instructions without a call among them.
CallFree(e) == \A k \in 1..Len(e) : e[k].type # "CAL"

\* Where a procedure starts it still starts when the code goes on.
LEMMA EnteredForever ==
  ASSUME NEW c, Len(c) \in Nat, NEW o, NEW d, NEW p, Continues(c, o, d, p),
         NEW a, NEW blocks, Entered(c, o, a, blocks)
  PROVE  Entered(d, p, a, blocks)
<1>1. a \in 0..(Len(c) - 1) /\ Len(d) \in Nat /\ Len(d) >= Len(c)
  BY DEF Entered, Continues
<1>2. a + 1 \in 1..Len(c) /\ a \in 0..(Len(d) - 1)
  BY <1>1
<1> QED BY <1>2 DEF Entered, Continues

\* The owners of two pieces of code, one behind the other.
LEMMA OwnersJoined ==
  ASSUME NEW o \in Seq(Seq(Nat)), NEW q \in Seq(Seq(Nat))
  PROVE  /\ o \o q \in Seq(Seq(Nat)) /\ Len(o \o q) = Len(o) + Len(q)
         /\ \A k \in 1..Len(o) : (o \o q)[k] = o[k]
         /\ \A k \in 1..Len(q) : (o \o q)[Len(o) + k] = q[k]
OBVIOUS

\* Code goes on when instructions are added ...
LEMMA AddedContinues ==
  ASSUME NEW c \in Seq(Instructions), NEW o \in Seq(Seq(Nat)), Len(o) = Len(c),
         NEW e \in Seq(Instructions), NEW q \in Seq(Seq(Nat)), Len(q) = Len(e)
  PROVE  /\ Continues(c, o, c \o e, o \o q)
         /\ Len(c \o e) = Len(c) + Len(e)
         /\ \A k \in 1..Len(e) : (c \o e)[Len(c) + k] = e[k] /\ (o \o q)[Len(c) + k] = q[k]
<1>1. /\ c \o e \in Seq(Instructions) /\ Len(c \o e) = Len(c) + Len(e)
      /\ \A k \in 1..Len(c) : (c \o e)[k] = c[k]
      /\ \A k \in 1..Len(e) : (c \o e)[Len(c) + k] = e[k]
  OBVIOUS
<1>2. /\ o \o q \in Seq(Seq(Nat)) /\ Len(o \o q) = Len(o) + Len(q)
      /\ \A k \in 1..Len(o) : (o \o q)[k] = o[k]
      /\ \A k \in 1..Len(q) : (o \o q)[Len(o) + k] = q[k]
  BY OwnersJoined
<1>3. Len(c) \in Nat /\ Len(e) \in Nat
  OBVIOUS
<1> QED BY <1>1, <1>2, <1>3 DEF Continues

\* ... and when an operand is filled in where there is no call.
LEMMA FilledContinues ==
  ASSUME NEW c, Len(c) \in Nat, NEW o, NEW d, NEW p, Continues(c, o, d, p),
         NEW a \in 0..(Len(d) - 1), d[a + 1].type # "CAL", NEW x \in Int
  PROVE  /\ Continues(c, o, Backfill(d, a, x), p) /\ Len(Backfill(d, a, x)) = Len(d)
         /\ \A k \in 1..Len(d) : Backfill(d, a, x)[k].type = d[k].type
<1> DEFINE e == Backfill(d, a, x)
<1>1. d \in Seq(Instructions) /\ Len(d) \in Nat /\ Len(d) >= Len(c)
  BY DEF Continues
<1>2. /\ e \in Seq(Instructions) /\ Len(e) = Len(d) /\ e[a + 1].type = d[a + 1].type
      /\ \A b \in 0..(Len(d) - 1) : b # a => e[b + 1] = d[b + 1]
  <2> HIDE DEF e
  <2>1. d \in Seq(Instructions) /\ a \in 0..(Len(d) - 1) /\ x \in Int
    BY <1>1
  <2>2. /\ Backfill(d, a, x) \in Seq(Instructions) /\ Len(Backfill(d, a, x)) = Len(d)
        /\ Backfill(d, a, x)[a + 1].type = d[a + 1].type
        /\ \A b \in 0..(Len(d) - 1) : b # a => Backfill(d, a, x)[b + 1] = d[b + 1]
    BY ONLY <2>1, Filled
  <2> QED BY <2>2 DEF e
<1> HIDE DEF e
<1>3. \A k \in 1..Len(d) : k # a + 1 => e[k] = d[k]
  <2> SUFFICES ASSUME NEW k \in 1..Len(d), k # a + 1 PROVE e[k] = d[k]
    OBVIOUS
  <2>1. k - 1 \in 0..(Len(d) - 1) /\ k - 1 # a /\ (k - 1) + 1 = k
    BY <1>1
  <2> QED BY <1>2, <2>1
<1>4. \A k \in 1..Len(d) : e[k].type = d[k].type /\ (d[k].type = "CAL" => e[k] = d[k])
  BY <1>2, <1>3
<1>5. \A k \in 1..Len(c) : k \in 1..Len(d)
  BY <1>1
<1> QED BY <1>1, <1>2, <1>4, <1>5 DEF Continues, e

\* The calls that are there lead where they should, and new ones do.
LEMMA LinksContinue ==
  ASSUME Owned, StaticLinks, code \in Seq(Instructions), Continues(code, owner, code', owner'),
         clean' => clean, open' \in Seq(Nat),
         \A k \in (Len(code) + 1)..Len(code') : clean' /\ code'[k].type = "CAL" =>
           Entered(code, owner, code'[k].a, Outward(owner'[k], code'[k].l))
  PROVE  /\ Owned' /\ StaticLinks'
         /\ \A a, blocks : Entered(code, owner, a, blocks) => Entered(code', owner', a, blocks)
<1> DEFINE n == Len(code)
           m == Len(code')
<1>1. /\ n \in Nat /\ m \in Nat /\ m >= n /\ n >= 2
      /\ owner' \in Seq(Seq(Nat)) /\ code' \in Seq(Instructions) /\ Len(owner') = m
      /\ \A k \in 1..n : /\ owner'[k] = owner[k] /\ code'[k].type = code[k].type
                         /\ code[k].type = "CAL" => code'[k] = code[k]
  BY DEF Continues, Owned
<1>2. \A a, blocks : Entered(code, owner, a, blocks) => Entered(code', owner', a, blocks)
  BY <1>1, EnteredForever
<1>3. Owned'
  <2>1. 1 \in 1..n /\ 2 \in 1..n
    BY <1>1
  <2> QED BY <1>1, <2>1 DEF Owned
<1>4. StaticLinks'
  <2> SUFFICES ASSUME clean', NEW k \in 1..m, code'[k].type = "CAL"
               PROVE  Entered(code', owner', code'[k].a, Outward(owner'[k], code'[k].l))
    <3>1. DOMAIN code' = 1..m
      BY <1>1
    <3> QED BY <3>1 DEF StaticLinks, Entered, Addresses, At, length
  <2>1. CASE k \in 1..n
    <3>1. code[k].type = "CAL" /\ code'[k] = code[k] /\ owner'[k] = owner[k] /\ k \in DOMAIN code
      BY <1>1, <2>1
    <3>2. Entered(code, owner, code[k].a, Outward(owner[k], code[k].l))
      BY <3>1 DEF StaticLinks, Entered, Addresses, At, length
    <3> QED BY <1>2, <3>1, <3>2
  <2>2. CASE k \notin 1..n
    <3>1. k \in (n + 1)..m
      BY <1>1, <2>2
    <3> QED BY <1>2, <3>1
  <2> QED BY <2>1, <2>2
<1> QED BY <1>2, <1>3, <1>4
----------------------------------------------------------------------------
(***************************************************************************)
(* The inductive invariant.                                                *)
(***************************************************************************)

\* The layers are the blocks the source is in, but for the procedure whose
\* block has been left: its layer is closed when the rule PROC is reduced.
Gap(its) == IF Leaving(its) THEN 1 ELSE 0
Aligned ==
  /\ Len(layers) = 1 + Depth(items, "PROC")
  /\ ~Ended(items) => Len(open) + Gap(items) = Len(layers)
  /\ Len(open) <= Len(layers)

BlocksMatch == \A d \in 1..Len(open) : open[d] = BlockOf(layers, d)

\* The procedures in a layer start where their entry says, and were declared
\* in the layer's block.
ProceduresEntered ==
  \A d \in 1..Len(open) : \A a \in ProceduresOf(layers[d]) :
    Entered(code, owner, a, SubSeq(open, 1, d))

Scoped ==
  status = "parsing" =>
    OneProcedure(items) /\ (clean => Aligned /\ BlocksMatch /\ ProceduresEntered)

SInv == Owned /\ StaticLinks /\ Scoped
----------------------------------------------------------------------------
(***************************************************************************)
(* Every action preserves the invariant.                                   *)
(***************************************************************************)

\* Whatever was entered still is.
Preserved ==
  \A a, blocks : Entered(code, owner, a, blocks) => Entered(code', owner', a, blocks)

\* A step that opens and closes no block.
LEMMA ScopesKept ==
  ASSUME SInv, status = "parsing", Table!IInv, Preserved, UNCHANGED open, clean' => clean,
         OneProcedure(items'), Depth(items', "PROC") = Depth(items, "PROC"),
         Leaving(items') <=> Leaving(items), Ended(items) => Ended(items'),
         Len(layers') = Len(layers),
         \A d \in 1..Len(layers) : /\ BlockOf(layers', d) = BlockOf(layers, d)
                                   /\ ProceduresOf(layers'[d]) \subseteq ProceduresOf(layers[d])
  PROVE  Scoped'
<1> SUFFICES ASSUME clean' PROVE Aligned' /\ BlocksMatch' /\ ProceduresEntered'
  BY DEF Scoped
<1>1. Aligned /\ BlocksMatch /\ ProceduresEntered
  BY DEF SInv, Scoped
<1>2. Len(layers) \in Nat /\ Len(open) \in Nat
  BY LayersTyped DEF SInv, Owned
<1>3. Aligned'
  BY <1>1 DEF Aligned, Gap
<1>4. 1..Len(open) \subseteq 1..Len(layers)
  BY <1>1, <1>2 DEF Aligned
<1>5. BlocksMatch'
  BY <1>1, <1>4 DEF BlocksMatch
<1>6. ProceduresEntered'
  BY <1>1, <1>4 DEF ProceduresEntered, Preserved
<1> QED BY <1>3, <1>5, <1>6

\* A reduction that does not end the source's block, and changes no layer.
LEMMA ReductionKeepsScopes ==
  ASSUME IInv, SInv, Reading, Complete, r \notin {"PL0", "PROC", "PROCH", "SUBPROG"},
         (\E value \in ValuesOf(lhs(r)) : Return(value)) \/ status' = "crashed",
         Preserved, UNCHANGED open, clean' => clean, Len(layers') = Len(layers),
         \A d \in 1..Len(layers) : /\ BlockOf(layers', d) = BlockOf(layers, d)
                                   /\ ProceduresOf(layers'[d]) \subseteq ProceduresOf(layers[d])
  PROVE  Scoped'
<1> SUFFICES ASSUME NEW value \in ValuesOf(lhs(r)), Return(value) PROVE Scoped'
  BY DEF Scoped
<1>1. status = "parsing" /\ OnTrack(items) /\ Table!IInv /\ OneProcedure(items)
  BY DEF Reading, IInv, SInv, Scoped
<1>2. HasDepth /\ Tracked
  BY <1>1, DepthsAreNatural, AfterReturn
<1>3. Depth(items', "PROC") = Depth(items, "PROC")
  BY <1>2 DEF Tracked, HasDepth, Change
<1>4. /\ OneProcedure(items')
      /\ Ended(items) => Ended(items')
      /\ Leaving(items') <=> Leaving(items)
  <2>1. items' = Recognized(Front(items), value)
    BY DEF Return
  <2> QED BY <1>1, <2>1, AfterReduction
<1> QED BY <1>1, <1>3, <1>4, ScopesKept

\* The layers stay.
LEMMA LayersKept ==
  ASSUME UNCHANGED symbols
  PROVE  /\ Len(layers') = Len(layers)
         /\ \A d \in 1..Len(layers) : /\ BlockOf(layers', d) = BlockOf(layers, d)
                                      /\ ProceduresOf(layers'[d]) \subseteq ProceduresOf(layers[d])
BY DEF symbols

\* The code stays.
LEMMA CodeKept ==
  ASSUME SInv, UNCHANGED <<code, owner>>, clean' => clean, open' \in Seq(Nat)
  PROVE  Owned' /\ StaticLinks' /\ Preserved
<1>1. Preserved
  BY DEF Preserved
<1>2. Owned'
  BY DEF SInv, Owned
<1>3. StaticLinks'
  BY DEF SInv, StaticLinks, Addresses, At, length
<1> QED BY <1>1, <1>2, <1>3

\* The instructions that the innermost block's statement consists of.
LEMMA CodeEmitted ==
  ASSUME IInv, SInv, status = "parsing", NEW e \in Seq(Instructions), insert(e),
         UNCHANGED open, clean' => clean,
         \A k \in 1..Len(e) : clean' /\ e[k].type = "CAL" =>
           Entered(code, owner, e[k].a, Outward(open, e[k].l))
  PROVE  Owned' /\ StaticLinks' /\ Preserved
<1> DEFINE q == [k \in 1..Len(e) |-> open]
<1>1. Owned /\ StaticLinks /\ code \in Seq(Instructions)
  BY DEF SInv, IInv, StacksTyped
<1>2. /\ q \in Seq(Seq(Nat)) /\ Len(q) = Len(e) /\ \A k \in 1..Len(e) : q[k] = open
  <2>1. open \in Seq(Nat) /\ Len(e) \in Nat
    BY <1>1 DEF Owned
  <2>2. \A S : \A n \in Nat : \A x \in S : /\ [k \in 1..n |-> x] \in Seq(S)
                                            /\ Len([k \in 1..n |-> x]) = n
    OBVIOUS
  <2> QED BY <2>1, <2>2
<1>3. code' = code \o e /\ owner' = owner \o q
  BY DEF insert
<1> HIDE DEF q
<1>4. /\ Continues(code, owner, code', owner') /\ Len(code') = Len(code) + Len(e)
      /\ \A k \in 1..Len(e) : code'[Len(code) + k] = e[k] /\ owner'[Len(code) + k] = open
  <2>1. /\ code \in Seq(Instructions) /\ owner \in Seq(Seq(Nat)) /\ Len(owner) = Len(code)
        /\ e \in Seq(Instructions)
    BY <1>1 DEF Owned
  <2>2. /\ Continues(code, owner, code \o e, owner \o q)
        /\ Len(code \o e) = Len(code) + Len(e)
        /\ \A k \in 1..Len(e) : /\ (code \o e)[Len(code) + k] = e[k]
                                  /\ (owner \o q)[Len(code) + k] = q[k]
    BY ONLY <1>2, <2>1, AddedContinues
  <2> QED BY <1>2, <1>3, <2>2
<1>5. ASSUME NEW k \in (Len(code) + 1)..Len(code'), clean', code'[k].type = "CAL"
      PROVE  Entered(code, owner, code'[k].a, Outward(owner'[k], code'[k].l))
  <2> DEFINE j == k - Len(code)
  <2>1. Len(code) \in Nat /\ Len(e) \in Nat
    BY <1>1
  <2>2. j \in 1..Len(e) /\ k = Len(code) + j
    BY <1>4, <2>1
  <2> HIDE DEF j
  <2>3. code'[k] = e[j] /\ owner'[k] = open
    BY <1>4, <2>2
  <2> QED BY <1>5, <2>2, <2>3
<1>6. open' \in Seq(Nat)
  BY <1>1 DEF Owned
<1> QED BY <1>1, <1>4, <1>5, <1>6, LinksContinue DEF Preserved

\* A rule begins.
LEMMA ExpandKeepsScopes ==
  ASSUME ~Siblings, IInv, SInv, NEW p \in Productions, Expand(p)
  PROVE  SInv'
<1>1. /\ status = "parsing" /\ OnTrack(items) /\ Table!IInv /\ OneProcedure(items)
      /\ p \in DOMAIN Rules /\ ~Complete /\ Upcoming = lhs(p)
      /\ items' = Append(items, Item(p, <<>>))
      /\ p = "PROC" => r # "PROC"
  BY AssemblerAssumption DEF Expand, Reading, IInv, SInv, Scoped, lhs
<1>2. UNCHANGED <<code, owner, open, clean, symbols>>
  BY DEF Expand, errorFree
<1>3. Owned' /\ StaticLinks' /\ Preserved
  BY <1>2, CodeKept DEF SInv, Owned
<1>4. \A q : Begun(items', q) = Begun(items, q)
  BY <1>1, Expanded
<1>5. /\ OneProcedure(items')
      /\ Leaving(items') <=> Leaving(items)
      /\ ~Ended(items)
  BY <1>1, AfterExpand
<1>6. Scoped'
  BY <1>1, <1>2, <1>3, <1>4, <1>5, LayersKept, ScopesKept DEF Depth
<1> QED BY <1>3, <1>6 DEF SInv

\* A terminal is read.
LEMMA ShiftKeepsScopes ==
  ASSUME IInv, SInv, Shift
  PROVE  SInv'
<1>1. /\ status = "parsing" /\ OnTrack(items) /\ Table!IInv /\ OneProcedure(items)
      /\ ~Complete /\ Upcoming \in Terminals
  BY DEF Shift, Reading, IInv, SInv, Scoped
<1>2. PICK token \in Tokens(Upcoming) : items' = Recognized(items, token)
  BY DEF Shift
<1>3. UNCHANGED <<code, owner, open, clean, symbols>>
  BY DEF Shift, errorFree, nesting
<1>4. Owned' /\ StaticLinks' /\ Preserved
  BY <1>3, CodeKept DEF SInv, Owned
<1>5. \A p, h : Headed(p, h) => Depth(items', p) = Depth(items, p)
  BY <1>1, <1>2, Shifted
<1>6. /\ OneProcedure(items')
      /\ Leaving(items') <=> Leaving(items)
      /\ Ended(items') <=> Ended(items)
  BY <1>1, <1>2, AfterShift
<1>7. Scoped'
  BY <1>1, <1>3, <1>4, <1>5, <1>6, HeadedRules, LayersKept, ScopesKept
<1> QED BY <1>4, <1>7 DEF SInv

\* An action that calls nothing and leaves the symbol table alone.
LEMMA QuietReduction ==
  ASSUME IInv, SInv, Reading, Complete, r \notin {"PL0", "PROC", "PROCH", "SUBPROG"},
         (\E value \in ValuesOf(lhs(r)) : Return(value)) \/ status' = "crashed",
         UNCHANGED <<symbols, open, clean>>, NEW e \in Seq(Instructions), CallFree(e), insert(e)
  PROVE  SInv'
<1>1. status = "parsing"
  BY DEF Reading
<1>2. \A k \in 1..Len(e) : e[k].type # "CAL"
  BY DEF CallFree
<1>3. Owned' /\ StaticLinks' /\ Preserved
  BY <1>1, <1>2, CodeEmitted
<1>4. Scoped'
  BY <1>3, LayersKept, ReductionKeepsScopes
<1> QED BY <1>3, <1>4 DEF SInv

\* Loads, stores, operations and literals call nothing (Assembler.h:104-176).
LEMMA NamesCallFree ==
  ASSUME Table!IInv, NEW name
  PROVE  /\ CallFree(load_id(name)) /\ CallFree(store_id(name))
         /\ CallFree(read_id(name)) /\ CallFree(write_id(name))
         /\ \A id : CallFree(insert_opr(id)) /\ \A x : CallFree(load_number(x))
<1>1. \A i : i.type # "CAL" => CallFree(<<i>>)
  BY DEF CallFree
<1>2. CallFree(<<>>)
  BY DEF CallFree
<1>3. \A type, l, a : inst_t(type, l, a).type = type
  BY DEF inst_t
<1>4. /\ \A id : CallFree(insert_opr(id))
      /\ \A x : CallFree(load_number(x))
  BY <1>1, <1>2, <1>3 DEF insert_opr, load_number
<1>5. \A type : Access(type, name).type = type
  BY <1>3 DEF Access
<1>6. CallFree(store_id(name)) /\ CallFree(load_id(name))
  BY <1>1, <1>2, <1>4, <1>5 DEF store_id, load_id
<1>7. ASSUME NEW c, NEW d, Solid(c), Solid(d), CallFree(c), CallFree(d)
      PROVE  CallFree(c \o d)
  <2>1. c \in Seq(Instructions) /\ d \in Seq(Instructions)
    BY <1>7 DEF Solid
  <2>2. /\ Len(c) \in Nat /\ Len(d) \in Nat /\ Len(c \o d) = Len(c) + Len(d)
        /\ \A k \in 1..Len(c) : (c \o d)[k] = c[k]
        /\ \A k \in 1..Len(d) : (c \o d)[Len(c) + k] = d[k]
    BY <2>1
  <2>3. \A k \in 1..Len(c \o d) :
          k \in 1..Len(c) \/ (k - Len(c) \in 1..Len(d) /\ k = Len(c) + (k - Len(c)))
    BY <2>2
  <2> QED BY <1>7, <2>2, <2>3 DEF CallFree
<1>8. Solid(insert_opr(OPR_RD)) /\ Solid(insert_opr(OPR_WR)) /\ Solid(store_id(name)) /\ Solid(load_id(name))
  BY Operations, NamesLoaded DEF OPR_RD, OPR_WR
<1>9. CallFree(read_id(name)) /\ CallFree(write_id(name))
  BY <1>2, <1>4, <1>6, <1>7, <1>8 DEF read_id, write_id
<1> QED BY <1>4, <1>6, <1>9

\* What the simple statements and factors emit, but for a call.
LEMMA EmittedCallFree ==
  ASSUME OnTrack(items), Table!IInv, Complete, r \in Simple, r # "CALL"
  PROVE  CallFree(Emitted)
<1>1. \A x : CallFree(load_number(x)) /\ \A id : CallFree(insert_opr(id))
  BY NamesCallFree
<1>2. ASSUME NEW value PROVE CallFree(Written(value)) /\ Solid(Written(value))
  BY <1>1, NamesCallFree, NamesLoaded, Operations DEF Written, OPR_WR
<1>3. CASE r = "READ"
  BY <1>3, NamesCallFree DEF Emitted
<1>4. CASE r = "OPTRDID"
  BY <1>4, NamesCallFree DEF Emitted
<1>5. CASE r = "WRITE"
  <2> DEFINE c == Written(v[4])
             d == insert_opr(OPR_NL)
  <2>1. /\ c \in Seq(Instructions) /\ d \in Seq(Instructions) /\ CallFree(c) /\ CallFree(d)
    <3>1. Solid(d)
      BY Operations DEF OPR_NL
    <3>2. Solid(c) /\ CallFree(c) /\ CallFree(d)
      BY <1>1, <1>2
    <3> HIDE DEF c, d
    <3> QED BY <3>1, <3>2 DEF Solid
  <2> HIDE DEF c, d
  <2>2. /\ Len(c) \in Nat /\ Len(d) \in Nat /\ Len(c \o d) = Len(c) + Len(d)
        /\ \A k \in 1..Len(c) : (c \o d)[k] = c[k]
        /\ \A k \in 1..Len(d) : (c \o d)[Len(c) + k] = d[k]
    BY <2>1
  <2>3. \A k \in 1..Len(c \o d) :
          k \in 1..Len(c) \/ (k - Len(c) \in 1..Len(d) /\ k = Len(c) + (k - Len(c)))
    BY <2>2
  <2>4. CallFree(c \o d)
    BY <2>1, <2>2, <2>3 DEF CallFree
  <2> QED BY <1>5, <2>4 DEF Emitted, c, d
<1>6. CASE r = "OPTWRID"
  BY <1>2, <1>6 DEF Emitted
<1>7. CASE r = "IDFACTOR"
  BY <1>7, NamesCallFree DEF Emitted
<1>8. CASE r = "NUMFACTOR"
  BY <1>1, <1>8 DEF Emitted
<1> QED BY <1>3, <1>4, <1>5, <1>6, <1>7, <1>8 DEF Simple

\* When a name is looked up, the layers are the blocks around it.
LEMMA LayersAreBlocks ==
  ASSUME IInv, SInv, clean, Reading, Complete,
         r \notin {"PL0", "PROG", "PROC", "EPROC"}
  PROVE  Len(open) = Len(layers) /\ BlocksMatch /\ ProceduresEntered
<1>1. status = "parsing" /\ OnTrack(items) /\ OneProcedure(items) /\ Table!IInv
  BY DEF Reading, IInv, SInv, Scoped
<1>2. Aligned /\ BlocksMatch /\ ProceduresEntered
  BY <1>1 DEF SInv, Scoped
<1>3. Len(items) \in Nat /\ Len(items) >= 1 /\ r = items[Len(items)].rule
  BY <1>1, Innermost
<1>4. ~Leaving(items) /\ ~Ended(items)
  BY <1>3 DEF Leaving, Ended, HasLeft
<1>5. Len(open) \in Nat /\ Len(layers) \in Nat
  BY <1>1, LayersTyped DEF SInv, Owned
<1> QED BY <1>2, <1>4, <1>5 DEF Aligned, Gap

\* A call enters the procedure it names, and its level leads to the block this
\* procedure was declared in (Assembler.h:128).
LEMMA CallsEnter ==
  ASSUME IInv, SInv, clean, Reading, Complete, r = "CALL", NEW name, NEW k \in 1..Len(call_proc(name))
  PROVE  LET call == call_proc(name)[k]
         IN  Entered(code, owner, call.a, Outward(open, call.l))
<1> DEFINE f == Symbol!findEntry(name)
           n == Len(layers)
           d == n - f.level
<1>1. Found(name, {"PROCEDURE"}) /\ call_proc(name) = <<Access("CAL", name)>>
  BY DEF call_proc
<1>2. Table!IInv /\ Table!TypeOK
  BY DEF Reading, IInv, Table!IInv
<1>3. f.level >= 0 /\ f.entry.type = "PROCEDURE"
  BY <1>1 DEF Found
<1>4. /\ f.level \in 0..(n - 1) /\ n \in Nat
      /\ \E i \in DOMAIN layers[n - f.level] : f.entry = layers[n - f.level][i]
  <2>1. Table!NotFound.level = -1
    BY DEF Table!NotFound
  <2>2. f # Table!NotFound
    BY <1>3, <2>1
  <2>3. n \in Nat /\ Table!depth = n
    BY <1>2, LayersTyped
  <2>4. f = Table!findEntry(name)
    BY SameQueries
  <2>5. LET g == Table!findEntry(name)
        IN  \/ g = Table!NotFound
            \/ /\ g.level \in 0..(Table!depth - 1)
               /\ \E i \in DOMAIN layers[Table!depth - g.level] :
                    g.entry = layers[Table!depth - g.level][i]
    BY <1>2, TableAssumptions, Table!FindsClosest
  <2> HIDE DEF f, n
  <2> QED BY <2>2, <2>3, <2>4, <2>5
<1>5. f.entry.address \in ProceduresOf(layers[d])
  BY <1>3, <1>4 DEF ProceduresOf
<1>6. Len(open) = n /\ ProceduresEntered
  BY LayersAreBlocks
<1>7. d \in 1..Len(open)
  BY <1>4, <1>6
<1>8. Entered(code, owner, f.entry.address, SubSeq(open, 1, d))
  BY <1>5, <1>6, <1>7 DEF ProceduresEntered
<1>9. k = 1 /\ call_proc(name)[k] = inst_t("CAL", f.level, f.entry.address)
  BY <1>1 DEF Access
<1> QED BY <1>6, <1>8, <1>9 DEF Outward, inst_t

\* A simple statement or a factor ends.
LEMMA EmitSimpleKeepsScopes ==
  ASSUME IInv, SInv, EmitSimple
  PROVE  SInv'
<1>1. /\ OnTrack(items) /\ Table!IInv /\ Reading /\ Complete /\ r \in Simple /\ status = "parsing"
      /\ insert(Emitted) /\ Return(nullptr) /\ UNCHANGED <<symbols, open, clean>>
  BY DEF IInv, EmitSimple, Reducing, Reading, nesting
<1>2. r \in DOMAIN Rules /\ r \notin DOMAIN oprOf
  BY <1>1, ValuesComplete DEF Simple, oprOf
<1>3. nullptr \in ValuesOf(lhs(r)) /\ r \notin {"PL0", "PROG", "PROC", "EPROC", "PROCH", "SUBPROG"}
  BY <1>1, <1>2, NothingReturned DEF Simple
<1>4. Emitted \in Seq(Instructions)
  BY <1>1, SolidEmitted DEF Solid
<1>5. CASE r # "CALL"
  BY <1>1, <1>3, <1>4, <1>5, EmittedCallFree, QuietReduction
<1>6. CASE r = "CALL"
  <2>1. Emitted = call_proc(v[2].name)
    BY <1>6 DEF Emitted
  <2>2. \A k \in 1..Len(Emitted) : clean' /\ Emitted[k].type = "CAL" =>
          Entered(code, owner, Emitted[k].a, Outward(open, Emitted[k].l))
    BY <1>1, <1>6, <2>1, CallsEnter
  <2>3. Owned' /\ StaticLinks' /\ Preserved
    BY <1>1, <1>4, <2>2, CodeEmitted
  <2>4. Scoped'
    BY <1>1, <1>3, <2>3, LayersKept, ReductionKeepsScopes
  <2> QED BY <2>3, <2>4 DEF SInv
<1> QED BY <1>5, <1>6

\* An operator is read, or applied.
LEMMA OperatorsKeepScopes ==
  ASSUME IInv, SInv, ReadOperator \/ ApplyOperator
  PROVE  SInv'
<1>1. OnTrack(items) /\ Table!IInv /\ Reading /\ Complete /\ UNCHANGED <<symbols, open, clean>>
  BY DEF IInv, ReadOperator, ApplyOperator, Reducing, Reading, nesting, errorFree
<1>2. \A x : CallFree(load_number(x)) /\ \A id : CallFree(insert_opr(id))
  BY <1>1, NamesCallFree
<1>3. CallFree(<<>>)
  BY DEF CallFree
<1>4. CASE ReadOperator
  <2>1. r \in DOMAIN oprOf /\ Return(Operator(oprOf[r])) /\ insert(Minuend)
    BY <1>4 DEF ReadOperator, Reducing
  <2>2. Operator(oprOf[r]) \in ValuesOf(lhs(r))
    BY <2>1, OperatorReturned
  <2>3. Minuend \in Seq(Instructions) /\ CallFree(Minuend)
    BY <1>2, <1>3, NoCode, Literals DEF Minuend, Solid
  <2>4. r \notin {"PL0", "PROC", "PROCH", "SUBPROG"}
    BY <2>1 DEF oprOf
  <2> QED BY <1>1, <2>1, <2>2, <2>3, <2>4, QuietReduction
<1>5. CASE ApplyOperator
  <2>1. /\ r \in {"OPTFACTOR", "OPTEXPRITEM", "FEXPRITEM", "EXPR", "EXPRITEM"}
        /\ Return(HandedOn) /\ insert(Pending(v[1]))
    BY <1>5 DEF ApplyOperator, Reducing
  <2>2. HandedOn \in ValuesOf(lhs(r))
    BY <1>1, <2>1, HandedOnReturned
  <2>3. Pending(v[1]) \in Seq(Instructions) /\ CallFree(Pending(v[1]))
    <3>1. Len(rhs(r)) >= 1
      BY <2>1, ExpressionsRules
    <3>2. Len(rhs(r)) \in Nat
      BY <1>1, Innermost
    <3>3. v[1].desc \in Int
      BY <1>1, <3>1, <3>2, ValuesComplete
    <3> QED BY <1>2, <1>3, <3>3, Operations, NoCode DEF Pending, Solid
  <2>4. r \notin {"PL0", "PROC", "PROCH", "SUBPROG"}
    BY <2>1
  <2> QED BY <1>1, <2>1, <2>2, <2>3, <2>4, QuietReduction
<1> QED BY <1>4, <1>5

\* What the actions that end without returning leave behind, if they go on.
LEMMA NothingOrCrash ==
  ASSUME OnTrack(items), Complete, r \notin DOMAIN oprOf, EndWithoutReturn
  PROVE  (\E value \in ValuesOf(lhs(r)) : Return(value)) \/ status' = "crashed"
<1>1. r \in DOMAIN Rules
  BY ValuesComplete
<1> QED BY <1>1, NothingReturned DEF EndWithoutReturn

\* A condition, an assignment, or the header of an if or a loop is complete.
LEMMA StatementsKeepScopes ==
  ASSUME IInv, SInv, Assertion \/ Assign \/ IfHeader \/ WhileHeader
  PROVE  SInv'
<1>1. /\ OnTrack(items) /\ Table!IInv /\ Reading /\ Complete /\ EndWithoutReturn
      /\ r \in {"ASSERTION", "RASSERTION", "ASSIGN", "CONDHEADER", "WHILEHEADER"}
      /\ UNCHANGED <<symbols, open, clean>>
  BY DEF IInv, Assertion, Assign, IfHeader, WhileHeader, Reducing, Reading, nesting, errorFree
<1>2. (\E value \in ValuesOf(lhs(r)) : Return(value)) \/ status' = "crashed"
  <2>1. r \notin DOMAIN oprOf
    BY <1>1 DEF oprOf
  <2> QED BY <1>1, <2>1, NothingOrCrash
<1>3. r \notin {"PL0", "PROC", "PROCH", "SUBPROG"}
  BY <1>1
<1> SUFFICES \E e \in Seq(Instructions) : CallFree(e) /\ insert(e)
  BY <1>1, <1>2, <1>3, QuietReduction
<1>4. \A x : CallFree(load_number(x)) /\ \A id : CallFree(insert_opr(id))
  BY <1>1, NamesCallFree
<1>5. CASE Assertion
  <2> DEFINE id == IF r = "ASSERTION" THEN v[2].desc ELSE OPR_ODD
  <2>1. insert(insert_opr(id)) /\ r \in {"ASSERTION", "RASSERTION"}
    BY <1>5 DEF Assertion, Reducing
  <2>2. id \in Int
    <3>1. CASE r = "ASSERTION"
      <4>1. Len(rhs(r)) = 3
        BY <3>1, ExpressionsRules
      <4> QED BY <1>1, <3>1, <4>1, ValuesComplete
    <3>2. CASE r # "ASSERTION"
      BY <3>2 DEF OPR_ODD
    <3> QED BY <3>1, <3>2
  <2> HIDE DEF id
  <2>3. insert_opr(id) \in Seq(Instructions)
    BY <2>2, Operations DEF Solid
  <2> QED BY <1>4, <2>1, <2>3
<1>6. CASE Assign
  <2>1. insert(store_id(v[1].name))
    BY <1>6 DEF Assign
  <2>2. store_id(v[1].name) \in Seq(Instructions)
    BY <1>1, NamesLoaded DEF Solid
  <2> QED BY <1>1, <2>1, <2>2, NamesCallFree
<1>7. CASE IfHeader \/ WhileHeader
  <2> DEFINE e == <<inst_t("JPC", 0, 0)>>
  <2>1. insert(e)
    BY <1>7 DEF IfHeader, WhileHeader
  <2>2. CallFree(e)
    BY DEF CallFree, inst_t
  <2>3. e \in Seq(Instructions)
    BY DEF inst_t, Instructions, InstTypes
  <2> QED BY <2>1, <2>2, <2>3
<1> QED BY <1>5, <1>6, <1>7

\* A constant or a variable is declared.
LEMMA DeclareKeepsScopes ==
  ASSUME IInv, SInv, Declare
  PROVE  SInv'
<1>1. /\ OnTrack(items) /\ Table!IInv /\ Reading /\ Complete /\ Return(nullptr)
      /\ r \in {"CONSTDEF", "OPTVARID", "VAR"} /\ UNCHANGED <<code, owner, open, clean>>
  BY DEF IInv, Declare, Reducing, Reading, nesting, errorFree
<1>2. nullptr \in ValuesOf(lhs(r)) /\ r \notin {"PL0", "PROC", "PROCH", "SUBPROG"}
  <2>1. r \in DOMAIN Rules /\ r \notin DOMAIN oprOf
    BY <1>1, ValuesComplete DEF oprOf
  <2> QED BY <1>1, <2>1, NothingReturned
<1>3. Owned' /\ StaticLinks' /\ Preserved
  BY <1>1, CodeKept DEF SInv, Owned
<1>4. Table!insertVariable(v[2].name, 3) \/ Table!insertConstant(v[1].name, v[3].desc)
  BY SameUpdates DEF Declare
<1>5. /\ Len(layers') = Len(layers)
      /\ \A d \in 1..Len(layers) : /\ BlockOf(layers', d) = BlockOf(layers, d)
                                   /\ ProceduresOf(layers'[d]) \subseteq ProceduresOf(layers[d])
  BY <1>1, <1>4, DeclarationsOpenNothing
<1>6. Scoped'
  BY <1>1, <1>2, <1>3, <1>5, ReductionKeepsScopes
<1> QED BY <1>3, <1>6 DEF SInv

\* Sequences that agree have the same beginnings.
LEMMA SameBeginnings ==
  ASSUME NEW S, NEW s \in Seq(S), NEW t \in Seq(S), NEW d \in 0..Len(s), d <= Len(t),
         \A k \in 1..d : s[k] = t[k]
  PROVE  SubSeq(s, 1, d) = SubSeq(t, 1, d)
<1>1. /\ SubSeq(s, 1, d) = [k \in 1..d |-> s[k]]
      /\ SubSeq(t, 1, d) = [k \in 1..d |-> t[k]]
  OBVIOUS
<1> QED BY <1>1

\* The source leaves a block.
LEMMA BlockLeft ==
  ASSUME IInv, SInv, Default, r = "SUBPROG"
  PROVE  SInv'
<1> DEFINE n == Len(open)
<1>1. /\ OnTrack(items) /\ Table!IInv /\ Reading /\ Complete /\ Return(nullptr) /\ status = "parsing"
      /\ open' = Front(open) /\ UNCHANGED <<code, owner, clean, symbols>>
  BY DEF IInv, Default, Reducing, Reading, errorFree
<1>2. /\ Owned /\ open \in Seq(Nat) /\ n \in Nat /\ OneProcedure(items)
  BY <1>1 DEF SInv, Owned, Scoped
<1>3. open' \in Seq(Nat)
  <2>1. CASE open = <<>>
    <3>1. SubSeq(<<>>, 1, -1) \in Seq(Nat)
      OBVIOUS
    <3> QED BY <1>1, <2>1, <3>1 DEF Front
  <2>2. CASE open # <<>>
    BY <1>1, <1>2, <2>2, Popped
  <2> QED BY <2>1, <2>2
<1>4. Owned' /\ StaticLinks' /\ Preserved
  BY <1>1, <1>3, CodeKept
<1>5. nullptr \in ValuesOf(lhs(r)) /\ r # "PL0"
  <2>1. r \in DOMAIN Rules /\ r \notin DOMAIN oprOf
    BY <1>1, ValuesComplete DEF oprOf
  <2> QED BY <2>1, NothingReturned
<1>6. /\ OneProcedure(items')
      /\ Ended(items') \/ Leaving(items')
  BY <1>1, <1>2, <1>5, AfterReduction DEF Return
<1>7. Depth(items', "PROC") = Depth(items, "PROC")
  <2>1. HasDepth /\ Tracked
    BY <1>1, <1>5, DepthsAreNatural, AfterReturn
  <2> QED BY <2>1 DEF Tracked, HasDepth, Change
<1>8. ASSUME clean' PROVE Aligned' /\ BlocksMatch' /\ ProceduresEntered'
  <2>1. n = Len(layers) /\ BlocksMatch /\ ProceduresEntered
    BY <1>1, <1>8, LayersAreBlocks
  <2>2. Aligned /\ n >= 1 /\ Len(layers') = Len(layers) /\ layers' = layers
    BY <1>1, <1>8, <2>1, LayersTyped DEF SInv, Scoped, symbols
  <2>3. Len(open') = n - 1 /\ \A k \in 1..(n - 1) : open'[k] = open[k]
    <3>1. open # <<>>
      BY <2>2
    <3> QED BY <1>1, <1>2, <3>1, Popped
  <2>4. Aligned'
    BY <1>2, <1>6, <1>7, <2>1, <2>2, <2>3 DEF Aligned, Gap
  <2>5. BlocksMatch'
    BY <1>2, <2>1, <2>2, <2>3 DEF BlocksMatch
  <2>6. \A d \in 1..(n - 1) : SubSeq(open', 1, d) = SubSeq(open, 1, d)
    <3> SUFFICES ASSUME NEW d \in 1..(n - 1) PROVE SubSeq(open', 1, d) = SubSeq(open, 1, d)
      OBVIOUS
    <3>1. d \in 0..Len(open') /\ d <= Len(open) /\ \A k \in 1..d : open'[k] = open[k]
      BY <1>2, <2>3
    <3> QED BY <1>2, <1>3, <3>1, SameBeginnings
  <2>7. ProceduresEntered'
    <3>1. ASSUME NEW d \in 1..(n - 1), NEW a \in ProceduresOf(layers[d])
          PROVE  Entered(code', owner', a, SubSeq(open', 1, d))
      <4>1. d \in 1..Len(open)
        BY <1>2
      <4>2. Entered(code, owner, a, SubSeq(open', 1, d))
        BY <2>1, <2>6, <4>1 DEF ProceduresEntered
      <4> QED BY <1>4, <4>2 DEF Preserved
    <3> QED BY <2>2, <2>3, <3>1 DEF ProceduresEntered
  <2> QED BY <2>4, <2>5, <2>7
<1> QED BY <1>4, <1>6, <1>8 DEF SInv, Scoped

\* A rule without an action of its own is reduced, or a loop begins.
LEMMA DefaultKeepsScopes ==
  ASSUME IInv, SInv, Default \/ WhileEntry
  PROVE  SInv'
<1>1. CASE Default /\ r = "SUBPROG"
  BY <1>1, BlockLeft
<1>2. CASE (Default /\ r # "SUBPROG") \/ WhileEntry
  <2>1. /\ OnTrack(items) /\ Table!IInv /\ Reading /\ Complete
        /\ UNCHANGED <<code, owner, open, clean, symbols>>
    BY <1>2 DEF IInv, Default, WhileEntry, Reducing, Reading, nesting, errorFree
  <2>2. /\ r \notin {"PL0", "PROC", "PROCH", "SUBPROG"} /\ r \notin DOMAIN oprOf
        /\ EndWithoutReturn
    BY <1>2, <2>1 DEF Default, WhileEntry, Reducing, Reading, Attached, oprOf, EndWithoutReturn
  <2>3. (\E value \in ValuesOf(lhs(r)) : Return(value)) \/ status' = "crashed"
    BY <2>1, <2>2, NothingOrCrash
  <2>4. Owned' /\ StaticLinks' /\ Preserved
    BY <2>1, CodeKept DEF SInv, Owned
  <2>5. Scoped'
    BY <2>1, <2>2, <2>3, <2>4, LayersKept, ReductionKeepsScopes
  <2> QED BY <2>4, <2>5 DEF SInv
<1> QED BY <1>1, <1>2

\* What is queued for filling in later is no call.
LEMMA QueuedAreNoCalls ==
  ASSUME AllQueued, NEW x, \/ x \in ToSet(proc_int_backfill) \/ x \in ToSet(if_not_backfill)
                           \/ x \in ToSet(while_not_backfill) \/ x \in ToSet(JmpsOf(proc_body_backfill))
  PROVE  x \in 0..(Len(code) - 1) /\ code[x + 1].type # "CAL"
BY DEF AllQueued, Queues, Blanks, Blank

\* The operand of an instruction that was queued is filled in, behind it one that
\* is no call, or none, is added.
LEMMA Patched ==
  ASSUME Owned, StaticLinks, code \in Seq(Instructions),
         NEW d, Continues(code, owner, d, owner'), clean' => clean, open' \in Seq(Nat),
         \A k \in (Len(code) + 1)..Len(d) : d[k].type # "CAL",
         Len(code') = Len(d), \A k \in 1..Len(d) : code'[k].type = d[k].type,
         Continues(code, owner, code', owner')
  PROVE  Owned' /\ StaticLinks' /\ Preserved
<1>1. Len(code) \in Nat /\ Len(d) \in Nat
  BY DEF Continues
<1>2. \A k \in (Len(code) + 1)..Len(code') : k \in 1..Len(d)
  BY <1>1
<1>3. \A k \in (Len(code) + 1)..Len(code') : code'[k].type # "CAL"
  BY <1>2
<1> QED BY <1>3, LinksContinue DEF Preserved

\* An if is complete (Assembler.cpp:162).
LEMMA IfEndKeepsScopes ==
  ASSUME IInv, SInv, IfEnd
  PROVE  SInv'
<1>1. /\ Reading /\ Complete /\ EndWithoutReturn /\ r = "CONDITION" /\ status = "parsing"
      /\ code' = Backfill(code, Last(if_not_backfill), length)
      /\ UNCHANGED <<owner, open, clean, symbols>>
  BY DEF IfEnd, InnermostIf, Reducing, Reading, nesting, errorFree
<1>2. /\ OnTrack(items) /\ StacksDeep /\ AllQueued /\ HasDepth /\ length \in Nat
      /\ code \in Seq(Instructions) /\ if_not_backfill \in Seq(Nat)
  BY <1>1, BeforeReduction
<1>3. Owned /\ StaticLinks /\ open' \in Seq(Nat)
  BY <1>1 DEF SInv, Owned
<1> DEFINE top == Last(if_not_backfill)
<1>4. top \in 0..(Len(code) - 1) /\ code[top + 1].type # "CAL"
  <2>1. if_not_backfill # <<>>
    BY <1>1, <1>2 DEF StacksDeep, HasDepth
  <2>2. top \in ToSet(if_not_backfill)
    BY <1>2, <2>1, Popped
  <2> HIDE DEF top
  <2> QED BY <1>2, <2>2, QueuedAreNoCalls
<1> HIDE DEF top
<1>5. Continues(code, owner, code, owner)
  BY <1>2, <1>3 DEF Continues, Owned
<1>6. /\ Continues(code, owner, code', owner') /\ Len(code') = Len(code)
      /\ \A k \in 1..Len(code) : code'[k].type = code[k].type
  <2>1. /\ Continues(code, owner, Backfill(code, top, length), owner)
        /\ Len(Backfill(code, top, length)) = Len(code)
        /\ \A k \in 1..Len(code) : Backfill(code, top, length)[k].type = code[k].type
    BY <1>2, <1>4, <1>5, FilledContinues
  <2> QED BY <1>1, <2>1 DEF top
<1>7. Owned' /\ StaticLinks' /\ Preserved
  <2>1. \A k \in (Len(code) + 1)..Len(code) : code[k].type # "CAL"
    BY <1>2
  <2>2. owner' = owner
    BY <1>1
  <2> QED BY <1>1, <1>2, <1>3, <1>5, <1>6, <2>1, <2>2, Patched
<1>8. Scoped'
  <2>1. r \notin DOMAIN oprOf /\ r \notin {"PL0", "PROC", "PROCH", "SUBPROG"}
    BY <1>1 DEF oprOf
  <2>2. (\E value \in ValuesOf(lhs(r)) : Return(value)) \/ status' = "crashed"
    BY <1>1, <1>2, <2>1, NothingOrCrash
  <2> QED BY <1>1, <1>7, <2>1, <2>2, LayersKept, ReductionKeepsScopes
<1> QED BY <1>7, <1>8 DEF SInv

\* Code and one instruction behind it that is no call.
LEMMA OneAdded ==
  ASSUME Owned, code \in Seq(Instructions), NEW i \in Instructions, i.type # "CAL",
         NEW blocks \in Seq(Nat), owner' = Append(owner, blocks)
  PROVE  LET d == code \o <<i>>
         IN  /\ Continues(code, owner, d, owner') /\ Len(d) = Len(code) + 1 /\ d = Append(code, i)
             /\ d[Len(code) + 1] = i /\ \A k \in 1..Len(code) : d[k] = code[k]
             /\ \A k \in (Len(code) + 1)..Len(d) : d[k].type # "CAL"
<1> DEFINE d == code \o <<i>>
           os == Append(owner, blocks)
<1>1. /\ d \in Seq(Instructions) /\ Len(d) = Len(code) + 1 /\ d = Append(code, i)
      /\ d[Len(code) + 1] = i /\ \A k \in 1..Len(code) : d[k] = code[k]
  OBVIOUS
<1>2. owner \in Seq(Seq(Nat)) /\ Len(owner) = Len(code) /\ Len(code) \in Nat
  BY DEF Owned
<1>3. /\ os \in Seq(Seq(Nat)) /\ Len(os) = Len(code) + 1
      /\ \A k \in 1..Len(code) : os[k] = owner[k]
  <2> DEFINE S == Seq(Nat)
  <2>1. owner \in Seq(S) /\ blocks \in S
    BY <1>2
  <2> HIDE DEF S
  <2>2. /\ Append(owner, blocks) \in Seq(S) /\ Len(Append(owner, blocks)) = Len(owner) + 1
        /\ \A k \in 1..Len(owner) : Append(owner, blocks)[k] = owner[k]
    BY ONLY <2>1
  <2> QED BY <1>2, <2>2 DEF S
<1> HIDE DEF d, os
<1>4. \A k \in (Len(code) + 1)..Len(d) : k = Len(code) + 1
  BY <1>1, <1>2
<1>5. owner' = os
  BY DEF os
<1>6. Continues(code, owner, d, owner')
  BY <1>1, <1>2, <1>3, <1>5 DEF Continues
<1>7. \A k \in (Len(code) + 1)..Len(d) : d[k].type # "CAL"
  BY <1>1, <1>4
<1> QED BY <1>1, <1>6, <1>7 DEF d

\* A loop is complete (Assembler.cpp:179).
LEMMA WhileEndKeepsScopes ==
  ASSUME IInv, SInv, WhileEnd
  PROVE  SInv'
<1> DEFINE i == inst_t("JMP", 0, Last(while_entry_backfill))
           d == code \o <<i>>
           top == Last(while_not_backfill)
<1>1. /\ Reading /\ Complete /\ EndWithoutReturn /\ r = "WHILE" /\ status = "parsing"
      /\ code' = Backfill(Append(code, i), top, LoopExit)
      /\ owner' = Append(owner, open)
      /\ UNCHANGED <<open, clean, symbols>>
  BY DEF WhileEnd, Reducing, Reading, nesting, errorFree
<1>2. /\ OnTrack(items) /\ StacksDeep /\ AllQueued /\ HasDepth /\ length \in Nat
      /\ code \in Seq(Instructions) /\ while_not_backfill \in Seq(Nat)
      /\ while_entry_backfill \in Seq(Nat \ {0}) /\ Len(code) \in Nat
  BY <1>1, BeforeReduction
<1>3. Owned /\ StaticLinks /\ open' \in Seq(Nat) /\ open \in Seq(Nat)
  BY <1>1 DEF SInv, Owned
<1>4. while_entry_backfill # <<>> /\ while_not_backfill # <<>>
  BY <1>1, <1>2 DEF StacksDeep, HasDepth
<1>5. top \in 0..(Len(code) - 1) /\ code[top + 1].type # "CAL"
  <2>1. top \in ToSet(while_not_backfill)
    BY <1>2, <1>4, Popped
  <2> HIDE DEF top
  <2> QED BY <1>2, <2>1, QueuedAreNoCalls
<1>6. i \in Instructions /\ i.type # "CAL"
  <2>1. Last(while_entry_backfill) \in Nat \ {0}
    BY <1>2, <1>4, Popped
  <2> QED BY <2>1 DEF inst_t, Instructions, InstTypes
<1> HIDE DEF i
<1>7. /\ Continues(code, owner, d, owner') /\ Len(d) = Len(code) + 1 /\ d = Append(code, i)
      /\ \A k \in 1..Len(code) : d[k] = code[k]
      /\ \A k \in (Len(code) + 1)..Len(d) : d[k].type # "CAL"
  BY <1>1, <1>2, <1>3, <1>6, OneAdded
<1> HIDE DEF d, top
<1>8. top \in 0..(Len(d) - 1) /\ d[top + 1].type # "CAL" /\ LoopExit \in Int
  <2>1. top + 1 \in 1..Len(code)
    BY <1>2, <1>5
  <2> QED BY <1>2, <1>5, <1>7, <2>1 DEF LoopExit
<1>9. /\ Continues(code, owner, code', owner') /\ Len(code') = Len(d)
      /\ \A k \in 1..Len(d) : code'[k].type = d[k].type
  <2>1. /\ Continues(code, owner, Backfill(d, top, LoopExit), owner')
        /\ Len(Backfill(d, top, LoopExit)) = Len(d)
        /\ \A k \in 1..Len(d) : Backfill(d, top, LoopExit)[k].type = d[k].type
    <3>1. Len(code) \in Nat /\ Continues(code, owner, d, owner')
      BY <1>2, <1>7
    <3> QED BY ONLY <1>8, <3>1, FilledContinues
  <2> QED BY <1>1, <1>7, <2>1
<1>10. Owned' /\ StaticLinks' /\ Preserved
  BY <1>1, <1>2, <1>3, <1>7, <1>9, Patched
<1>11. Scoped'
  <2>1. r \notin DOMAIN oprOf /\ r \notin {"PL0", "PROC", "PROCH", "SUBPROG"}
    BY <1>1 DEF oprOf
  <2>2. (\E value \in ValuesOf(lhs(r)) : Return(value)) \/ status' = "crashed"
    BY <1>1, <1>2, <2>1, NothingOrCrash
  <2> QED BY <1>1, <1>10, <2>1, <2>2, LayersKept, ReductionKeepsScopes
<1> QED BY <1>10, <1>11 DEF SInv

\* The return is added to the code of a block, and the INT and the JMP that the
\* block starts with are filled in (Assembler.cpp:44, plc.cpp:49).
LEMMA BlockFinished ==
  ASSUME Owned, StaticLinks, code \in Seq(Instructions), clean' => clean, open' \in Seq(Nat),
         NEW blocks \in Seq(Nat), owner' = Append(owner, blocks),
         NEW a \in 0..(Len(code) - 1), code[a + 1].type # "CAL", NEW x \in Int,
         NEW b \in 0..(Len(code) - 1), code[b + 1].type # "CAL", NEW y \in Int,
         code' = Backfill(Backfill(code \o insert_opr(OPR_RET), a, x), b, y)
  PROVE  Owned' /\ StaticLinks' /\ Preserved
<1> DEFINE i == inst_t("OPR", 0, 0)
           d == code \o <<i>>
           e == Backfill(d, a, x)
           f == Backfill(e, b, y)
<1>1. code' = f /\ Len(code) \in Nat
  BY DEF insert_opr, OPR_RET, OPR_NOP
<1>2. i \in Instructions /\ i.type # "CAL"
  BY DEF inst_t, Instructions, InstTypes
<1> HIDE DEF i
<1>3. /\ Continues(code, owner, d, owner') /\ Len(d) = Len(code) + 1
      /\ \A k \in 1..Len(code) : d[k] = code[k]
      /\ \A k \in (Len(code) + 1)..Len(d) : d[k].type # "CAL"
  BY <1>2, OneAdded
<1> HIDE DEF d
<1>4. a + 1 \in 1..Len(code) /\ b + 1 \in 1..Len(code) /\ a + 1 \in 1..Len(d) /\ b + 1 \in 1..Len(d)
  BY <1>1, <1>3
<1>5. /\ a \in 0..(Len(d) - 1) /\ d[a + 1].type # "CAL"
      /\ b \in 0..(Len(d) - 1) /\ d[b + 1].type # "CAL"
  BY <1>1, <1>3, <1>4
<1>6. /\ Continues(code, owner, e, owner') /\ Len(e) = Len(d)
      /\ \A k \in 1..Len(d) : e[k].type = d[k].type
  <2>1. /\ Len(code) \in Nat /\ Continues(code, owner, d, owner') /\ x \in Int
        /\ a \in 0..(Len(d) - 1) /\ d[a + 1].type # "CAL"
    BY <1>1, <1>3, <1>5
  <2> QED BY ONLY SMTT(60), <2>1, FilledContinues DEF e
<1> HIDE DEF e
<1>7. b \in 0..(Len(e) - 1) /\ e[b + 1].type # "CAL"
  BY <1>4, <1>5, <1>6
<1>8. /\ Continues(code, owner, f, owner') /\ Len(f) = Len(e)
      /\ \A k \in 1..Len(e) : f[k].type = e[k].type
  <2>1. /\ Len(code) \in Nat /\ Continues(code, owner, e, owner') /\ y \in Int
        /\ b \in 0..(Len(e) - 1) /\ e[b + 1].type # "CAL"
    BY <1>1, <1>6, <1>7
  <2> QED BY ONLY <2>1, FilledContinues DEF f
<1> HIDE DEF f
<1>9. /\ Len(code') = Len(d) /\ \A k \in 1..Len(d) : code'[k].type = d[k].type
      /\ Continues(code, owner, code', owner')
  BY <1>1, <1>6, <1>8
<1> QED BY <1>3, <1>9, Patched

\* A procedure ends, and its layer is closed (Assembler.cpp:44).
LEMMA ProcedureEndKeepsScopes ==
  ASSUME IInv, SInv, ProcedureEnd
  PROVE  SInv'
<1> DEFINE P == proc_int_backfill
           B == proc_body_backfill
           n == Len(layers)
<1>1. /\ Reading /\ Complete /\ Return(nullptr) /\ r = "PROC" /\ status = "parsing"
      /\ code' = Backfill(Backfill(code \o insert_opr(OPR_RET), Last(P), FrameSize),
                          Last(B).jmp_inst, Last(B).proc_body)
      /\ owner' = Append(owner, Append(open, Last(P)))
      /\ Symbol!ascend /\ UNCHANGED <<open, clean>>
  BY DEF ProcedureEnd, LeaveScope, Reducing, Reading, nesting, errorFree
<1>2. /\ OnTrack(items) /\ StacksDeep /\ AllQueued /\ HasDepth /\ Table!IInv
      /\ code \in Seq(Instructions) /\ P \in Seq(Nat) /\ B \in Seq(BodyEntries)
      /\ JmpsOf(B) \in Seq(Nat)
  BY <1>1, BeforeReduction
<1>3. Owned /\ StaticLinks /\ open' \in Seq(Nat) /\ open \in Seq(Nat) /\ OneProcedure(items)
  BY <1>1 DEF SInv, Owned, Scoped
<1>4. Depth(items, "PROC") \in Nat /\ Depth(items, "PROC") > 0
  BY <1>1, <1>2 DEF HasDepth
<1>5. P # <<>> /\ B # <<>>
  BY <1>2, <1>4 DEF StacksDeep
<1>6. Last(P) \in ToSet(P) /\ Last(P) \in Nat
  BY <1>2, <1>5, Popped
<1>7. /\ Last(B).jmp_inst \in ToSet(JmpsOf(B)) /\ Last(B).proc_body \in Int
  BY SMTT(60), <1>2, <1>5, JmpsPopped, Popped DEF BodyEntries
<1>8. FrameSize \in Int
  BY <1>2, FrameSizes
<1>9. /\ Last(P) \in 0..(Len(code) - 1) /\ code[Last(P) + 1].type # "CAL"
      /\ Last(B).jmp_inst \in 0..(Len(code) - 1) /\ code[Last(B).jmp_inst + 1].type # "CAL"
  BY <1>2, <1>6, <1>7, QueuedAreNoCalls
<1>10. Append(open, Last(P)) \in Seq(Nat)
  BY <1>3, <1>6
<1>11. Owned' /\ StaticLinks' /\ Preserved
  BY <1>1, <1>2, <1>3, <1>7, <1>8, <1>9, <1>10, BlockFinished
<1>12. nullptr \in ValuesOf(lhs(r)) /\ r # "PL0"
  BY <1>1, <1>2, ValuesComplete, NothingReturned DEF oprOf
<1>13. OneProcedure(items') /\ Leaving(items) /\ ~Leaving(items')
  BY <1>1, <1>2, <1>3, <1>12, AfterReduction DEF Return
<1>14. Depth(items', "PROC") = Depth(items, "PROC") - 1
  <2>1. Tracked
    BY <1>1, <1>2, <1>12, AfterReturn
  <2> QED BY <1>1, <1>4, <2>1 DEF Tracked, Change
<1>15. ASSUME clean' PROVE Aligned' /\ BlocksMatch' /\ ProceduresEntered'
  <2>1. Aligned /\ BlocksMatch /\ ProceduresEntered
    BY <1>1, <1>15 DEF SInv, Scoped
  <2>2. ~Ended(items)
    BY <1>1, <1>2, Innermost DEF Ended
  <2>3. n \in Nat /\ Len(open) \in Nat /\ n >= 2 /\ Len(open) = n - 1
    BY SMTT(60), <1>2, <1>3, <1>4, <1>13, <2>1, <2>2, LayersTyped DEF Aligned, Gap
  <2>4. /\ Len(layers') = n - 1
        /\ \A d \in 1..(n - 1) : layers'[d] = layers[d] /\ BlockOf(layers', d) = BlockOf(layers, d)
    <3>1. Table!ascend
      BY <1>1, SameUpdates
    <3> QED BY <1>2, <2>3, <3>1, AscendClosesBlock
  <2> HIDE DEF n
  <2>5. Aligned'
    BY <1>1, <1>4, <1>13, <1>14, <2>1, <2>3, <2>4 DEF Aligned, Gap, n
  <2>6. BlocksMatch'
    BY <1>1, <2>1, <2>3, <2>4 DEF BlocksMatch
  <2>7. ProceduresEntered'
    <3> SUFFICES ASSUME NEW d \in 1..Len(open), NEW a \in ProceduresOf(layers[d])
                 PROVE  Entered(code', owner', a, SubSeq(open, 1, d))
      BY <1>1, <2>3, <2>4 DEF ProceduresEntered
    <3> QED BY <1>11, <2>1 DEF ProceduresEntered, Preserved
  <2> QED BY <2>5, <2>6, <2>7
<1> QED BY <1>11, <1>13, <1>15 DEF SInv, Scoped

\* A procedure begins: the source enters its block, and its layer is opened
\* (Assembler.cpp:30).
LEMMA ProcedureHeaderKeepsScopes ==
  ASSUME IInv, SInv, ProcedureHeader
  PROVE  SInv'
<1> DEFINE n == Len(layers)
           m == Len(code)
           blocks == Append(open, m)
           q == <<blocks, blocks>>
<1>1. /\ Reading /\ Complete /\ Return(nullptr) /\ r = "PROCH" /\ status = "parsing"
      /\ code' = code \o Prologue /\ open' = blocks /\ owner' = owner \o <<open', open'>>
      /\ clean' = (clean /\ ~Symbol!isDuplicated(v[2].name))
      /\ Symbol!insertProcedure(v[2].name, m)
  BY DEF ProcedureHeader, Reducing, Reading, EntryAddress, length
<1>2. /\ OnTrack(items) /\ HasDepth /\ Table!IInv /\ code \in Seq(Instructions) /\ m \in Nat
  BY <1>1, BeforeReduction
<1>3. /\ Owned /\ StaticLinks /\ open \in Seq(Nat) /\ owner \in Seq(Seq(Nat)) /\ OneProcedure(items)
      /\ Len(owner) = Len(code)
  BY <1>1 DEF SInv, Owned, Scoped
<1>4. blocks \in Seq(Nat) /\ Len(blocks) = Len(open) + 1 /\ Len(open) \in Nat
      /\ blocks[Len(open) + 1] = m /\ \A k \in 1..Len(open) : blocks[k] = open[k]
  BY <1>2, <1>3
<1>5. q \in Seq(Seq(Nat)) /\ Len(q) = 2 /\ q[1] = blocks /\ q[2] = blocks
  <2> HIDE DEF blocks
  <2> DEFINE S == Seq(Nat)
  <2>1. blocks \in S
    BY <1>4
  <2> HIDE DEF S
  <2>2. <<blocks, blocks>> \in Seq(S)
    BY <2>1
  <2> QED BY <2>2 DEF S
<1>6. /\ Prologue \in Seq(Instructions) /\ Len(Prologue) = 2
      /\ Prologue[1].type = "INT" /\ Prologue[2].type = "JMP"
  <2>1. inst_t("INT", 0, 0) \in Instructions /\ inst_t("JMP", 0, 0) \in Instructions
    BY DEF inst_t, Instructions, InstTypes
  <2> QED BY <2>1 DEF Prologue, inst_t
<1>7. code' = code \o Prologue /\ owner' = owner \o q
  BY <1>1
<1> HIDE DEF q, blocks
<1>8. /\ Continues(code, owner, code', owner') /\ Len(code') = m + 2
      /\ \A k \in 1..2 : code'[m + k] = Prologue[k] /\ owner'[m + k] = q[k]
  <2> HIDE DEF m
  <2>1. /\ code \in Seq(Instructions) /\ owner \in Seq(Seq(Nat)) /\ Len(owner) = Len(code)
        /\ Len(q) = Len(Prologue)
    BY <1>2, <1>3, <1>5, <1>6
  <2>2. /\ Continues(code, owner, code \o Prologue, owner \o q)
        /\ Len(code \o Prologue) = Len(code) + Len(Prologue)
        /\ \A k \in 1..Len(Prologue) : /\ (code \o Prologue)[Len(code) + k] = Prologue[k]
                                         /\ (owner \o q)[Len(code) + k] = q[k]
    BY ONLY <1>5, <1>6, <2>1, AddedContinues
  <2> QED BY <1>6, <1>7, <2>2 DEF m
<1>9. code'[m + 1].type = "INT" /\ code'[m + 2].type = "JMP" /\ owner'[m + 1] = blocks
  BY <1>5, <1>6, <1>8
<1>10. Owned' /\ StaticLinks' /\ Preserved
  <2>1. ASSUME NEW k \in (m + 1)..Len(code') PROVE code'[k].type # "CAL"
    <3>1. k = m + 1 \/ k = m + 2
      BY <1>2, <1>8
    <3> QED BY <1>9, <3>1
  <2> QED BY <1>1, <1>2, <1>3, <1>4, <1>8, <2>1, LinksContinue DEF Preserved
<1>11. nullptr \in ValuesOf(lhs(r)) /\ r # "PL0"
  BY <1>1, <1>2, ValuesComplete, NothingReturned DEF oprOf
<1>12. OneProcedure(items') /\ ~Leaving(items) /\ ~Leaving(items')
  BY <1>1, <1>2, <1>3, <1>11, AfterReduction DEF Return
<1>13. Depth(items', "PROC") = Depth(items, "PROC") + 1
  <2>1. Tracked
    BY <1>1, <1>2, <1>11, AfterReturn
  <2> QED BY <1>1, <2>1 DEF Tracked, Change
<1>14. ASSUME clean' PROVE Aligned' /\ BlocksMatch' /\ ProceduresEntered'
  <2>1. clean /\ ~Table!isDuplicated(v[2].name) /\ Table!insertProcedure(v[2].name, m)
    BY <1>1, <1>14, SameQueries, SameUpdates
  <2>2. Len(open) = n /\ BlocksMatch /\ ProceduresEntered /\ Aligned
    BY <1>1, <2>1, LayersAreBlocks DEF SInv, Scoped
  <2>3. /\ Len(layers') = n + 1
        /\ \A d \in 1..n : BlockOf(layers', d) = BlockOf(layers, d)
        /\ BlockOf(layers', n + 1) = m
        /\ \A d \in 1..(n - 1) : layers'[d] = layers[d]
        /\ ProceduresOf(layers'[n]) = ProceduresOf(layers[n]) \cup {m}
        /\ ProceduresOf(layers'[n + 1]) = {}
    BY <1>2, <2>1, ProcedureOpensBlock
  <2>4. n \in Nat /\ n >= 1
    BY <1>2, LayersTyped
  <2> HIDE DEF n, m
  <2>5. Len(open') = n + 1 /\ open'[n + 1] = m /\ \A k \in 1..n : open'[k] = open[k]
    BY <1>1, <1>4, <2>2
  <2>6. Aligned'
    BY <1>2, <1>12, <1>13, <2>2, <2>3, <2>4, <2>5 DEF Aligned, Gap, n, HasDepth
  <2>7. BlocksMatch'
    <3>1. \A d \in 1..(n + 1) : d \in 1..n \/ d = n + 1
      BY <2>4
    <3> QED BY <2>2, <2>3, <2>5, <3>1 DEF BlocksMatch
  <2>8. \A d \in 1..n : SubSeq(open', 1, d) = SubSeq(open, 1, d)
    <3> SUFFICES ASSUME NEW d \in 1..n PROVE SubSeq(open', 1, d) = SubSeq(open, 1, d)
      OBVIOUS
    <3>1. d \in 0..Len(open') /\ d <= Len(open) /\ \A k \in 1..d : open'[k] = open[k]
      BY <2>2, <2>4, <2>5
    <3>2. open' \in Seq(Nat) /\ open \in Seq(Nat)
      BY <1>1, <1>3, <1>4
    <3> QED BY <3>1, <3>2, SameBeginnings
  <2>9. ASSUME NEW d \in 1..n, NEW a \in ProceduresOf(layers[d])
        PROVE  Entered(code', owner', a, SubSeq(open', 1, d))
    <3>1. Entered(code, owner, a, SubSeq(open, 1, d))
      BY <2>2 DEF ProceduresEntered
    <3> QED BY <1>10, <2>8, <3>1 DEF Preserved
  <2>10. Entered(code', owner', m, SubSeq(open', 1, n))
    <3>1. SubSeq(open, 1, n) = open
      BY <1>3, <2>2
    <3>2. SubSeq(open', 1, n) = open
      BY <2>4, <2>8, <3>1
    <3>3. m \in 0..(Len(code') - 1)
      BY <1>2, <1>8 DEF m
    <3> QED BY <1>9, <3>2, <3>3 DEF Entered, blocks
  <2>11. ProceduresEntered'
    <3> SUFFICES ASSUME NEW d \in 1..(n + 1), NEW a \in ProceduresOf(layers'[d])
                 PROVE  Entered(code', owner', a, SubSeq(open', 1, d))
      BY <2>5 DEF ProceduresEntered
    <3>1. d \in 1..(n - 1) \/ d = n \/ d = n + 1
      BY <2>4
    <3>2. CASE d \in 1..(n - 1)
      <4>1. a \in ProceduresOf(layers[d]) /\ d \in 1..n
        BY <2>3, <2>4, <3>2
      <4> QED BY <2>9, <4>1
    <3>3. CASE d = n
      BY <2>3, <2>4, <2>9, <2>10, <3>3
    <3>4. CASE d = n + 1
      BY <2>3, <3>4
    <3> QED BY <3>1, <3>2, <3>3, <3>4
  <2> QED BY <2>6, <2>7, <2>11
<1> QED BY <1>10, <1>12, <1>14 DEF SInv, Scoped

\* The lexer throws: another prologue is emitted, in the block the source is in.
LEMMA LexicalErrorKeepsScopes ==
  ASSUME IInv, SInv, LexicalError
  PROVE  SInv'
<1>1. /\ status = "parsing" /\ insert(Prologue) /\ UNCHANGED <<items, status, symbols, open, clean>>
  BY DEF LexicalError, Reading, nesting, errorFree
<1>2. Table!IInv /\ OneProcedure(items)
  BY <1>1 DEF IInv, SInv, Scoped
<1>3. Prologue \in Seq(Instructions) /\ \A k \in 1..Len(Prologue) : Prologue[k].type # "CAL"
  <2>1. inst_t("INT", 0, 0) \in Instructions /\ inst_t("JMP", 0, 0) \in Instructions
    BY DEF inst_t, Instructions, InstTypes
  <2> QED BY <2>1 DEF Prologue, inst_t
<1>4. Owned' /\ StaticLinks' /\ Preserved
  BY <1>1, <1>3, CodeEmitted
<1>5. Scoped'
  BY <1>1, <1>2, <1>4, LayersKept, ScopesKept
<1> QED BY <1>4, <1>5 DEF SInv

\* The source is complete (plc.cpp:49).
LEMMA SucceedKeepsScopes ==
  ASSUME IInv, SInv, Succeed
  PROVE  SInv'
<1> DEFINE B == proc_body_backfill
<1>1. /\ status = "parsing" /\ status' # "parsing" /\ UNCHANGED <<open, clean>>
      /\ code' = Backfill(Backfill(code \o insert_opr(OPR_RET), 0, Symbol!countLayerSize),
                          1, Last(B).proc_body)
      /\ owner' = Append(owner, <<0>>)
  BY DEF Succeed, nesting, errorFree
<1>2. /\ StacksDeep /\ HasDepth /\ Table!IInv /\ code \in Seq(Instructions) /\ B \in Seq(BodyEntries)
  BY <1>1, BeforeReduction
<1>3. Owned /\ StaticLinks /\ open' \in Seq(Nat)
  BY <1>1 DEF SInv, Owned
<1>4. B # <<>>
  BY <1>2 DEF StacksDeep, HasDepth
<1>5. Last(B).proc_body \in Int
  <2>1. Last(B) \in BodyEntries
    BY <1>2, <1>4, Popped
  <2> QED BY <2>1 DEF BodyEntries
<1>6. Symbol!countLayerSize \in Int
  BY <1>2, FrameSizes DEF FrameSize
<1>7. /\ 0 \in 0..(Len(code) - 1) /\ code[0 + 1].type # "CAL"
      /\ 1 \in 0..(Len(code) - 1) /\ code[1 + 1].type # "CAL"
  BY <1>2, <1>3 DEF Owned
<1>8. <<0>> \in Seq(Nat)
  OBVIOUS
<1> HIDE DEF B
<1>9. Owned' /\ StaticLinks'
  BY <1>1, <1>2, <1>3, <1>5, <1>6, <1>7, <1>8, BlockFinished
<1> QED BY <1>1, <1>9 DEF SInv, Scoped
----------------------------------------------------------------------------
(***************************************************************************)
(* The theorems.                                                           *)
(***************************************************************************)

\* Before anything is read there is one layer, and the source is in one block.
LEMMA InitSInv == Init => SInv
<1> SUFFICES ASSUME Init PROVE SInv
  OBVIOUS
<1>1. /\ items = <<Item("PL0", <<>>)>> /\ code = Prologue /\ open = <<0>> /\ owner = <<<<0>>, <<0>>>>
      /\ layers = <<<<>>>>
  BY SameUpdates DEF Init, Table!Init
<1>2. /\ Len(items) = 1 /\ items[1].rule = "PL0" /\ items[1].vals = <<>>
  BY <1>1 DEF Item
<1>3. Len(code) = 2 /\ code[1].type = "INT" /\ code[2].type = "JMP"
  BY <1>1 DEF Prologue, inst_t
<1>4. owner \in Seq(Seq(Nat)) /\ Len(owner) = 2 /\ open \in Seq(Nat) /\ Len(open) = 1 /\ open[1] = 0
  <2>1. <<0>> \in Seq(Nat)
    OBVIOUS
  <2> DEFINE S == Seq(Nat)
             b == <<0>>
  <2>2. b \in S
    BY <2>1
  <2> HIDE DEF S, b
  <2>3. <<b, b>> \in Seq(S) /\ Len(<<b, b>>) = 2
    BY <2>2
  <2> QED BY <1>1, <2>1, <2>3 DEF S, b
<1>5. Owned
  BY <1>3, <1>4 DEF Owned
<1>6. StaticLinks
  <2>1. \A k \in DOMAIN code : k = 1 \/ k = 2
    BY <1>1 DEF Prologue
  <2> QED BY <1>3, <2>1 DEF StaticLinks
<1>7. OneProcedure(items) /\ ~Leaving(items) /\ ~Ended(items)
  BY <1>2 DEF OneProcedure, Leaving, HasLeft, Ended
<1>8. Depth(items, "PROC") = 0
  <2>1. Begun(items, "PROC") = {}
    BY <1>2 DEF Begun
  <2> QED BY <2>1, FS_EmptySet DEF Depth
<1>9. Len(layers) = 1 /\ layers[1] = <<>>
  BY <1>1
<1>10. Aligned
  BY <1>4, <1>7, <1>8, <1>9 DEF Aligned, Gap
<1>11. BlocksMatch
  BY <1>4 DEF BlocksMatch, BlockOf
<1>12. ProceduresEntered
  BY <1>4, <1>9 DEF ProceduresEntered, ProceduresOf
<1> QED BY <1>5, <1>6, <1>7, <1>10, <1>11, <1>12 DEF SInv, Scoped

\* Nothing that the invariant speaks of changes.
LEMMA StutterKeepsScopes ==
  ASSUME SInv, UNCHANGED <<items, status, code, open, owner, clean, symbols>>
  PROVE  SInv'
<1>1. Owned' /\ StaticLinks' /\ Preserved
  BY CodeKept DEF SInv, Owned
<1>2. Aligned = Aligned' /\ BlocksMatch = BlocksMatch' /\ ProceduresEntered = ProceduresEntered'
  BY DEF Aligned, Gap, BlocksMatch, ProceduresEntered, symbols
<1> QED BY <1>1, <1>2 DEF SInv, Scoped

\* The invariant is inductive as long as no procedure follows another in a block.
LEMMA NextKeepsScopes ==
  ASSUME ~Siblings, IInv, SInv, [Next]_vars
  PROVE  SInv'
<1>1. ASSUME NEW p \in Productions, Expand(p) PROVE SInv'
  BY <1>1, ExpandKeepsScopes
<1>2. CASE Shift
  BY <1>2, ShiftKeepsScopes
<1>3. CASE Default \/ WhileEntry
  BY <1>3, DefaultKeepsScopes
<1>4. CASE Declare
  BY <1>4, DeclareKeepsScopes
<1>5. CASE ProcedureHeader
  BY <1>5, ProcedureHeaderKeepsScopes
<1>6. CASE ProcedureEnd
  BY <1>6, ProcedureEndKeepsScopes
<1>7. CASE EmitSimple
  BY <1>7, EmitSimpleKeepsScopes
<1>8. CASE ReadOperator \/ ApplyOperator
  BY <1>8, OperatorsKeepScopes
<1>9. CASE Assertion \/ Assign \/ IfHeader \/ WhileHeader
  BY <1>9, StatementsKeepScopes
<1>10. CASE IfEnd
  BY <1>10, IfEndKeepsScopes
<1>11. CASE WhileEnd
  BY <1>11, WhileEndKeepsScopes
<1>12. CASE Succeed
  BY <1>12, SucceedKeepsScopes
<1>13. CASE SyntaxErrorFound
  <2>1. status' # "parsing" /\ UNCHANGED <<code, owner, open, clean>>
    BY <1>13 DEF SyntaxErrorFound, nesting, errorFree
  <2> QED BY <2>1, CodeKept DEF SInv, Scoped, Owned
<1>14. CASE LexicalError
  BY <1>14, LexicalErrorKeepsScopes
<1>15. CASE Done \/ UNCHANGED vars
  BY <1>15, StutterKeepsScopes DEF Done, vars, automaton, nesting, errorFree
<1> QED BY <1>1, <1>2, <1>3, <1>4, <1>5, <1>6, <1>7, <1>8, <1>9, <1>10, <1>11, <1>12, <1>13,
           <1>14, <1>15 DEF Next

\* The layers of the symbol table, the blocks of the source and the addresses
\* that procedures are entered at fit each other while the source is read.
THEOREM ScopeInvariance ==
  ASSUME ~Siblings
  PROVE  Spec => []SInv
BY InitSInv, NextKeepsScopes, Invariance, PTL DEF Spec

\* Every call enters a procedure at its first instruction, and its level counts
\* the static links to the block the procedure was declared in, whatever the
\* source program and wherever the lexer throws (Assembler.h:128).
THEOREM StaticLinksHolds ==
  ASSUME ~Siblings
  PROVE  Spec => []StaticLinks
<1>1. SInv => StaticLinks
  BY DEF SInv
<1> QED BY <1>1, ScopeInvariance, PTL

\* Whenever a name is looked up, the open layers of the symbol table are the
\* blocks around the use of the name in the source.
THEOREM ScopesMatchHolds ==
  ASSUME ~Siblings
  PROVE  Spec => []ScopesMatch
<1>1. IInv /\ SInv => ScopesMatch
  <2> SUFFICES ASSUME IInv, SInv, clean, Reducing(Resolving)
               PROVE  /\ Len(layers) = Len(open)
                      /\ \A d \in 2..Len(open) : layers[d - 1] # <<>> /\ layers[d - 1][1].address = open[d]
    BY DEF ScopesMatch
  <2>1. Reading /\ Complete /\ r \notin {"PL0", "PROG", "PROC", "EPROC"} /\ Table!IInv
    BY DEF Reducing, Resolving, Simple, Reading, IInv
  <2>2. Len(open) = Len(layers) /\ BlocksMatch
    BY <2>1, LayersAreBlocks
  <2>3. Len(layers) \in Nat /\ \A d \in 1..(Len(layers) - 1) : layers[d] # <<>>
    BY <2>1, LayersTyped
  <2>4. \A d \in 2..Len(open) : d - 1 \in 1..(Len(layers) - 1) /\ d \in 1..Len(open) /\ d # 1
    BY <2>2, <2>3
  <2> QED BY <2>2, <2>3, <2>4 DEF BlocksMatch, BlockOf
<1> QED BY <1>1, Invariance, ScopeInvariance, PTL

----------------------------------------------------------------------------
(***************************************************************************)
(* The phases of a block: constants, variables, procedures, statement.     *)
(***************************************************************************)

\* The phase the innermost block is in when n symbols of rule q have been
\* recognized.  What follows a block counts as its statement, and the header of
\* a procedure still as the block around it.
PhaseAt(q, n) ==
  IF q \in ConstantRules THEN 1
  ELSE IF q \in VariableRules THEN 2
  ELSE IF q \in {"PL0", "PROG"} THEN IF n = 0 THEN 1 ELSE 4
  ELSE IF q = "SUBPROG" THEN IF n = 0 THEN 1 ELSE IF n = 1 THEN 2 ELSE IF n < 4 THEN 3 ELSE 4
  ELSE IF q = "PROC" THEN IF n = 0 THEN 3 ELSE IF n = 1 THEN 1 ELSE 4
  ELSE IF q \in {"EPROC", "PROCH"} THEN 3
  ELSE 4

Phase(its) ==
  IF Leaving(its) THEN 4 ELSE PhaseAt(its[Len(its)].rule, Len(its[Len(its)].vals))

\* There are four phases.
LEMMA FourPhases ==
  ASSUME NEW q, NEW n
  PROVE  PhaseAt(q, n) \in {1, 2, 3, 4}
BY DEF PhaseAt

\* The phase of a rule, group by group.
LEMMA PhasesOfRules ==
  ASSUME NEW q \in DOMAIN Rules, NEW n \in Nat
  PROVE  /\ q \in ConstantRules => PhaseAt(q, n) = 1
         /\ q \in VariableRules => PhaseAt(q, n) = 2
         /\ q \in {"PL0", "PROG"} => PhaseAt(q, n) = IF n = 0 THEN 1 ELSE 4
         /\ q = "SUBPROG" => /\ n = 0 => PhaseAt(q, n) = 1
                             /\ n = 1 => PhaseAt(q, n) = 2
                             /\ n \in {2, 3} => PhaseAt(q, n) = 3
                             /\ n > 3 => PhaseAt(q, n) = 4
         /\ q = "PROC" => /\ n = 0 => PhaseAt(q, n) = 3
                          /\ n = 1 => PhaseAt(q, n) = 1
                          /\ n > 1 => PhaseAt(q, n) = 4
         /\ q \in {"EPROC", "PROCH"} => PhaseAt(q, n) = 3
         /\ q \notin Declarations => PhaseAt(q, n) = 4
BY DEF PhaseAt, ConstantRules, VariableRules, Declarations

\* The rules for declarations, once more.
LEMMA DeclarationKinds ==
  ASSUME NEW p \in Declarations
  PROVE  p \in ConstantRules \cup VariableRules
                \cup {"PL0", "PROG", "SUBPROG", "PROC", "EPROC", "PROCH"}
BY DEF Declarations, ConstantRules, VariableRules

\* A rule that begins is at least as far as the rule it begins in.
LEMMA PhaseEntered ==
  ASSUME NEW q \in DOMAIN Rules, NEW n \in Nat, n < Len(rhs(q)),
         NEW p \in DOMAIN Rules, lhs(p) = rhs(q)[n + 1],
         q = "PROC" => p \notin {"PROC", "EPROC"}
  PROVE  PhaseAt(q, n) <= PhaseAt(p, 0)
<1>1. /\ BlocksInPlace(p) /\ BlocksInPlace(q) /\ PartsInPlace(p) /\ PartsInPlace(q)
      /\ HeadersInPlace(q) /\ RhsIsSequence(q)
  BY BlocksInPlaceEverywhere, PartsInPlaceEverywhere, RhsAreSequences, HeadersInPlaceEverywhere
<1>2. n + 1 \in DOMAIN rhs(q)
  BY <1>1 DEF RhsIsSequence
<1>3. PhaseAt(q, n) \in {1, 2, 3, 4} /\ PhaseAt(p, 0) \in {1, 2, 3, 4}
  BY FourPhases
<1>4. CASE p \notin Declarations
  <2>1. PhaseAt(p, 0) = 4
    BY <1>4, PhasesOfRules
  <2> QED BY <1>3, <2>1
<1>5. CASE p \in ConstantRules
  <2>1. q \in ConstantRules \/ (q = "SUBPROG" /\ n = 0)
    BY <1>1, <1>2, <1>5 DEF PartsInPlace
  <2>2. PhaseAt(q, n) = 1
    BY <2>1, PhasesOfRules
  <2> QED BY <1>3, <2>2
<1>6. CASE p \in VariableRules
  <2>1. q \in VariableRules \/ (q = "SUBPROG" /\ n = 1)
    BY <1>1, <1>2, <1>6 DEF PartsInPlace
  <2>2. PhaseAt(q, n) = 2 /\ PhaseAt(p, 0) = 2
    BY <1>6, <2>1, PhasesOfRules
  <2> QED BY <2>2
<1>7. CASE p \in {"PL0", "PROG", "SUBPROG"}
  <2>1. lhs(p) \in {"Spl0", "Sprog", "Ssubprog"} /\ lhs(p) # "Spl0"
    BY <1>1, <1>2, <1>7, BlockShapes DEF PartsInPlace
  <2>2. q = "PL0" \/ (q = "PROG" /\ n = 0) \/ (q = "PROC" /\ n = 1)
    BY <1>1, <1>2, <2>1 DEF BlocksInPlace
  <2>3. q = "PL0" => n = 0
    BY BlockShapes
  <2>4. PhaseAt(q, n) = 1
    BY <2>2, <2>3, PhasesOfRules
  <2> QED BY <1>3, <2>4
<1>8. CASE p \in {"PROC", "EPROC"}
  <2>1. q = "SUBPROG" /\ n = 2
    BY <1>1, <1>2, <1>8, BlockShapes DEF BlocksInPlace
  <2>2. PhaseAt(q, n) = 3 /\ PhaseAt(p, 0) = 3
    BY <1>8, <2>1, PhasesOfRules
  <2> QED BY <2>2
<1>9. CASE p = "PROCH"
  <2>1. q = "PROC" /\ n = 0
    BY <1>1, <1>2, <1>9, BlockShapes DEF HeadersInPlace
  <2>2. PhaseAt(q, n) = 3 /\ PhaseAt(p, 0) = 3
    BY <1>9, <2>1, PhasesOfRules
  <2> QED BY <2>2
<1> QED BY <1>4, <1>5, <1>6, <1>7, <1>8, <1>9, DeclarationKinds

\* The rule that is gone on with is at least as far as the one that was reduced,
\* unless this made or ended a procedure.
LEMMA PhaseReturned ==
  ASSUME NEW q \in DOMAIN Rules, NEW n \in Nat, n < Len(rhs(q)),
         NEW p \in DOMAIN Rules, lhs(p) = rhs(q)[n + 1], p \notin {"PROC", "PROCH"},
         NEW z \in Nat
  PROVE  PhaseAt(p, z) <= PhaseAt(q, n + 1)
<1>1. /\ BlocksInPlace(p) /\ BlocksInPlace(q) /\ PartsInPlace(p) /\ PartsInPlace(q)
      /\ RhsIsSequence(q)
  BY BlocksInPlaceEverywhere, PartsInPlaceEverywhere, RhsAreSequences DEF RhsIsSequence
<1>2. n + 1 \in DOMAIN rhs(q) /\ n + 1 \in Nat /\ n + 1 > 0
  BY <1>1 DEF RhsIsSequence
<1>3. PhaseAt(q, n + 1) \in {1, 2, 3, 4} /\ PhaseAt(p, z) \in {1, 2, 3, 4}
  BY FourPhases
<1>4. CASE p \notin Declarations
  <2>1. q \notin Declarations \/ (q = "SUBPROG" /\ n + 1 = 4)
    BY <1>1, <1>2, <1>4 DEF PartsInPlace
  <2>2. PhaseAt(q, n + 1) = 4
    BY <1>2, <2>1, PhasesOfRules
  <2> QED BY <1>3, <2>2
<1>5. CASE p \in ConstantRules
  <2>1. PhaseAt(p, z) = 1
    BY <1>1, <1>5, PhasesOfRules
  <2> QED BY <1>3, <2>1
<1>6. CASE p \in VariableRules
  <2>1. q \in VariableRules \/ (q = "SUBPROG" /\ n + 1 = 2)
    BY <1>1, <1>2, <1>6 DEF PartsInPlace
  <2>2. PhaseAt(q, n + 1) \in {2, 3} /\ PhaseAt(p, z) = 2
    BY <1>1, <1>2, <1>6, <2>1, PhasesOfRules
  <2> QED BY <2>2
<1>7. CASE p \in {"PL0", "PROG", "SUBPROG"}
  <2>1. lhs(p) \in {"Spl0", "Sprog", "Ssubprog"} /\ lhs(p) # "Spl0"
    BY <1>1, <1>2, <1>7, BlockShapes DEF PartsInPlace
  <2>2. q = "PL0" \/ (q = "PROG" /\ n = 0) \/ (q = "PROC" /\ n = 1)
    BY <1>1, <1>2, <2>1 DEF BlocksInPlace
  <2>3. PhaseAt(q, n + 1) = 4
    BY <1>2, <2>2, PhasesOfRules
  <2> QED BY <1>3, <2>3
<1>8. CASE p = "EPROC"
  <2>1. (q = "SUBPROG" /\ n + 1 = 3) \/ (q = "PROC" /\ n + 1 = 4)
    BY <1>1, <1>2, <1>8, BlockShapes DEF BlocksInPlace
  <2>2. PhaseAt(q, n + 1) \in {3, 4} /\ PhaseAt(p, z) = 3
    BY <1>1, <1>2, <1>8, <2>1, PhasesOfRules
  <2> QED BY <2>2
<1> QED BY <1>4, <1>5, <1>6, <1>7, <1>8, DeclarationKinds

\* Reading a terminal takes a rule no step back.
LEMMA PhaseRead ==
  ASSUME NEW q \in DOMAIN Rules, NEW n \in Nat, n < Len(rhs(q)), rhs(q)[n + 1] \in Terminals
  PROVE  PhaseAt(q, n) <= PhaseAt(q, n + 1)
<1>1. ~(q = "PROC" /\ n = 0)
  BY BlockShapes, MadeByRules
<1>2. n + 1 \in Nat /\ n + 1 > 0 /\ (n = 0 \/ n = 1 \/ n = 2 \/ n >= 3)
  OBVIOUS
<1>3. PhaseAt(q, n) \in {1, 2, 3, 4} /\ PhaseAt(q, n + 1) \in {1, 2, 3, 4}
  BY FourPhases
<1>4. CASE q \notin Declarations \cup {"SUBPROG"}
  <2>1. PhaseAt(q, n + 1) = 4
    BY <1>2, <1>4, PhasesOfRules
  <2> QED BY <1>3, <2>1
<1>5. CASE q \in {"PL0", "PROG"}
  <2>1. PhaseAt(q, n + 1) = 4
    BY <1>2, <1>5, PhasesOfRules
  <2> QED BY <1>3, <2>1
<1>6. CASE q = "PROC"
  <2>1. PhaseAt(q, n + 1) = 4
    BY <1>1, <1>2, <1>6, PhasesOfRules
  <2> QED BY <1>3, <2>1
<1>7. CASE q = "SUBPROG"
  BY <1>2, <1>7 DEF PhaseAt, ConstantRules, VariableRules
<1>8. CASE q \in ConstantRules \cup VariableRules \cup {"EPROC", "PROCH"}
  <2>1. PhaseAt(q, n) = PhaseAt(q, n + 1)
    BY <1>2, <1>8, PhasesOfRules
  <2> QED BY <1>3, <2>1
<1> QED BY <1>4, <1>5, <1>6, <1>7, <1>8, DeclarationKinds

\* What the phase says of the innermost item.
LEMMA PhaseOfItem ==
  ASSUME NEW its, OnTrack(its), NEW it, it = its[Len(its)]
  PROVE  /\ Phase(its) \in {1, 2, 3, 4}
         /\ it \in Items /\ it.rule \in DOMAIN Rules /\ Len(it.vals) \in Nat
         /\ Phase(its) = IF Leaving(its) THEN 4 ELSE PhaseAt(it.rule, Len(it.vals))
         /\ Ended(its) => Phase(its) = 4
         /\ it.rule \notin Declarations => Phase(its) = 4
<1>1. it \in Items /\ it.rule \in DOMAIN Rules /\ Len(it.vals) \in Nat
  <2>1. it \in Items
    BY DEF OnTrack
  <2>2. it.rule \in DOMAIN Rules /\ it.vals \in Seq(AllValues)
    BY <2>1 DEF Items
  <2> QED BY <2>1, <2>2
<1>2. Phase(its) = IF Leaving(its) THEN 4 ELSE PhaseAt(it.rule, Len(it.vals))
  BY DEF Phase
<1>3. Phase(its) \in {1, 2, 3, 4}
  BY <1>2, FourPhases
<1>4. ASSUME Ended(its) PROVE Phase(its) = 4
  <2>1. it.rule \in {"PL0", "PROG"} /\ it.vals # <<>>
    BY <1>4 DEF Ended
  <2>2. it.vals \in Seq(AllValues)
    BY <1>1 DEF Items
  <2>3. Len(it.vals) # 0
    BY <2>1, <2>2
  <2>4. PhaseAt(it.rule, Len(it.vals)) = 4
    BY <1>1, <2>1, <2>3, PhasesOfRules
  <2> QED BY <1>2, <2>4
<1>5. ASSUME it.rule \notin Declarations PROVE Phase(its) = 4
  <2>1. PhaseAt(it.rule, Len(it.vals)) = 4
    BY <1>1, <1>5, PhasesOfRules
  <2> QED BY <1>2, <2>1
<1> QED BY <1>1, <1>2, <1>3, <1>4, <1>5

\* A rule begins.
LEMMA PhaseAfterExpand ==
  ASSUME OnTrack(items), OneProcedure(items), NEW p \in DOMAIN Rules, ~Complete,
         Upcoming = lhs(p), p = "PROC" => r # "PROC", items' = Append(items, Item(p, <<>>))
  PROVE  Phase(items) <= Phase(items')
<1> DEFINE n == Len(items)
<1>1. /\ n \in Nat /\ n >= 1 /\ r = items[n].rule /\ v = items[n].vals
      /\ r \in DOMAIN Rules /\ Len(v) \in Nat /\ Len(v) <= Len(rhs(r)) /\ Len(rhs(r)) \in Nat
      /\ Len(v) # Len(rhs(r)) /\ Upcoming = rhs(r)[Len(v) + 1]
  BY Innermost
<1>2. items \in Seq(Items) /\ OnTrack(items')
  BY Expanded DEF OnTrack
<1>3. Len(items') = n + 1 /\ items'[n + 1] = Item(p, <<>>)
  BY <1>1, <1>2
<1>4. items'[Len(items')].rule = p /\ Len(items'[Len(items')].vals) = 0
  BY <1>3 DEF Item
<1>5. /\ Phase(items) \in {1, 2, 3, 4}
      /\ Phase(items) = IF Leaving(items) THEN 4 ELSE PhaseAt(r, Len(v))
  BY <1>1, PhaseOfItem
<1>6. /\ Phase(items') \in {1, 2, 3, 4}
      /\ Phase(items') = IF Leaving(items') THEN 4 ELSE PhaseAt(p, 0)
  BY <1>2, <1>4, PhaseOfItem
<1>7. Leaving(items') <=> Leaving(items)
  BY AfterExpand
<1>8. CASE Leaving(items)
  BY <1>5, <1>6, <1>7, <1>8
<1>9. CASE ~Leaving(items)
  <2>1. r = "PROC" => p \notin {"PROC", "EPROC"}
    <3> SUFFICES ASSUME r = "PROC", p = "EPROC" PROVE FALSE
      OBVIOUS
    <3>1. BlocksInPlace(r) /\ RhsIsSequence(r) /\ Len(v) + 1 \in DOMAIN rhs(r)
      BY <1>1, BlocksInPlaceEverywhere, RhsAreSequences DEF RhsIsSequence
    <3>2. Len(v) + 1 = 4
      BY <1>1, <3>1, BlockShapes DEF BlocksInPlace
    <3>3. HasLeft(items[n])
      BY <1>1, <3>2 DEF HasLeft
    <3> QED BY <1>9, <3>3 DEF Leaving
  <2>2. Len(v) < Len(rhs(r)) /\ lhs(p) = rhs(r)[Len(v) + 1]
    BY <1>1
  <2>3. PhaseAt(r, Len(v)) <= PhaseAt(p, 0)
    BY <1>1, <2>1, <2>2, PhaseEntered
  <2> QED BY <1>5, <1>6, <1>7, <1>9, <2>3
<1> QED BY <1>8, <1>9

\* A terminal is read.
LEMMA PhaseAfterShift ==
  ASSUME OnTrack(items), OneProcedure(items), ~Complete, Upcoming \in Terminals,
         NEW token \in Tokens(Upcoming), items' = Recognized(items, token)
  PROVE  Phase(items) <= Phase(items')
<1> DEFINE n == Len(items)
<1>1. /\ n \in Nat /\ n >= 1 /\ r = items[n].rule /\ v = items[n].vals
      /\ r \in DOMAIN Rules /\ Len(v) \in Nat /\ Len(v) <= Len(rhs(r)) /\ Len(rhs(r)) \in Nat
      /\ Len(v) # Len(rhs(r)) /\ Upcoming = rhs(r)[Len(v) + 1]
      /\ items[n] \in Items
  BY Innermost
<1>2. OnTrack(items')
  BY Shifted
<1>3. items \in Seq(Items) /\ v \in Seq(AllValues)
  BY Innermost DEF OnTrack
<1>4. Len(items') = n /\ items'[n].rule = r /\ items'[n].vals = Append(v, token)
  BY <1>1, <1>3 DEF Recognized, Items
<1>6. Len(items'[n].vals) = Len(v) + 1
  BY <1>3, <1>4
<1>7. /\ Phase(items) \in {1, 2, 3, 4}
      /\ Phase(items) = IF Leaving(items) THEN 4 ELSE PhaseAt(r, Len(v))
  BY <1>1, PhaseOfItem
<1>8. /\ Phase(items') \in {1, 2, 3, 4}
      /\ Phase(items') = IF Leaving(items') THEN 4 ELSE PhaseAt(r, Len(v) + 1)
  <2> DEFINE it == items'[n]
  <2>1. it = items'[Len(items')] /\ it.rule = r /\ Len(it.vals) = Len(v) + 1
    BY <1>4, <1>6
  <2> HIDE DEF it
  <2> QED BY <1>2, <2>1, PhaseOfItem
<1>9. Leaving(items') <=> Leaving(items)
  BY AfterShift
<1>10. Len(v) < Len(rhs(r)) /\ rhs(r)[Len(v) + 1] \in Terminals
  BY <1>1
<1>11. PhaseAt(r, Len(v)) <= PhaseAt(r, Len(v) + 1)
  BY <1>1, <1>10, PhaseRead
<1> QED BY <1>7, <1>8, <1>9, <1>11

\* A rule is reduced: only the header of a procedure goes back, to the first phase
\* of the procedure's block, and the end of one, to the block around it.
LEMMA PhaseAfterReduction ==
  ASSUME OnTrack(items), OneProcedure(items), Complete, r # "PL0",
         NEW value \in ValuesOf(lhs(r)), items' = Recognized(Front(items), value)
  PROVE  /\ r \notin {"PROC", "PROCH"} => Phase(items) <= Phase(items')
         /\ r = "PROC" => Phase(items) = 4 /\ Phase(items') = 3
         /\ r = "PROCH" => Phase(items) = 3 /\ Phase(items') = 1
<1> DEFINE n == Len(items)
           q == items[n - 1].rule
           m == Len(items[n - 1].vals)
<1>1. /\ n \in Nat /\ n >= 2 /\ Len(items') = n - 1
      /\ r = items[n].rule /\ r \in DOMAIN Rules
      /\ q \in DOMAIN Rules /\ m \in Nat
      /\ m < Len(rhs(q)) /\ rhs(q)[m + 1] = lhs(r)
      /\ items'[n - 1].rule = q /\ Len(items'[n - 1].vals) = m + 1
  BY BelowReduction DEF Awaits, Items
<1>2. v = items[n].vals /\ Len(v) = Len(rhs(r)) /\ Len(v) \in Nat
  BY Innermost
<1>3. OnTrack(items')
  BY Reduced
<1>4. /\ Phase(items) \in {1, 2, 3, 4}
      /\ Phase(items) = IF Leaving(items) THEN 4 ELSE PhaseAt(r, Len(v))
  BY <1>1, <1>2, PhaseOfItem
<1>5. /\ Phase(items') \in {1, 2, 3, 4}
      /\ Phase(items') = IF Leaving(items') THEN 4 ELSE PhaseAt(q, m + 1)
      /\ Ended(items') => Phase(items') = 4
  BY <1>1, <1>3, PhaseOfItem
<1>6. /\ r \notin {"PROC", "EPROC"} => ~Leaving(items)
      /\ r = "SUBPROG" => Ended(items') \/ Leaving(items')
      /\ r = "PROC" => Leaving(items) /\ ~Leaving(items')
      /\ r \notin {"PROC", "SUBPROG"} => (Leaving(items') <=> Leaving(items))
  BY AfterReduction
<1>7. BlocksInPlace(q) /\ HeadersInPlace(q) /\ RhsIsSequence(q)
  BY <1>1, BlocksInPlaceEverywhere, HeadersInPlaceEverywhere, RhsAreSequences
<1>8. m + 1 \in DOMAIN rhs(q)
  BY <1>1, <1>7 DEF RhsIsSequence
<1>9. ~Leaving(items) /\ r \notin {"PROC", "PROCH"} => PhaseAt(r, Len(v)) <= PhaseAt(q, m + 1)
  BY <1>1, <1>2, PhaseReturned
<1>10. HasLeft(items'[n - 1]) => Leaving(items')
  BY <1>1 DEF Leaving
<1> HIDE DEF n, q, m
<1>11. ASSUME r \notin {"PROC", "PROCH"} PROVE Phase(items) <= Phase(items')
  <2>1. CASE r = "SUBPROG"
    BY <1>4, <1>5, <1>6, <2>1
  <2>2. CASE r # "SUBPROG" /\ Leaving(items)
    BY <1>4, <1>5, <1>6, <1>11, <2>2
  <2>3. CASE r # "SUBPROG" /\ ~Leaving(items)
    BY <1>4, <1>5, <1>6, <1>9, <1>11, <2>3
  <2> QED BY <2>1, <2>2, <2>3
<1>12. ASSUME r = "PROC" PROVE Phase(items) = 4 /\ Phase(items') = 3
  <2>1. (q = "SUBPROG" /\ m + 1 = 3) \/ (q = "PROC" /\ m + 1 = 4)
    BY <1>1, <1>7, <1>8, <1>12, BlockShapes DEF BlocksInPlace
  <2>2. ~(q = "PROC" /\ m + 1 = 4)
    BY <1>1, <1>6, <1>10, <1>12 DEF HasLeft
  <2>3. PhaseAt(q, m + 1) = 3
    BY <1>1, <2>1, <2>2, PhasesOfRules
  <2> QED BY <1>4, <1>5, <1>6, <1>12, <2>3
<1>13. ASSUME r = "PROCH" PROVE Phase(items) = 3 /\ Phase(items') = 1
  <2>1. q = "PROC" /\ m + 1 = 1
    BY <1>1, <1>7, <1>8, <1>13, BlockShapes DEF HeadersInPlace
  <2>2. PhaseAt(q, m + 1) = 1 /\ PhaseAt(r, Len(v)) = 3
    BY <1>1, <1>2, <1>13, <2>1, PhasesOfRules
  <2> QED BY <1>4, <1>5, <1>6, <1>13, <2>2
<1> QED BY <1>11, <1>12, <1>13

----------------------------------------------------------------------------
(***************************************************************************)
(* Operands are filled in once.                                            *)
(***************************************************************************)

\* Code d goes on from code c: every instruction is still there, and the same,
\* but for operands that were missing.
Kept(c, d) ==
  /\ Len(d) >= Len(c)
  /\ \A k \in 1..Len(c) : d[k].type = c[k].type /\ (~Blank(c[k]) => d[k] = c[k])

\* Code goes on from itself, ...
LEMMA KeptAsIs ==
  ASSUME NEW c \in Seq(Instructions)
  PROVE  Kept(c, c)
BY DEF Kept

\* ... when instructions are added, ...
LEMMA KeptByAdding ==
  ASSUME NEW c \in Seq(Instructions), NEW e \in Seq(Instructions)
  PROVE  /\ Kept(c, c \o e) /\ c \o e \in Seq(Instructions)
         /\ Len(c \o e) = Len(c) + Len(e)
         /\ \A k \in 1..Len(c) : (c \o e)[k] = c[k]
         /\ \A k \in 1..Len(e) : (c \o e)[Len(c) + k] = e[k]
<1>1. /\ c \o e \in Seq(Instructions) /\ Len(c \o e) = Len(c) + Len(e)
      /\ \A k \in 1..Len(c) : (c \o e)[k] = c[k]
      /\ \A k \in 1..Len(e) : (c \o e)[Len(c) + k] = e[k]
  OBVIOUS
<1> QED BY <1>1 DEF Kept

\* ... if only one, ...
LEMMA KeptByOne ==
  ASSUME NEW c \in Seq(Instructions), NEW i \in Instructions
  PROVE  /\ c \o <<i>> = Append(c, i) /\ Kept(c, Append(c, i))
         /\ Append(c, i) \in Seq(Instructions) /\ Len(Append(c, i)) = Len(c) + 1
         /\ Append(c, i)[Len(c) + 1] = i
<1>1. c \o <<i>> = Append(c, i)
  OBVIOUS
<1>2. /\ Append(c, i) \in Seq(Instructions) /\ Len(Append(c, i)) = Len(c) + 1
      /\ Append(c, i)[Len(c) + 1] = i /\ \A k \in 1..Len(c) : Append(c, i)[k] = c[k]
  OBVIOUS
<1> QED BY <1>1, <1>2 DEF Kept

\* ... and when a missing operand is filled in.
LEMMA KeptByFilling ==
  ASSUME NEW c \in Seq(Instructions), NEW d \in Seq(Instructions), Kept(c, d),
         NEW a \in Blanks(c), NEW x \in Int
  PROVE  /\ Kept(c, Backfill(d, a, x)) /\ Backfill(d, a, x) \in Seq(Instructions)
         /\ Len(Backfill(d, a, x)) = Len(d) /\ Backfill(d, a, x)[a + 1].a = x
         /\ \A b \in 0..(Len(d) - 1) : /\ Backfill(d, a, x)[b + 1].type = d[b + 1].type
                                       /\ b # a => Backfill(d, a, x)[b + 1] = d[b + 1]
<1> DEFINE f == Backfill(d, a, x)
<1>1. a \in 0..(Len(c) - 1) /\ Blank(c[a + 1]) /\ Len(c) \in Nat /\ Len(d) \in Nat /\ Len(d) >= Len(c)
  BY DEF Blanks, Kept
<1>2. a \in 0..(Len(d) - 1)
  BY <1>1
<1>3. /\ f \in Seq(Instructions) /\ Len(f) = Len(d)
      /\ f[a + 1].type = d[a + 1].type /\ f[a + 1].a = x
      /\ \A b \in 0..(Len(d) - 1) : b # a => f[b + 1] = d[b + 1]
  BY <1>2, Filled
<1> HIDE DEF f
<1>4. \A k \in 1..Len(c) : f[k].type = c[k].type /\ (~Blank(c[k]) => f[k] = c[k])
  <2> SUFFICES ASSUME NEW k \in 1..Len(c) PROVE f[k].type = c[k].type /\ (~Blank(c[k]) => f[k] = c[k])
    OBVIOUS
  <2>1. d[k].type = c[k].type /\ (~Blank(c[k]) => d[k] = c[k])
    BY DEF Kept
  <2>2. CASE k = a + 1
    BY <1>1, <1>3, <2>1, <2>2
  <2>3. CASE k # a + 1
    <3>1. k - 1 \in 0..(Len(d) - 1) /\ k - 1 # a /\ (k - 1) + 1 = k
      BY <1>1, <2>3
    <3>2. f[(k - 1) + 1] = d[(k - 1) + 1]
      BY <1>3, <3>1
    <3> QED BY <2>1, <3>1, <3>2
  <2> QED BY <2>2, <2>3
<1>5. Kept(c, f)
  BY <1>1, <1>3, <1>4 DEF Kept
<1> QED BY <1>3, <1>5 DEF f

\* The stacks' bottom is the prologue of the main program.
MainAtBottom ==
  status = "parsing" => proc_int_backfill[1] = 0 /\ proc_body_backfill[1].jmp_inst = 1

\* The stacks of procedures are never empty, and deeper still when a procedure ends.
LEMMA StacksNotEmpty ==
  ASSUME IInv, status = "parsing"
  PROVE  /\ Len(proc_int_backfill) \in Nat /\ Len(proc_int_backfill) >= 1
         /\ Len(proc_body_backfill) = Len(proc_int_backfill)
         /\ r = "PROC" /\ Complete => Len(proc_int_backfill) >= 2
BY SMTT(60), BeforeReduction DEF StacksDeep, HasDepth

\* Before anything is read the main program's prologue is the only one.
LEMMA InitMainAtBottom == Init => MainAtBottom
BY DEF Init, MainAtBottom

\* The main program's prologue stays at the bottom.
LEMMA NextMainAtBottom ==
  ASSUME IInv, MainAtBottom, [Next]_vars
  PROVE  MainAtBottom'
<1> USE DEF MainAtBottom
<1>1. CASE UNCHANGED <<status, proc_int_backfill, proc_body_backfill>>
  BY <1>1
<1>2. CASE UNCHANGED <<proc_int_backfill, proc_body_backfill>> /\ status = "parsing"
  BY <1>2
<1>3. ASSUME status = "parsing", PushPrologue
      PROVE  MainAtBottom'
  <2>1. /\ proc_int_backfill \in Seq(Nat) /\ proc_body_backfill \in Seq(BodyEntries)
        /\ Len(proc_int_backfill) >= 1 /\ Len(proc_body_backfill) >= 1
        /\ Len(proc_int_backfill) \in Nat
    BY <1>3, BeforeReduction, StacksNotEmpty
  <2>2. proc_int_backfill'[1] = proc_int_backfill[1] /\ proc_body_backfill'[1] = proc_body_backfill[1]
    BY <1>3, <2>1 DEF PushPrologue
  <2> QED BY <1>3, <2>2
<1>4. ASSUME ProcedureEnd
      PROVE  MainAtBottom'
  <2> DEFINE P == proc_int_backfill
             B == proc_body_backfill
  <2>1. status = "parsing" /\ r = "PROC" /\ Complete
    BY <1>4 DEF ProcedureEnd, Reducing, Reading
  <2>2. P \in Seq(Nat) /\ B \in Seq(BodyEntries)
    BY <2>1, BeforeReduction
  <2>3. Len(P) \in Nat /\ Len(P) >= 2 /\ Len(B) = Len(P) /\ P # <<>> /\ B # <<>>
    BY <2>1, <2>2, StacksNotEmpty
  <2>4. P' = Front(P) /\ B' = UpdateUpper(Front(B))
    BY <1>4 DEF ProcedureEnd
  <2>5. Front(P)[1] = P[1]
    BY <2>2, <2>3, Popped
  <2> DEFINE F == Front(B)
  <2>6. F \in Seq(BodyEntries) /\ Len(F) = Len(B) - 1 /\ F[1] = B[1]
    BY <2>2, <2>3, Popped
  <2>7. F # <<>>
    BY <2>3, <2>6
  <2> HIDE DEF F, P, B
  <2>8. UpdateUpper(F)[1].jmp_inst = F[1].jmp_inst
    <3>1. length \in Nat
      BY <2>1, BeforeReduction
    <3>2. JmpsOf(UpdateUpper(F)) = JmpsOf(F) /\ UpdateUpper(F) \in Seq(BodyEntries) /\ Len(UpdateUpper(F)) = Len(F)
      BY <2>6, <2>7, <3>1, UpperUpdated
    <3>3. /\ \A k \in 1..Len(F) : JmpsOf(F)[k] = F[k].jmp_inst
          /\ \A k \in 1..Len(UpdateUpper(F)) : JmpsOf(UpdateUpper(F))[k] = UpdateUpper(F)[k].jmp_inst
      BY <2>6, <3>2, JmpsAreStack
    <3>4. 1 \in 1..Len(F)
      BY <2>3, <2>6
    <3> QED BY <3>2, <3>3, <3>4
  <2>9. P[1] = 0 /\ B[1].jmp_inst = 1
    BY <2>1 DEF P, B
  <2> QED BY <2>4, <2>5, <2>6, <2>8, <2>9 DEF P, B, F
<1>5. ASSUME NEW p \in Productions, Expand(p)
      PROVE  MainAtBottom'
  BY <1>2, <1>5 DEF Expand, Reading, stacks, procStacks
<1>6. ASSUME Shift \/ Default \/ Declare \/ EmitSimple \/ ReadOperator \/ ApplyOperator
      PROVE  MainAtBottom'
  BY <1>2, <1>6 DEF Shift, Default, Declare, EmitSimple, ReadOperator, ApplyOperator,
       Reducing, Reading, stacks, procStacks
<1>7. ASSUME Assertion \/ Assign \/ IfHeader \/ IfEnd \/ WhileEntry \/ WhileHeader \/ WhileEnd
      PROVE  MainAtBottom'
  BY <1>2, <1>7 DEF Assertion, Assign, IfHeader, IfEnd, WhileEntry, WhileHeader, WhileEnd,
       Reducing, Reading, stacks, procStacks
<1>8. ASSUME Succeed \/ SyntaxErrorFound
      PROVE  MainAtBottom'
  BY <1>8 DEF Succeed, SyntaxErrorFound
<1>9. ASSUME ProcedureHeader \/ LexicalError
      PROVE  MainAtBottom'
  BY <1>3, <1>9 DEF ProcedureHeader, LexicalError, Reducing, Reading
<1>10. ASSUME UNCHANGED vars
       PROVE  MainAtBottom'
  BY <1>1, <1>10 DEF vars, automaton, stacks, procStacks
<1> QED BY <1>4, <1>5, <1>6, <1>7, <1>8, <1>9, <1>10 DEF Next, Done

\* Instructions that neither load nor store a variable.
Accesses == {"LOD", "STO"}
AccessFree(e) == \A k \in 1..Len(e) : e[k].type \notin Accesses

\* What operations and literals emit reads and writes no variable.
LEMMA OperationsAccessFree ==
  /\ \A id : AccessFree(insert_opr(id))
  /\ \A x : AccessFree(load_number(x))
  /\ AccessFree(<<>>) /\ AccessFree(<<inst_t("JPC", 0, 0)>>) /\ AccessFree(Prologue)
BY DEF AccessFree, Accesses, insert_opr, load_number, inst_t, Prologue

\* The actions that emit operations, literals and jumps.
Operating == ReadOperator \/ ApplyOperator \/ Assertion \/ IfHeader \/ WhileHeader

\* What these emit.
LEMMA OperationsEmitted ==
  ASSUME IInv, Operating
  PROVE  \E e \in Seq(Instructions) : insert(e) /\ AccessFree(e)
<1>1. OnTrack(items) /\ Reading /\ Complete
  BY DEF IInv, Operating, ReadOperator, ApplyOperator, Assertion, IfHeader, WhileHeader,
     Reducing, Reading
<1>2. CASE ReadOperator
  <2>1. Solid(Minuend) /\ AccessFree(Minuend)
    BY NoCode, Literals, OperationsAccessFree DEF Minuend
  <2> QED BY <1>2, <2>1 DEF ReadOperator, Solid
<1>3. CASE ApplyOperator
  <2>1. r \in {"OPTFACTOR", "OPTEXPRITEM", "FEXPRITEM", "EXPR", "EXPRITEM"}
    BY <1>3 DEF ApplyOperator, Reducing
  <2>2. Len(rhs(r)) >= 1 /\ Len(rhs(r)) \in Nat
    BY <1>1, <2>1, ExpressionsRules, Innermost
  <2>3. v[1].desc \in Int
    BY <1>1, <2>2, ValuesComplete
  <2>4. Solid(Pending(v[1])) /\ AccessFree(Pending(v[1]))
    BY <2>3, Operations, NoCode, OperationsAccessFree DEF Pending
  <2> QED BY <1>3, <2>4 DEF ApplyOperator, Solid
<1>4. CASE Assertion
  <2> DEFINE e == insert_opr(IF r = "ASSERTION" THEN v[2].desc ELSE OPR_ODD)
  <2>1. Solid(e) /\ AccessFree(e)
    <3>1. CASE r = "ASSERTION"
      <4>1. Len(rhs(r)) = 3
        BY <3>1, ExpressionsRules
      <4>2. v[2].desc \in Int
        BY <1>1, <4>1, ValuesComplete
      <4> QED BY <3>1, <4>2, Operations, OperationsAccessFree
    <3>2. CASE r # "ASSERTION"
      BY <3>2, Operations, OperationsAccessFree DEF OPR_ODD
    <3> QED BY <3>1, <3>2
  <2>2. insert(e)
    BY <1>4 DEF Assertion
  <2> QED BY <2>1, <2>2 DEF Solid
<1>5. CASE IfHeader \/ WhileHeader
  <2> DEFINE i == inst_t("JPC", 0, 0)
  <2>1. i \in Instructions /\ AccessFree(<<i>>)
    BY OperationsAccessFree DEF inst_t, Instructions, InstTypes
  <2>2. insert(<<i>>)
    BY <1>5 DEF IfHeader, WhileHeader
  <2> HIDE DEF i
  <2> DEFINE e == <<i>>
  <2>3. e \in Seq(Instructions) /\ insert(e) /\ AccessFree(e)
    BY <2>1, <2>2
  <2> HIDE DEF e
  <2> QED BY <2>3
<1> QED BY <1>2, <1>3, <1>4, <1>5 DEF Operating

\* What simple statements, factors and assignments emit.
LEMMA NamesEmitted ==
  ASSUME IInv, EmitSimple \/ Assign
  PROVE  \E e \in Seq(Instructions) :
           insert(e) /\ e = IF r = "ASSIGN" THEN store_id(v[1].name) ELSE Emitted
<1>1. OnTrack(items) /\ Table!IInv /\ Complete
  BY DEF IInv, EmitSimple, Assign, Reducing, Reading
<1>2. CASE EmitSimple
  <2>1. r \in Simple /\ r # "ASSIGN" /\ insert(Emitted)
    BY <1>2 DEF EmitSimple, Reducing, Simple
  <2>2. Emitted \in Seq(Instructions)
    BY <1>1, <2>1, SolidEmitted DEF Solid
  <2> QED BY <2>1, <2>2
<1>3. CASE Assign
  <2>1. r = "ASSIGN" /\ insert(store_id(v[1].name))
    BY <1>3 DEF Assign, Reducing
  <2>2. store_id(v[1].name) \in Seq(Instructions)
    BY <1>1, NamesLoaded DEF Solid
  <2> QED BY <2>1, <2>2
<1> QED BY <1>2, <1>3

\* The code of a prologue.
LEMMA PrologueIsCode == Prologue \in Seq(Instructions) /\ Len(Prologue) = 2
<1>1. inst_t("INT", 0, 0) \in Instructions /\ inst_t("JMP", 0, 0) \in Instructions
  BY DEF inst_t, Instructions, InstTypes
<1> QED BY <1>1 DEF Prologue

\* The tops of the stacks are addresses of missing operands.
LEMMA TopsAreBlank ==
  ASSUME IInv, status = "parsing"
  PROVE  /\ Last(proc_int_backfill) \in Blanks(code)
         /\ Last(proc_body_backfill).jmp_inst \in Blanks(code)
         /\ Last(proc_body_backfill).proc_body \in Nat \ {0}
         /\ if_not_backfill # <<>> => Last(if_not_backfill) \in Blanks(code)
         /\ while_not_backfill # <<>> => Last(while_not_backfill) \in Blanks(code)
<1>1. /\ proc_int_backfill \in Seq(Nat) /\ if_not_backfill \in Seq(Nat)
      /\ while_not_backfill \in Seq(Nat) /\ proc_body_backfill \in Seq(BodyEntries)
      /\ JmpsOf(proc_body_backfill) \in Seq(Nat) /\ AllQueued
  BY BeforeReduction
<1>2. proc_int_backfill # <<>> /\ proc_body_backfill # <<>>
  BY <1>1, StacksNotEmpty
<1>3. /\ JmpsOf(proc_body_backfill) # <<>> /\ Last(proc_body_backfill) \in BodyEntries
      /\ Last(proc_body_backfill).jmp_inst = Last(JmpsOf(proc_body_backfill))
  BY <1>1, <1>2, JmpsPopped
<1>4. /\ Last(proc_int_backfill) \in ToSet(proc_int_backfill)
      /\ Last(JmpsOf(proc_body_backfill)) \in ToSet(JmpsOf(proc_body_backfill))
      /\ if_not_backfill # <<>> => Last(if_not_backfill) \in ToSet(if_not_backfill)
      /\ while_not_backfill # <<>> => Last(while_not_backfill) \in ToSet(while_not_backfill)
  BY <1>1, <1>2, <1>3, Popped
<1>5. ToSet(proc_int_backfill) \cup ToSet(if_not_backfill) \cup ToSet(while_not_backfill)
        \cup ToSet(JmpsOf(proc_body_backfill)) = Blanks(code)
  BY <1>1 DEF AllQueued, Queues
<1>6. Last(proc_body_backfill).proc_body \in Nat \ {0}
  BY <1>3 DEF BodyEntries
<1> QED BY <1>3, <1>4, <1>5, <1>6

\* The main program's own operands are missing until the end.
LEMMA BottomIsBlank ==
  ASSUME IInv, MainAtBottom, status = "parsing"
  PROVE  0 \in Blanks(code) /\ 1 \in Blanks(code)
<1>1. /\ proc_int_backfill \in Seq(Nat) /\ proc_body_backfill \in Seq(BodyEntries) /\ AllQueued
  BY BeforeReduction
<1>2. 1 \in DOMAIN proc_int_backfill /\ 1 \in 1..Len(proc_body_backfill)
  BY <1>1, StacksNotEmpty
<1>3. /\ JmpsOf(proc_body_backfill) \in Seq(Nat) /\ 1 \in 1..Len(JmpsOf(proc_body_backfill))
      /\ JmpsOf(proc_body_backfill)[1] = 1
  BY <1>1, <1>2, JmpsAreStack DEF MainAtBottom
<1> DEFINE J == JmpsOf(proc_body_backfill)
<1>4. J[1] = 1 /\ 1 \in DOMAIN J
  BY <1>3
<1> HIDE DEF J
<1>5. 0 \in ToSet(proc_int_backfill) /\ 1 \in ToSet(J)
  BY <1>2, <1>4 DEF ToSet, MainAtBottom
<1> QED BY <1>1, <1>5 DEF AllQueued, Queues, J

\* A block is finished: the return is added, and two operands are filled in.
LEMMA FinishedCode ==
  ASSUME code \in Seq(Instructions), NEW a \in Blanks(code), NEW b \in Blanks(code),
         NEW x \in Int, NEW y \in Int,
         code' = Backfill(Backfill(code \o insert_opr(OPR_RET), a, x), b, y)
  PROVE  /\ Kept(code, code') /\ code' \in Seq(Instructions) /\ Len(code') = Len(code) + 1
         /\ code'[Len(code) + 1].type = "OPR" /\ code'[b + 1].a = y
         /\ a # b => code'[a + 1].a = x
<1> DEFINE ret == insert_opr(OPR_RET)
           longer == code \o ret
           mid == Backfill(longer, a, x)
           c == Backfill(mid, b, y)
<1> DEFINE i == inst_t("OPR", 0, OPR_RET)
<1>1. ret = <<i>> /\ i \in Instructions /\ i.type = "OPR"
  BY DEF inst_t, Instructions, InstTypes, OPR_RET, insert_opr, OPR_NOP
<1>2. a \in 0..(Len(code) - 1) /\ b \in 0..(Len(code) - 1) /\ Len(code) \in Nat
  BY DEF Blanks
<1> HIDE DEF ret, i
<1>3. /\ Kept(code, longer) /\ longer \in Seq(Instructions) /\ Len(longer) = Len(code) + 1
      /\ longer[Len(code) + 1].type = "OPR"
  <2>1. longer = Append(code, i)
    BY <1>1, KeptByOne
  <2> HIDE DEF longer
  <2> QED BY <1>1, <2>1, KeptByOne
<1> HIDE DEF longer
<1>4. /\ Kept(code, mid) /\ mid \in Seq(Instructions) /\ Len(mid) = Len(code) + 1
      /\ mid[a + 1].a = x /\ mid[Len(code) + 1].type = "OPR"
  BY SMTT(60), <1>2, <1>3, KeptByFilling
<1> HIDE DEF mid
<1>5. /\ Kept(code, c) /\ c \in Seq(Instructions) /\ Len(c) = Len(code) + 1
      /\ c[b + 1].a = y /\ c[Len(code) + 1].type = "OPR" /\ (a # b => c[a + 1] = mid[a + 1])
  <2>1. /\ Kept(code, c) /\ c \in Seq(Instructions) /\ Len(c) = Len(mid) /\ c[b + 1].a = y
        /\ \A k \in 0..(Len(mid) - 1) : /\ c[k + 1].type = mid[k + 1].type
                                        /\ k # b => c[k + 1] = mid[k + 1]
    <3>1. code \in Seq(Instructions) /\ mid \in Seq(Instructions) /\ Kept(code, mid)
      BY <1>4
    <3>2. b \in Blanks(code) /\ y \in Int
      OBVIOUS
    <3> QED BY ONLY SMTT(60), <3>1, <3>2, KeptByFilling
  <2> HIDE DEF c
  <2>2. a \in 0..(Len(mid) - 1) /\ Len(code) \in 0..(Len(mid) - 1)
    BY <1>2, <1>4
  <2> QED BY <1>4, <2>1, <2>2
<1> HIDE DEF c
<1>6. code' = c
  BY DEF c, mid, longer, ret
<1> QED BY <1>4, <1>5, <1>6

\* The code that an action which starts or ends no procedure leaves behind, except
\* for the ones that look names up: the old code, and perhaps more behind it that
\* reads and writes no variable.
Quiet == \/ (\E p \in Productions : Expand(p)) \/ Shift \/ Default \/ Declare \/ WhileEntry
         \/ Operating \/ IfEnd \/ WhileEnd
NoNewAccess == \A k \in (Len(code) + 1)..Len(code') : code'[k].type \notin Accesses

\* Instructions are added behind the code.
LEMMA AddedCode ==
  ASSUME code \in Seq(Instructions), NEW e \in Seq(Instructions), AccessFree(e), code' = code \o e
  PROVE  Kept(code, code') /\ NoNewAccess /\ code' \in Seq(Instructions)
<1>1. /\ Kept(code, code') /\ Len(code') = Len(code) + Len(e) /\ code' \in Seq(Instructions)
      /\ \A k \in 1..Len(e) : code'[Len(code) + k] = e[k]
  BY KeptByAdding
<1>2. ASSUME NEW k \in (Len(code) + 1)..Len(code') PROVE code'[k].type \notin Accesses
  <2>1. Len(code) \in Nat /\ Len(e) \in Nat
    OBVIOUS
  <2>2. k - Len(code) \in 1..Len(e) /\ Len(code) + (k - Len(code)) = k
    BY <1>1, <2>1
  <2>3. code'[k] = e[k - Len(code)]
    BY <1>1, <2>2
  <2> QED BY <2>2, <2>3 DEF AccessFree
<1> QED BY <1>1, <1>2 DEF NoNewAccess

\* Such actions keep the operands they find.
LEMMA QuietCode ==
  ASSUME IInv, Quiet
  PROVE  Kept(code, code') /\ NoNewAccess
<1>1. status = "parsing"
  BY DEF Quiet, Operating, Expand, Shift, Default, Declare, WhileEntry, ReadOperator,
     ApplyOperator, Assertion, IfHeader, WhileHeader, IfEnd, WhileEnd, Reducing, Reading
<1>2. /\ code \in Seq(Instructions) /\ OnTrack(items) /\ HasDepth /\ StacksDeep
      /\ length \in Nat /\ length = Len(code) /\ length >= 2
      /\ while_not_backfill \in Seq(Nat) /\ while_entry_backfill \in Seq(Nat \ {0})
  BY <1>1, BeforeReduction
<1>3. CASE UNCHANGED code
  <2>1. \A k \in (Len(code) + 1)..Len(code) : FALSE
    BY <1>2
  <2> QED BY <1>2, <1>3, <2>1, KeptAsIs DEF NoNewAccess
<1>4. CASE Operating
  <2>1. PICK e \in Seq(Instructions) : insert(e) /\ AccessFree(e)
    BY <1>4, OperationsEmitted
  <2> QED BY <1>2, <2>1, AddedCode DEF insert
<1>5. CASE IfEnd
  <2>1. r = "CONDITION" /\ Complete /\ code' = Backfill(code, Last(if_not_backfill), length)
    BY <1>5 DEF IfEnd, Reducing, InnermostIf
  <2>2. if_not_backfill # <<>>
    BY <1>2, <2>1 DEF StacksDeep, HasDepth
  <2>3. Last(if_not_backfill) \in Blanks(code)
    BY <1>1, <2>2, TopsAreBlank
  <2>4. Kept(code, code') /\ Len(code') = Len(code)
    BY <1>2, <2>1, <2>3, KeptAsIs, KeptByFilling
  <2>5. \A k \in (Len(code) + 1)..Len(code) : FALSE
    BY <1>2
  <2> QED BY <2>4, <2>5 DEF NoNewAccess
<1>6. CASE WhileEnd
  <2> DEFINE back == inst_t("JMP", 0, Last(while_entry_backfill))
             longer == Append(code, back)
  <2>1. /\ r = "WHILE" /\ Complete
        /\ code' = Backfill(longer, Last(while_not_backfill), length + 1)
    BY <1>6 DEF WhileEnd, Reducing, LoopExit
  <2>2. while_not_backfill # <<>> /\ while_entry_backfill # <<>>
    BY <1>2, <2>1 DEF StacksDeep, HasDepth
  <2>3. Last(while_not_backfill) \in Blanks(code)
    BY <1>1, <2>2, TopsAreBlank
  <2>4. Last(while_entry_backfill) \in Nat \ {0}
    BY <1>2, <2>2, Popped
  <2>5. back \in Instructions /\ back.type = "JMP"
    BY <2>4 DEF inst_t, Instructions, InstTypes
  <2> HIDE DEF back
  <2>7. /\ Kept(code, longer) /\ longer \in Seq(Instructions) /\ Len(longer) = Len(code) + 1
        /\ longer[Len(code) + 1] = back
    BY <1>2, <2>5, KeptByOne
  <2> HIDE DEF longer
  <2>8. length + 1 \in Int /\ Len(code) \in 0..(Len(longer) - 1)
    BY <1>2, <2>7
  <2>9. /\ Kept(code, code') /\ Len(code') = Len(code) + 1
        /\ code'[Len(code) + 1].type = longer[Len(code) + 1].type
    BY <1>2, <2>1, <2>3, <2>7, <2>8, KeptByFilling
  <2>10. \A k \in (Len(code) + 1)..(Len(code) + 1) : k = Len(code) + 1
    BY <1>2
  <2> QED BY <2>5, <2>7, <2>9, <2>10 DEF NoNewAccess, Accesses
<1>7. ASSUME (\E p \in Productions : Expand(p)) \/ Shift \/ Default \/ Declare \/ WhileEntry
      PROVE  UNCHANGED code
  BY <1>7 DEF Expand, Shift, Default, Declare, WhileEntry
<1> QED BY <1>3, <1>4, <1>5, <1>6, <1>7 DEF Quiet

\* So do all the others.
LEMMA OperandsKept ==
  ASSUME IInv, MainAtBottom, status = "parsing", [Next]_vars
  PROVE  Kept(code, code')
<1>1. code \in Seq(Instructions) /\ Table!IInv
  BY BeforeReduction
<1>2. CASE Quiet
  BY <1>2, QuietCode
<1>3. CASE EmitSimple \/ Assign
  <2>1. PICK e \in Seq(Instructions) : insert(e)
    BY <1>3, NamesEmitted
  <2> QED BY <1>1, <2>1, KeptByAdding DEF insert
<1>4. CASE ProcedureHeader \/ LexicalError
  <2>1. code' = code \o Prologue
    BY <1>4 DEF ProcedureHeader, LexicalError, insert
  <2> QED BY <1>1, <2>1, PrologueIsCode, KeptByAdding
<1>5. CASE ProcedureEnd
  <2>1. code' = Backfill(Backfill(code \o insert_opr(OPR_RET), Last(proc_int_backfill), FrameSize),
                         Last(proc_body_backfill).jmp_inst, Last(proc_body_backfill).proc_body)
    BY <1>5 DEF ProcedureEnd
  <2>2. FrameSize \in Int /\ Last(proc_body_backfill).proc_body \in Int
    BY <1>1, FrameSizes, TopsAreBlank
  <2> QED BY <1>1, <2>1, <2>2, TopsAreBlank, FinishedCode
<1>6. CASE Succeed
  <2>1. code' = Backfill(Backfill(code \o insert_opr(OPR_RET), 0, Symbol!countLayerSize),
                         1, Last(proc_body_backfill).proc_body)
    BY <1>6 DEF Succeed
  <2>2. Symbol!countLayerSize \in Int /\ Last(proc_body_backfill).proc_body \in Int
    BY <1>1, FrameSizes, TopsAreBlank
  <2>3. 0 \in Blanks(code) /\ 1 \in Blanks(code)
    BY BottomIsBlank
  <2> QED BY <1>1, <2>1, <2>2, <2>3, FinishedCode
<1>7. CASE UNCHANGED code
  BY <1>1, <1>7, KeptAsIs
<1>8. Next => Quiet \/ EmitSimple \/ Assign \/ ProcedureHeader \/ LexicalError \/ ProcedureEnd
              \/ Succeed \/ SyntaxErrorFound \/ Done
  BY DEF Next, Quiet, Operating
<1>9. SyntaxErrorFound \/ Done \/ UNCHANGED vars => UNCHANGED code
  BY DEF SyntaxErrorFound, Done, vars
<1> QED BY <1>2, <1>3, <1>4, <1>5, <1>6, <1>7, <1>8, <1>9

\* The main program's prologue is at the bottom whenever something is read.
LEMMA MainStaysAtBottom == Spec => []MainAtBottom
BY InitMainAtBottom, NextMainAtBottom, Invariance, PTL DEF Spec

\* When the compilation is over nothing happens.
LEMMA NothingAfterwards ==
  ASSUME [Next]_vars, status # "parsing"
  PROVE  UNCHANGED vars
<1>1. ~Reading
  BY DEF Reading
<1> QED BY <1>1 DEF Next, Expand, Shift, Default, Declare, ProcedureHeader, ProcedureEnd,
     EmitSimple, ReadOperator, ApplyOperator, Assertion, Assign, IfHeader, IfEnd, WhileEntry,
     WhileHeader, WhileEnd, Reducing, Succeed, SyntaxErrorFound, LexicalError, Done

\* No operand is ever changed once it is filled in: backpatching writes every
\* operand that was left open once, and no other, also between procedures that
\* follow one another and after lexical errors.
OperandsFinal ==
  [][\A k \in DOMAIN code : ~Blank(code[k]) => code'[k] = code[k]]_vars

THEOREM OperandsFinalHolds == Spec => OperandsFinal
<1>1. ASSUME IInv, MainAtBottom, [Next]_vars
      PROVE  [\A k \in DOMAIN code : ~Blank(code[k]) => code'[k] = code[k]]_vars
  <2>1. CASE status = "parsing"
    <3>1. code \in Seq(Instructions)
      BY <1>1, <2>1, BeforeReduction
    <3>2. DOMAIN code = 1..Len(code)
      BY <3>1
    <3>3. Kept(code, code')
      BY <1>1, <2>1, OperandsKept
    <3> QED BY <3>2, <3>3 DEF Kept
  <2>2. CASE status # "parsing"
    <3>1. UNCHANGED vars
      BY <1>1, <2>2, NothingAfterwards
    <3> QED BY <3>1
  <2> QED BY <2>1, <2>2
<1> QED BY <1>1, Invariance, MainStaysAtBottom, PTL DEF Spec, OperandsFinal

----------------------------------------------------------------------------
(***************************************************************************)
(* Steps within a block.                                                   *)
(***************************************************************************)

\* The actions that neither start nor end a procedure, nor the source.
Steady == Quiet \/ EmitSimple \/ Assign

\* A reduction among them that goes on.
LEMMA SteadyReduction ==
  ASSUME IInv, Steady, status' = "parsing",
         ~Shift, ~(\E p \in Productions : Expand(p))
  PROVE  /\ Complete /\ Reading /\ r \notin {"PL0", "PROC", "PROCH"}
         /\ \E value \in ValuesOf(lhs(r)) : Return(value)
<1>1. ASSUME NEW rs, Reducing(rs), rs \cap {"PROC", "PROCH"} = {}, rs \cap DOMAIN oprOf = {},
             Return(nullptr) \/ EndWithoutReturn
      PROVE  /\ Complete /\ Reading /\ r \notin {"PL0", "PROC", "PROCH"}
             /\ \E value \in ValuesOf(lhs(r)) : Return(value)
  <2>1. Complete /\ Reading /\ r \notin {"PL0", "PROC", "PROCH"} /\ r \notin DOMAIN oprOf /\ OnTrack(items)
    BY <1>1 DEF Reducing, Reading, IInv
  <2>2. Return(nullptr)
    BY <1>1 DEF EndWithoutReturn
  <2>3. r \in DOMAIN Rules
    BY <2>1, ValuesComplete
  <2> QED BY <2>1, <2>2, <2>3, NothingReturned
<1>2. CASE Default
  BY <1>1, <1>2 DEF Default, Attached, oprOf
<1>3. CASE Declare
  BY <1>1, <1>3 DEF Declare, oprOf
<1>4. CASE EmitSimple
  BY <1>1, <1>4 DEF EmitSimple, Simple, oprOf
<1>5. CASE Assertion \/ Assign \/ IfHeader \/ IfEnd \/ WhileEntry \/ WhileHeader \/ WhileEnd
  BY <1>1, <1>5 DEF Assertion, Assign, IfHeader, IfEnd, WhileEntry, WhileHeader, WhileEnd, oprOf
<1>6. CASE ReadOperator
  <2>1. r \in DOMAIN oprOf /\ Complete /\ Reading /\ Return(Operator(oprOf[r]))
    BY <1>6 DEF ReadOperator, Reducing
  <2>2. r \notin {"PL0", "PROC", "PROCH"}
    BY <2>1 DEF oprOf
  <2> QED BY <2>1, <2>2, OperatorReturned
<1>7. CASE ApplyOperator
  <2>1. /\ r \in {"OPTFACTOR", "OPTEXPRITEM", "FEXPRITEM", "EXPR", "EXPRITEM"}
        /\ Return(HandedOn) /\ Complete /\ Reading /\ OnTrack(items)
    BY <1>7 DEF ApplyOperator, Reducing, Reading, IInv
  <2> QED BY <2>1, HandedOnReturned
<1> QED BY <1>2, <1>3, <1>4, <1>5, <1>6, <1>7 DEF Steady, Quiet, Operating

\* In such a step the source stays in its block, and takes no step back in it; before
\* its statement a block has no code but its prologue's.
LEMMA SteadyStep ==
  ASSUME ~Siblings, IInv, SInv, Steady, status' = "parsing", ~(Default /\ r = "SUBPROG")
  PROVE  /\ status = "parsing" /\ UNCHANGED <<procStacks, open, lexErrors>> /\ Kept(code, code')
         /\ Phase(items) <= Phase(items') /\ Phase(items) \in {1, 2, 3, 4} /\ Phase(items') \in {1, 2, 3, 4}
         /\ (Leaving(items') <=> Leaving(items)) /\ (Ended(items) => Ended(items'))
         /\ Phase(items) < 4 => Len(code') = Len(code)
         /\ \/ UNCHANGED bodies
            \/ \E p \in Productions : Expand(p) /\ Upcoming = "Ssentence" /\ r = "SUBPROG"
<1>1. status = "parsing" /\ UNCHANGED <<procStacks, lexErrors>>
  BY DEF Steady, Quiet, Operating, Expand, Shift, Default, Declare, WhileEntry, ReadOperator,
     ApplyOperator, Assertion, IfHeader, WhileHeader, IfEnd, WhileEnd, EmitSimple, Assign,
     Reducing, Reading, automaton, stacks, EndWithoutReturn, Return
<1>2. UNCHANGED open
  BY DEF Steady, Quiet, Operating, Expand, Shift, Default, Declare, WhileEntry, ReadOperator,
     ApplyOperator, Assertion, IfHeader, WhileHeader, IfEnd, WhileEnd, EmitSimple, Assign, nesting
<1>3. /\ \/ UNCHANGED bodies
         \/ \E p \in Productions : Expand(p) /\ Upcoming = "Ssentence" /\ r = "SUBPROG"
  BY DEF Steady, Quiet, Operating, Expand, Shift, Default, Declare, WhileEntry, ReadOperator,
     ApplyOperator, Assertion, IfHeader, WhileHeader, IfEnd, WhileEnd, EmitSimple, Assign, nesting
<1>4. OnTrack(items) /\ OneProcedure(items) /\ code \in Seq(Instructions)
  BY <1>1, BeforeReduction DEF SInv, Scoped
<1>5. Kept(code, code')
  <2>1. CASE Quiet
    BY <2>1, QuietCode
  <2>2. CASE EmitSimple \/ Assign
    <3>1. PICK e \in Seq(Instructions) : insert(e)
      BY <2>2, NamesEmitted
    <3> QED BY <1>4, <3>1, KeptByAdding DEF insert
  <2> QED BY <2>1, <2>2 DEF Steady
<1>6. ASSUME NEW p \in Productions, Expand(p)
      PROVE  /\ Phase(items) <= Phase(items') /\ OnTrack(items')
             /\ (Leaving(items') <=> Leaving(items)) /\ (Ended(items) => Ended(items'))
             /\ UNCHANGED code
  <2>1. /\ p \in DOMAIN Rules /\ ~Complete /\ Upcoming = lhs(p) /\ (p = "PROC" => r # "PROC")
        /\ items' = Append(items, Item(p, <<>>)) /\ UNCHANGED code
    BY <1>6, AssemblerAssumption DEF Expand, lhs
  <2>2. OnTrack(items')
    BY <1>4, <2>1, Expanded
  <2> QED BY <1>4, <2>1, <2>2, AfterExpand, PhaseAfterExpand
<1>7. ASSUME Shift
      PROVE  /\ Phase(items) <= Phase(items') /\ OnTrack(items')
             /\ (Leaving(items') <=> Leaving(items)) /\ (Ended(items) => Ended(items'))
             /\ UNCHANGED code
  <2>1. /\ ~Complete /\ Upcoming \in Terminals /\ UNCHANGED code
        /\ \E token \in Tokens(Upcoming) : items' = Recognized(items, token)
    BY <1>7 DEF Shift
  <2>2. PICK token \in Tokens(Upcoming) : items' = Recognized(items, token)
    BY <2>1
  <2>3. OnTrack(items')
    BY <1>4, <2>1, <2>2, Shifted
  <2> QED BY <1>4, <2>1, <2>2, <2>3, AfterShift, PhaseAfterShift
<1>8. ASSUME ~Shift, ~(\E p \in Productions : Expand(p))
      PROVE  /\ Phase(items) <= Phase(items') /\ OnTrack(items')
             /\ (Leaving(items') <=> Leaving(items)) /\ (Ended(items) => Ended(items'))
             /\ Phase(items) < 4 => Len(code') = Len(code)
  <2>1. /\ Complete /\ Reading /\ r \notin {"PL0", "PROC", "PROCH"}
        /\ \E value \in ValuesOf(lhs(r)) : Return(value)
    BY <1>8, SteadyReduction
  <2>2. PICK value \in ValuesOf(lhs(r)) : items' = Recognized(Front(items), value)
    BY <2>1 DEF Return
  <2>3. r \in DOMAIN Rules /\ r # "SUBPROG"
    <3>1. r \in Simple \cup {"ASSIGN"} \cup {"CONSTDEF", "OPTVARID", "VAR"} \cup DOMAIN oprOf
              \cup {"OPTFACTOR", "OPTEXPRITEM", "FEXPRITEM", "EXPR", "EXPRITEM"}
              \cup {"ASSERTION", "RASSERTION", "CONDHEADER", "CONDITION", "WHILEFLAG", "WHILEHEADER", "WHILE"}
          \/ Default
      BY <1>8 DEF Steady, Quiet, Operating, Declare, WhileEntry, ReadOperator,
         ApplyOperator, Assertion, IfHeader, WhileHeader, IfEnd, WhileEnd, EmitSimple, Assign, Reducing
    <3>2. r # "SUBPROG"
      BY <3>1 DEF Simple, oprOf
    <3> QED BY <1>4, <3>2, Innermost
  <2>4. OnTrack(items')
    BY <1>4, <2>1, <2>2, Reduced
  <2>5. /\ Phase(items) <= Phase(items')
        /\ (Leaving(items') <=> Leaving(items)) /\ (Ended(items) => Ended(items'))
    BY <1>4, <2>1, <2>2, <2>3, AfterReduction, PhaseAfterReduction
  <2>6. ASSUME Phase(items) < 4 PROVE Len(code') = Len(code)
    <3>1. r = items[Len(items)].rule
      BY <1>4, Innermost
    <3>2. r \in Declarations
      <4> DEFINE it == items[Len(items)]
      <4>1. it = items[Len(items)] /\ it.rule = r
        BY <3>1
      <4> HIDE DEF it
      <4>2. r \notin Declarations => Phase(items) = 4
        BY <1>4, <4>1, PhaseOfItem
      <4> QED BY <2>6, <4>2
    <3>3. Default \/ Declare \/ IfEnd
      BY <1>8, <3>2 DEF Steady, Quiet, Operating, WhileEntry, ReadOperator, Declarations,
         ApplyOperator, Assertion, IfHeader, WhileHeader, WhileEnd, EmitSimple, Assign, Reducing, Simple, oprOf
    <3>4. ~IfEnd
      BY <3>2 DEF IfEnd, Reducing, Declarations
    <3> QED BY <3>3, <3>4 DEF Default, Declare
  <2> QED BY <2>4, <2>5, <2>6
<1>9. /\ Phase(items) <= Phase(items') /\ OnTrack(items')
      /\ (Leaving(items') <=> Leaving(items)) /\ (Ended(items) => Ended(items'))
      /\ Phase(items) < 4 => Len(code') = Len(code)
  BY <1>6, <1>7, <1>8
<1>10. Phase(items) \in {1, 2, 3, 4} /\ Phase(items') \in {1, 2, 3, 4}
  BY <1>4, <1>9, FourPhases DEF Phase
<1> QED BY <1>1, <1>2, <1>3, <1>5, <1>9, <1>10

----------------------------------------------------------------------------
(***************************************************************************)
(* The inductive invariant: the JMPs of the blocks.                        *)
(***************************************************************************)

\* The stacks of procedures hold the prologues of the blocks the source is in,
\* the INT on one, the JMP behind it on the other.
Prologues ==
  /\ Len(proc_body_backfill) = Len(proc_int_backfill)
  /\ \A d \in 1..Len(proc_int_backfill) :
       proc_body_backfill[d].jmp_inst = proc_int_backfill[d] + 1

\* They belong to these blocks, but for the procedure whose block has been left.
BlocksOpen ==
  /\ ~Ended(items) => Len(open) + Gap(items) = Len(proc_int_backfill)
  /\ Len(open) <= Len(proc_int_backfill)
  /\ \A d \in 1..Len(open) : open[d] = proc_int_backfill[d]

\* Before its statement begins, a block's JMP is going to lead to the next
\* instruction there will be.
BodyStarts == Phase(items) < 4 => Last(proc_body_backfill).proc_body = length

\* A block whose statement has begun: its JMP leads there, or is going to when
\* the block ends.
BodyKnown(a, body) ==
  /\ body \in Nat \ {0} /\ a \in Nat /\ a + 1 \in Addresses
  /\ \/ At(a + 1).a = body /\ ~Blank(At(a))
     \/ Phase(items) = 4 /\ a = Last(proc_int_backfill) /\ body = Last(proc_body_backfill).proc_body
BodiesKnown == \A b \in bodies : BodyKnown(Last(b[1]), b[2])

BlocksInv ==
  lexErrors = 0 =>
    /\ status = "parsing" => Prologues /\ BlocksOpen /\ BodyStarts /\ BodiesKnown
    /\ status = "succeeded" => BlocksFilled /\ BodiesReached

\* Instructions that are not blank stay.
LEMMA KeptInstruction ==
  ASSUME NEW c \in Seq(Instructions), NEW d, Kept(c, d), Len(d) \in Nat, NEW a \in 0..(Len(c) - 1)
  PROVE  /\ a \in 0..(Len(d) - 1)
         /\ ~Blank(c[a + 1]) => d[a + 1] = c[a + 1]
         /\ c[a + 1].a # 0 => d[a + 1] = c[a + 1]
<1>1. a + 1 \in 1..Len(c) /\ Len(c) \in Nat /\ Len(d) >= Len(c)
  BY DEF Kept
<1>2. c[a + 1].a # 0 => ~Blank(c[a + 1])
  BY DEF Blank
<1> QED BY <1>1, <1>2 DEF Kept

\* A block whose statement has begun is known when the code goes on.
LEMMA BodyStaysKnown ==
  ASSUME code \in Seq(Instructions), Len(code') \in Nat, Kept(code, code'),
         NEW a, NEW body, body \in Nat \ {0}, a \in Nat, a + 1 \in Addresses,
         At(a + 1).a = body, ~Blank(At(a))
  PROVE  /\ a + 1 \in 0..(Len(code') - 1)
         /\ code'[(a + 1) + 1].a = body /\ ~Blank(code'[a + 1])
<1>1. a + 1 \in 0..(Len(code) - 1) /\ Len(code) \in Nat
  BY DEF Addresses, length
<1>2. a \in 0..(Len(code) - 1)
  BY <1>1
<1>3. code[(a + 1) + 1].a = body /\ body # 0 /\ ~Blank(code[a + 1])
  BY DEF At
<1>4. /\ a + 1 \in 0..(Len(code') - 1)
      /\ code[(a + 1) + 1].a # 0 => code'[(a + 1) + 1] = code[(a + 1) + 1]
  BY <1>1, KeptInstruction
<1>5. code'[a + 1] = code[a + 1]
  BY <1>2, <1>3, KeptInstruction
<1> QED BY <1>3, <1>4, <1>5

\* The statement of a block begins.
LEMMA StatementBegins ==
  ASSUME ~Siblings, IInv, SInv, status = "parsing", lexErrors = 0, BlocksInv,
         NEW p \in Productions, Expand(p), Upcoming = "Ssentence", r = "SUBPROG"
  PROVE  /\ Phase(items') = 4 /\ bodies' = bodies \cup {<<open, length>>}
         /\ Last(open) = Last(proc_int_backfill)
         /\ length = Last(proc_body_backfill).proc_body
<1>1. /\ OnTrack(items) /\ OneProcedure(items) /\ proc_int_backfill \in Seq(Nat)
      /\ open \in Seq(Nat) /\ Len(proc_int_backfill) >= 1
  BY BeforeReduction, StacksNotEmpty DEF SInv, Scoped, Owned
<1>2. /\ p \in DOMAIN Rules /\ ~Complete /\ Upcoming = lhs(p) /\ (p = "PROC" => r # "PROC")
      /\ items' = Append(items, Item(p, <<>>)) /\ bodies' = bodies \cup {<<open, length>>}
  BY AssemblerAssumption DEF Expand, lhs
<1>3. OnTrack(items')
  BY <1>1, <1>2, Expanded
<1> DEFINE it == items[Len(items)]
           new == items'[Len(items')]
<1>4. new.rule = p
  BY <1>1, <1>2 DEF OnTrack, Item
<1>5. /\ r = it.rule /\ v = it.vals /\ Len(v) \in Nat /\ Len(v) <= Len(rhs(r))
      /\ Len(v) # Len(rhs(r)) /\ Upcoming = rhs(r)[Len(v) + 1]
  BY <1>1, <1>2, Innermost
<1>6. it = items[Len(items)] /\ new = items'[Len(items')]
  OBVIOUS
<1> HIDE DEF it, new
<1>7. p \notin Declarations
  <2>1. BlocksInPlace(p) /\ PartsInPlace(p)
    BY <1>2, BlocksInPlaceEverywhere, PartsInPlaceEverywhere
  <2>2. "Ssentence" \notin DeclarationSymbols
    BY SeparatorsAreTerminals, CommaIsTerminal
       DEF DeclarationSymbols, ConstantSymbols, VariableSymbols, ID, NUM
  <2> QED BY <1>2, <2>1, <2>2 DEF PartsInPlace
<1>8. Phase(items') = 4
  BY <1>3, <1>4, <1>6, <1>7, PhaseOfItem
<1>9. Len(v) = 3
  <2>1. /\ Len(rhs(r)) = 4 /\ rhs(r)[0 + 1] = "Sconst" /\ rhs(r)[1 + 1] = "Svar"
        /\ rhs(r)[2 + 1] = "Sproc"
    BY BlockShapes
  <2> DEFINE n == Len(v)
  <2>2. n \in Nat /\ n <= 4 /\ n # 4 /\ rhs(r)[n + 1] = "Ssentence"
    BY <1>5, <2>1
  <2> HIDE DEF n
  <2>3. n = 0 \/ n = 1 \/ n = 2 \/ n = 3
    BY <2>2
  <2>4. n = 3
    BY <2>1, <2>2, <2>3
  <2> QED BY <2>4 DEF n
<1>10. ~Leaving(items) /\ ~Ended(items)
  BY <1>5, <1>6 DEF Leaving, Ended, HasLeft
<1>11. Phase(items) = 3
  <2>1. Phase(items) = PhaseAt(it.rule, Len(it.vals)) /\ it.rule \in DOMAIN Rules
    BY <1>1, <1>6, <1>10, PhaseOfItem
  <2> QED BY <1>5, <1>9, <2>1, PhasesOfRules
<1>12. length = Last(proc_body_backfill).proc_body
  BY <1>11 DEF BlocksInv, BodyStarts
<1>13. Len(open) = Len(proc_int_backfill) /\ \A d \in 1..Len(open) : open[d] = proc_int_backfill[d]
  BY <1>1, <1>10 DEF BlocksInv, BlocksOpen, Gap
<1>14. Last(open) = Last(proc_int_backfill)
  BY <1>1, <1>13 DEF Last
<1> QED BY <1>2, <1>8, <1>12, <1>14

\* The status after a steady step.
LEMMA SteadyStatus ==
  ASSUME Steady
  PROVE  status = "parsing" /\ status' \in {"parsing", "crashed"} /\ UNCHANGED lexErrors
BY DEF Steady, Quiet, Operating, Expand, Shift, Default, Declare, WhileEntry, ReadOperator,
   ApplyOperator, Assertion, IfHeader, WhileHeader, IfEnd, WhileEnd, EmitSimple, Assign,
   Reducing, Reading, automaton, EndWithoutReturn, Return

\* The code stays a sequence.
LEMMA CodeStays ==
  ASSUME IInv, SInv, SInv', status = "parsing"
  PROVE  code \in Seq(Instructions) /\ Len(code') \in Nat /\ Len(code) \in Nat
<1>1. code \in Seq(Instructions)
  BY BeforeReduction
<1>2. owner' \in Seq(Seq(Nat)) /\ Len(owner') = Len(code')
  BY DEF SInv, Owned
<1>3. Len(owner') \in Nat
  <2> DEFINE S == Seq(Nat)
  <2>1. owner' \in Seq(S)
    BY <1>2
  <2> HIDE DEF S
  <2> QED BY <2>1
<1> QED BY <1>1, <1>2, <1>3

\* The bodies that are known stay so while the source stays in its block.
LEMMA BodiesStayKnown ==
  ASSUME code \in Seq(Instructions), Len(code') \in Nat, Kept(code, code'),
         UNCHANGED procStacks, Phase(items) = 4 => Phase(items') = 4, BodiesKnown
  PROVE  \A b \in bodies : BodyKnown(Last(b[1]), b[2])'
<1> SUFFICES ASSUME NEW b \in bodies PROVE BodyKnown(Last(b[1]), b[2])'
  OBVIOUS
<1> DEFINE a == Last(b[1])
           body == b[2]
<1>1. BodyKnown(a, body)
  BY DEF BodiesKnown
<1> HIDE DEF a, body
<1>2. /\ body \in Nat \ {0} /\ a \in Nat /\ a + 1 \in Addresses
      /\ \/ At(a + 1).a = body /\ ~Blank(At(a))
         \/ Phase(items) = 4 /\ a = Last(proc_int_backfill) /\ body = Last(proc_body_backfill).proc_body
  BY <1>1 DEF BodyKnown
<1>3. a + 1 \in Addresses'
  <2>1. a + 1 \in 0..(Len(code) - 1) /\ Len(code) \in Nat /\ Len(code') >= Len(code)
    BY <1>2 DEF Addresses, length, Kept
  <2> QED BY <2>1 DEF Addresses, length
<1>4. CASE At(a + 1).a = body /\ ~Blank(At(a))
  <2>1. code'[(a + 1) + 1].a = body /\ ~Blank(code'[a + 1])
    BY <1>2, <1>4, BodyStaysKnown
  <2>2. BodyKnown(a, body)'
    BY <1>2, <1>3, <2>1 DEF BodyKnown, At
  <2> QED BY <2>2 DEF a, body
<1>5. CASE Phase(items) = 4 /\ a = Last(proc_int_backfill) /\ body = Last(proc_body_backfill).proc_body
  <2>1. UNCHANGED <<proc_int_backfill, proc_body_backfill>>
    BY DEF procStacks
  <2>2. BodyKnown(a, body)'
    BY <1>2, <1>3, <1>5, <2>1 DEF BodyKnown
  <2> QED BY <2>2 DEF a, body
<1> QED BY <1>2, <1>4, <1>5

\* The source stays in its block.
LEMMA SteadyKeepsBlocks ==
  ASSUME ~Siblings, IInv, SInv, SInv', BlocksInv, Steady, ~(Default /\ r = "SUBPROG")
  PROVE  BlocksInv'
<1>1. status = "parsing" /\ status' # "succeeded" /\ UNCHANGED lexErrors
  BY SteadyStatus
<1> SUFFICES ASSUME status' = "parsing", lexErrors = 0
             PROVE  Prologues' /\ BlocksOpen' /\ BodyStarts' /\ BodiesKnown'
  BY <1>1 DEF BlocksInv
<1>2. Prologues /\ BlocksOpen /\ BodyStarts /\ BodiesKnown
  BY <1>1 DEF BlocksInv
<1>3. /\ UNCHANGED <<procStacks, open, lexErrors>> /\ Kept(code, code')
      /\ Phase(items) <= Phase(items') /\ Phase(items) \in {1, 2, 3, 4} /\ Phase(items') \in {1, 2, 3, 4}
      /\ (Leaving(items') <=> Leaving(items)) /\ (Ended(items) => Ended(items'))
      /\ Phase(items) < 4 => Len(code') = Len(code)
  BY SteadyStep
<1>4. UNCHANGED <<proc_int_backfill, proc_body_backfill>>
  BY <1>3 DEF procStacks
<1>5. Prologues'
  BY <1>2, <1>4 DEF Prologues
<1>6. BlocksOpen'
  BY <1>2, <1>3, <1>4 DEF BlocksOpen, Gap
<1>7. BodyStarts'
  BY <1>2, <1>3, <1>4 DEF BodyStarts, length
<1>8. code \in Seq(Instructions) /\ Len(code') \in Nat /\ Len(code) \in Nat
  BY <1>1, CodeStays
<1>9. \A b \in bodies : BodyKnown(Last(b[1]), b[2])'
  BY <1>2, <1>3, <1>8, BodiesStayKnown
<1>10. CASE UNCHANGED bodies
  BY <1>5, <1>6, <1>7, <1>9, <1>10 DEF BodiesKnown
<1>11. ASSUME NEW p \in Productions, Expand(p), Upcoming = "Ssentence", r = "SUBPROG"
       PROVE  BodiesKnown'
  <2>1. /\ Phase(items') = 4 /\ bodies' = bodies \cup {<<open, length>>}
        /\ Last(open) = Last(proc_int_backfill)
        /\ length = Last(proc_body_backfill).proc_body
    BY <1>1, <1>11, StatementBegins
  <2>2. Last(proc_int_backfill) + 1 \in 0..(Len(code) - 1) /\ Last(proc_int_backfill) \in Nat
    <3>1. /\ proc_int_backfill \in Seq(Nat) /\ proc_body_backfill \in Seq(BodyEntries)
          /\ Len(proc_int_backfill) >= 1 /\ Blanks(code) \subseteq 0..(Len(code) - 1)
          /\ Len(proc_body_backfill) = Len(proc_int_backfill)
      BY <1>1, BeforeReduction, StacksNotEmpty DEF length
    <3>2. Last(proc_int_backfill) \in Nat
      <4>1. proc_int_backfill # <<>>
        BY <3>1
      <4> QED BY <3>1, <4>1, Popped
    <3>3. Last(proc_body_backfill).jmp_inst = Last(proc_int_backfill) + 1
      BY <1>2, <3>1 DEF Prologues, Last
    <3> QED BY <1>1, <3>1, <3>2, <3>3, TopsAreBlank
  <2>3. ASSUME NEW b, b = <<open, length>>
        PROVE  BodyKnown(Last(b[1]), b[2])'
    <3> DEFINE a == Last(b[1])
               body == b[2]
    <3>1. a = Last(proc_int_backfill) /\ body = Last(proc_body_backfill).proc_body
      BY <2>1, <2>3
    <3> HIDE DEF a, body
    <3>2. body \in Nat \ {0} /\ a \in Nat
      BY <1>1, <2>2, <3>1, TopsAreBlank
    <3>3. a + 1 \in Addresses'
      BY <1>3, <1>8, <2>2, <3>1 DEF Addresses, length, Kept
    <3>4. BodyKnown(a, body)'
      BY <1>4, <2>1, <3>1, <3>2, <3>3 DEF BodyKnown
    <3> QED BY <3>4 DEF a, body
  <2>4. ASSUME NEW b \in bodies' PROVE BodyKnown(Last(b[1]), b[2])'
    <3>1. b \in bodies \/ b = <<open, length>>
      BY <2>1
    <3> QED BY <1>9, <2>3, <3>1
  <2> QED BY <2>4 DEF BodiesKnown
<1> QED BY <1>5, <1>6, <1>7, <1>10, <1>11, SteadyStep

\* The source leaves a block.
LEMMA BlockLeftKeepsBlocks ==
  ASSUME ~Siblings, IInv, SInv, BlocksInv, Default, r = "SUBPROG"
  PROVE  BlocksInv'
<1>1. /\ Return(nullptr) /\ Complete /\ status = "parsing" /\ status' = status
      /\ UNCHANGED <<lexErrors, code, proc_int_backfill, proc_body_backfill, bodies>>
      /\ open' = Front(open)
  BY DEF Default, Reducing, Reading, Return, automaton, stacks, procStacks
<1> SUFFICES ASSUME lexErrors = 0
             PROVE  Prologues' /\ BlocksOpen' /\ BodyStarts' /\ BodiesKnown'
  BY <1>1 DEF BlocksInv
<1>2. Prologues /\ BlocksOpen /\ BodyStarts /\ BodiesKnown
  BY <1>1 DEF BlocksInv
<1>3. /\ OnTrack(items) /\ OneProcedure(items) /\ open \in Seq(Nat) /\ Len(open) \in Nat
      /\ Len(proc_int_backfill) \in Nat /\ Len(proc_int_backfill) >= 1
      /\ code \in Seq(Instructions)
  BY <1>1, BeforeReduction, StacksNotEmpty DEF SInv, Scoped, Owned
<1>4. nullptr \in ValuesOf(lhs(r)) /\ r # "PL0"
  BY <1>1, <1>3, ValuesComplete, NothingReturned DEF oprOf
<1>5. /\ ~Leaving(items) /\ (Ended(items') \/ Leaving(items')) /\ Phase(items) <= Phase(items')
      /\ OnTrack(items')
  BY <1>1, <1>3, <1>4, AfterReduction, PhaseAfterReduction, Reduced DEF Return
<1>6. Phase(items') = 4
  <2> DEFINE it == items'[Len(items')]
  <2>1. it = items'[Len(items')]
    OBVIOUS
  <2> HIDE DEF it
  <2> QED BY <1>5, <2>1, PhaseOfItem DEF Phase
<1>7. ~Ended(items)
  BY <1>3, Innermost DEF Ended
<1>8. Len(open) = Len(proc_int_backfill) /\ open # <<>>
  BY <1>2, <1>3, <1>5, <1>7 DEF BlocksOpen, Gap
<1>9. Len(open') = Len(open) - 1 /\ \A d \in 1..(Len(open) - 1) : open'[d] = open[d]
  BY <1>1, <1>3, <1>8, Popped
<1>10. Prologues'
  BY <1>1, <1>2 DEF Prologues
<1>11. BlocksOpen'
  <2>1. \A d \in 1..Len(open') : open'[d] = proc_int_backfill'[d]
    BY <1>1, <1>2, <1>3, <1>9 DEF BlocksOpen
  <2>2. ~Ended(items') => Leaving(items')
    BY <1>5
  <2> QED BY <1>1, <1>3, <1>8, <1>9, <2>1, <2>2 DEF BlocksOpen, Gap
<1>12. BodyStarts'
  BY <1>6 DEF BodyStarts
<1>13. BodiesKnown'
  <2>1. Kept(code, code') /\ UNCHANGED procStacks /\ Len(code') \in Nat
    BY <1>1, <1>3, KeptAsIs DEF procStacks
  <2>2. \A b \in bodies : BodyKnown(Last(b[1]), b[2])'
    BY <1>2, <1>3, <1>6, <2>1, BodiesStayKnown
  <2> QED BY <1>1, <2>2 DEF BodiesKnown
<1> QED BY <1>10, <1>11, <1>12, <1>13

\* A procedure begins (Assembler.cpp:30).
LEMMA ProcedureHeaderKeepsBlocks ==
  ASSUME ~Siblings, IInv, SInv, SInv', BlocksInv, ProcedureHeader
  PROVE  BlocksInv'
<1> DEFINE P == proc_int_backfill
           B == proc_body_backfill
           e == [jmp_inst |-> length + 1, proc_body |-> length + 2]
           n == Len(P)
<1>1. /\ Return(nullptr) /\ Complete /\ r = "PROCH" /\ status = "parsing" /\ status' = status
      /\ UNCHANGED <<lexErrors, bodies>> /\ code' = code \o Prologue
      /\ open' = Append(open, length) /\ P' = Append(P, length) /\ B' = Append(B, e)
  BY DEF ProcedureHeader, Reducing, Reading, Return, automaton, PushPrologue
<1> SUFFICES ASSUME lexErrors = 0
             PROVE  Prologues' /\ BlocksOpen' /\ BodyStarts' /\ BodiesKnown'
  BY <1>1 DEF BlocksInv
<1>2. Prologues /\ BlocksOpen /\ BodyStarts /\ BodiesKnown
  BY <1>1 DEF BlocksInv
<1>3. /\ OnTrack(items) /\ OneProcedure(items) /\ open \in Seq(Nat) /\ Len(open) \in Nat
      /\ n \in Nat /\ n >= 1 /\ P \in Seq(Nat) /\ B \in Seq(BodyEntries)
      /\ Len(B) = n /\ code \in Seq(Instructions) /\ length \in Nat /\ length = Len(code)
  BY <1>1, BeforeReduction, StacksNotEmpty DEF SInv, Scoped, Owned
<1>4. nullptr \in ValuesOf(lhs(r)) /\ r # "PL0"
  BY <1>1, <1>3, ValuesComplete, NothingReturned DEF oprOf
<1>5. /\ ~Leaving(items) /\ ~Leaving(items') /\ Phase(items) = 3 /\ Phase(items') = 1
  BY <1>1, <1>3, <1>4, AfterReduction, PhaseAfterReduction DEF Return
<1>6. ~Ended(items)
  BY <1>1, <1>3, Innermost DEF Ended
<1>7. e \in BodyEntries /\ e.jmp_inst = length + 1 /\ e.proc_body = length + 2
  BY <1>3 DEF BodyEntries
<1> HIDE DEF e
<1>8. /\ Len(P') = n + 1 /\ P'[n + 1] = length /\ \A d \in 1..n : P'[d] = P[d]
      /\ Len(B') = n + 1 /\ B'[n + 1] = e /\ Last(B') = e /\ \A d \in 1..n : B'[d] = B[d]
  BY <1>1, <1>3, <1>7, Pushed
<1>9. Len(open) = n
  BY <1>2, <1>3, <1>5, <1>6 DEF BlocksOpen, Gap
<1>10. Len(open') = n + 1 /\ open'[n + 1] = length /\ \A d \in 1..n : open'[d] = open[d]
  BY <1>1, <1>3, <1>9
<1>11. Kept(code, code') /\ Len(code') = Len(code) + 2 /\ Len(code') \in Nat
  <2>1. Kept(code, code') /\ Len(code') = Len(code) + Len(Prologue)
    BY <1>1, <1>3, PrologueIsCode, KeptByAdding
  <2> QED BY <1>3, <2>1, PrologueIsCode
<1> HIDE DEF n
<1>12. \A d \in 1..(n + 1) : d \in 1..n \/ d = n + 1
  BY <1>3
<1>13. Prologues'
  BY <1>2, <1>3, <1>7, <1>8, <1>12 DEF Prologues, n
<1>14. BlocksOpen'
  <2>1. \A d \in 1..Len(open') : open'[d] = P'[d]
    BY <1>2, <1>8, <1>9, <1>10, <1>12 DEF BlocksOpen
  <2> QED BY <1>3, <1>5, <1>8, <1>10, <2>1 DEF BlocksOpen, Gap
<1>15. BodyStarts'
  BY <1>3, <1>7, <1>8, <1>11 DEF BodyStarts, length
<1>16. BodiesKnown'
  <2> SUFFICES ASSUME NEW b \in bodies PROVE BodyKnown(Last(b[1]), b[2])'
    BY <1>1 DEF BodiesKnown
  <2> DEFINE a == Last(b[1])
             body == b[2]
  <2>1. BodyKnown(a, body)
    BY <1>2 DEF BodiesKnown
  <2> HIDE DEF a, body
  <2>2. /\ body \in Nat \ {0} /\ a \in Nat /\ a + 1 \in Addresses
        /\ At(a + 1).a = body /\ ~Blank(At(a))
    BY <1>5, <2>1 DEF BodyKnown
  <2>3. a + 1 \in 0..(Len(code') - 1) /\ code'[(a + 1) + 1].a = body /\ ~Blank(code'[a + 1])
    BY <1>3, <1>11, <2>2, BodyStaysKnown
  <2>4. BodyKnown(a, body)'
    BY <2>2, <2>3 DEF BodyKnown, At, Addresses, length
  <2> QED BY <2>4 DEF a, body
<1> QED BY <1>13, <1>14, <1>15, <1>16

\* A procedure ends: its INT and its JMP are filled in, and the block around it is
\* told where its own statement may start (Assembler.cpp:44).
LEMMA ProcedureEndKeepsBlocks ==
  ASSUME ~Siblings, IInv, SInv, BlocksInv, ProcedureEnd
  PROVE  BlocksInv'
<1> DEFINE P == proc_int_backfill
           B == proc_body_backfill
           n == Len(P)
           F == Front(B)
<1>1. /\ Return(nullptr) /\ Complete /\ r = "PROC" /\ status = "parsing" /\ status' = status
      /\ UNCHANGED <<lexErrors, bodies, open>>
      /\ code' = Backfill(Backfill(code \o insert_opr(OPR_RET), Last(P), FrameSize),
                          Last(B).jmp_inst, Last(B).proc_body)
      /\ P' = Front(P) /\ B' = UpdateUpper(F)
  BY DEF ProcedureEnd, Reducing, Reading, Return, automaton, nesting
<1> SUFFICES ASSUME lexErrors = 0
             PROVE  Prologues' /\ BlocksOpen' /\ BodyStarts' /\ BodiesKnown'
  BY <1>1 DEF BlocksInv
<1>2. Prologues /\ BlocksOpen /\ BodyStarts /\ BodiesKnown
  BY <1>1 DEF BlocksInv
<1>3. /\ OnTrack(items) /\ OneProcedure(items) /\ Table!IInv
      /\ n \in Nat /\ n >= 2 /\ P \in Seq(Nat) /\ B \in Seq(BodyEntries)
      /\ Len(B) = n /\ code \in Seq(Instructions) /\ length \in Nat /\ length = Len(code)
  BY <1>1, BeforeReduction, StacksNotEmpty DEF SInv, Scoped, Owned
<1>4. open \in Seq(Nat) /\ Len(open) \in Nat
  BY DEF SInv, Owned
<1>5. nullptr \in ValuesOf(lhs(r)) /\ r # "PL0"
  BY <1>1, <1>3, ValuesComplete, NothingReturned DEF oprOf
<1>6. /\ Leaving(items) /\ ~Leaving(items') /\ Phase(items) = 4 /\ Phase(items') = 3
  BY <1>1, <1>3, <1>5, AfterReduction, PhaseAfterReduction DEF Return
<1>7. ~Ended(items)
  BY <1>1, <1>3, Innermost DEF Ended
<1>8. P # <<>> /\ B # <<>>
  BY <1>3
<1>9. /\ Len(P') = n - 1 /\ (\A d \in 1..(n - 1) : P'[d] = P[d])
      /\ F \in Seq(BodyEntries) /\ Len(F) = n - 1 /\ (\A d \in 1..(n - 1) : F[d] = B[d])
  BY <1>1, <1>3, <1>8, Popped
<1>10. Len(open) = n - 1
  BY <1>2, <1>3, <1>4, <1>6, <1>7 DEF BlocksOpen, Gap
<1>11. Last(P) \in Nat /\ Last(B).jmp_inst = Last(P) + 1
  <2>1. Last(P) \in Nat
    BY <1>3, <1>8, Popped
  <2> QED BY <1>2, <1>3, <2>1 DEF Prologues, Last
<1>12. /\ Last(P) \in Blanks(code) /\ Last(B).jmp_inst \in Blanks(code)
       /\ Last(B).proc_body \in Nat \ {0}
  BY <1>1, TopsAreBlank
<1>13. FrameSize \in Int /\ FrameSize # 0
  BY <1>3, FrameSizes
<1>14. Last(B).proc_body \in Int /\ Last(P) # Last(B).jmp_inst
  BY <1>11, <1>12
<1>15. /\ Kept(code, code') /\ Len(code') = Len(code) + 1
       /\ code'[Last(B).jmp_inst + 1].a = Last(B).proc_body
       /\ code'[Last(P) + 1].a = FrameSize
  BY <1>1, <1>3, <1>12, <1>13, <1>14, FinishedCode
<1> HIDE DEF F
<1>16. F # <<>>
  BY <1>3, <1>9
<1>17. /\ Len(UpdateUpper(F)) = n - 1
       /\ \A d \in 1..(n - 1) : UpdateUpper(F)[d].jmp_inst = F[d].jmp_inst
       /\ Last(UpdateUpper(F)).proc_body = length + 1
  <2>1. /\ UpdateUpper(F) \in Seq(BodyEntries) /\ JmpsOf(UpdateUpper(F)) = JmpsOf(F)
        /\ Len(UpdateUpper(F)) = Len(F)
    BY <1>3, <1>9, <1>16, UpperUpdated
  <2>2. \A d \in 1..Len(F) : UpdateUpper(F)[d].jmp_inst = F[d].jmp_inst
    <3>1. /\ \A k \in 1..Len(F) : JmpsOf(F)[k] = F[k].jmp_inst
          /\ \A k \in 1..Len(UpdateUpper(F)) : JmpsOf(UpdateUpper(F))[k] = UpdateUpper(F)[k].jmp_inst
      BY <1>9, <2>1, JmpsAreStack
    <3> QED BY <2>1, <3>1
  <2>3. Last(UpdateUpper(F)).proc_body = length + 1
    <3> DEFINE e == [jmp_inst |-> Last(F).jmp_inst, proc_body |-> length + 1]
    <3>1. Front(F) \in Seq(BodyEntries) /\ Last(F) \in BodyEntries
      BY <1>9, <1>16, Popped
    <3>2. e \in BodyEntries /\ e.proc_body = length + 1
      BY SMTT(60), <1>3, <3>1 DEF BodyEntries
    <3>3. UpdateUpper(F) = Append(Front(F), e)
      BY DEF UpdateUpper
    <3> HIDE DEF e
    <3>4. Last(UpdateUpper(F)) = e
      BY <3>1, <3>2, <3>3, Pushed
    <3> QED BY <3>2, <3>4
  <2> QED BY <1>9, <2>1, <2>2, <2>3
<1> HIDE DEF n
<1>18. Prologues'
  <2> SUFFICES ASSUME NEW d \in 1..(n - 1) PROVE B'[d].jmp_inst = P'[d] + 1
    BY <1>1, <1>9, <1>17 DEF Prologues
  <2>1. d \in 1..n
    BY <1>3
  <2>2. B[d].jmp_inst = P[d] + 1
    BY <1>2, <2>1 DEF Prologues, n
  <2> QED BY <1>1, <1>9, <1>17, <2>2
<1>19. BlocksOpen'
  <2>1. \A d \in 1..Len(open') : open'[d] = P'[d]
    BY <1>1, <1>2, <1>9, <1>10 DEF BlocksOpen
  <2> QED BY <1>1, <1>3, <1>6, <1>9, <1>10, <2>1 DEF BlocksOpen, Gap
<1>20. BodyStarts'
  BY <1>1, <1>3, <1>15, <1>17 DEF BodyStarts, length
<1>21. BodiesKnown'
  <2> SUFFICES ASSUME NEW b \in bodies PROVE BodyKnown(Last(b[1]), b[2])'
    BY <1>1 DEF BodiesKnown
  <2> DEFINE a == Last(b[1])
             body == b[2]
  <2>1. BodyKnown(a, body)
    BY <1>2 DEF BodiesKnown
  <2> HIDE DEF a, body
  <2>2. /\ body \in Nat \ {0} /\ a \in Nat /\ a + 1 \in 0..(Len(code) - 1)
        /\ \/ At(a + 1).a = body /\ ~Blank(At(a))
           \/ a = Last(P) /\ body = Last(B).proc_body
    BY <2>1 DEF BodyKnown, Addresses, length
  <2>3. code'[(a + 1) + 1].a = body /\ ~Blank(code'[a + 1])
    <3>1. CASE At(a + 1).a = body /\ ~Blank(At(a))
      <4>1. Len(code') \in Nat /\ a + 1 \in Addresses
        BY <1>3, <1>15, <2>2 DEF Addresses
      <4> QED BY <1>3, <1>15, <2>2, <3>1, <4>1, BodyStaysKnown
    <3>2. CASE a = Last(P) /\ body = Last(B).proc_body
      <4>1. code'[a + 1].a # 0
        BY <1>13, <1>15, <3>2
      <4> QED BY <1>11, <1>15, <3>2, <4>1 DEF Blank
    <3> QED BY <2>2, <3>1, <3>2
  <2>4. a + 1 \in 0..(Len(code') - 1)
    BY <1>3, <1>15, <2>2
  <2>5. BodyKnown(a, body)'
    BY <2>2, <2>3, <2>4 DEF BodyKnown, At, Addresses, length
  <2> QED BY <2>5 DEF a, body
<1> QED BY <1>18, <1>19, <1>20, <1>21

\* When the source is complete, it is in no block any more, and only the main
\* program's prologue is left on the stacks.
LEMMA OnlyMainIsLeft ==
  ASSUME IInv, status = "parsing", lexErrors = 0, ~Reading
  PROVE  Len(proc_int_backfill) = 1 /\ Len(items) = 1
<1> DEFINE n == Len(items)
<1>1. OnTrack(items) /\ StacksDeep /\ r = "PL0" /\ Complete
  BY BeforeReduction DEF Reading
<1>2. n \in Nat /\ n >= 1 /\ items[n].rule = "PL0" /\ items \in Seq(Items)
  BY <1>1, Innermost DEF OnTrack
<1>3. n = 1
  <2> SUFFICES ASSUME n >= 2 PROVE FALSE
    BY <1>2
  <2>1. n - 1 \in 1..(n - 1) /\ (n - 1) + 1 = n
    BY <1>2
  <2>2. Awaits(items[n - 1], lhs(items[(n - 1) + 1].rule))
    BY <1>1, <2>1 DEF OnTrack
  <2> DEFINE it == items[n - 1]
  <2>3. it \in Items
    BY <1>2, <2>1
  <2>4. Awaits(it, "Spl0")
    BY <1>2, <2>1, <2>2, BlockShapes
  <2> HIDE DEF it
  <2>5. it.rule \in DOMAIN Rules /\ Len(it.vals) \in Nat
    BY <2>3 DEF Items
  <2>6. PartsInPlace(it.rule) /\ RhsIsSequence(it.rule)
    BY <2>5, PartsInPlaceEverywhere, RhsAreSequences
  <2>7. Len(it.vals) + 1 \in DOMAIN rhs(it.rule) /\ rhs(it.rule)[Len(it.vals) + 1] = "Spl0"
    BY <2>4, <2>5, <2>6 DEF Awaits, RhsIsSequence
  <2> QED BY <2>6, <2>7 DEF PartsInPlace
<1>4. Begun(items, "PROC") = {}
  <2>1. \A k \in 1..n : k = n
    BY <1>3
  <2> QED BY <1>2, <2>1 DEF Begun
<1>5. Depth(items, "PROC") = 0
  BY <1>4, FS_EmptySet DEF Depth
<1> QED BY <1>1, <1>3, <1>5 DEF StacksDeep

\* The source is complete: the main program's INT and JMP are filled in (plc.cpp:49).
LEMMA SucceedKeepsBlocks ==
  ASSUME ~Siblings, IInv, MainAtBottom, BlocksInv, Succeed
  PROVE  BlocksInv'
<1> DEFINE P == proc_int_backfill
           B == proc_body_backfill
<1>1. /\ status = "parsing" /\ ~Reading /\ status' = "succeeded"
      /\ UNCHANGED <<lexErrors, bodies>>
      /\ code' = Backfill(Backfill(code \o insert_opr(OPR_RET), 0, Symbol!countLayerSize),
                          1, Last(B).proc_body)
  BY DEF Succeed, nesting
<1> SUFFICES ASSUME lexErrors = 0, NEW b \in bodies
             PROVE  /\ {Last(b[1]), Last(b[1]) + 1} \cap Placeholders' = {}
                    /\ At(Last(b[1]) + 1)'.a = b[2]
  BY <1>1 DEF BlocksInv, BlocksFilled, BodiesReached
<1>2. BodiesKnown
  BY <1>1 DEF BlocksInv
<1>3. Len(P) = 1 /\ P[1] = 0
  BY <1>1, OnlyMainIsLeft DEF MainAtBottom
<1>4. Last(P) = 0
  BY <1>3 DEF Last
<1>5. Symbol!countLayerSize \in Int /\ Symbol!countLayerSize # 0 /\ code \in Seq(Instructions)
  BY <1>1, BeforeReduction, FrameSizes
<1>6. Last(B).proc_body \in Nat \ {0} /\ 0 \in Blanks(code) /\ 1 \in Blanks(code)
  BY <1>1, TopsAreBlank, BottomIsBlank
<1>7. /\ Kept(code, code') /\ Len(code') = Len(code) + 1
      /\ code'[1 + 1].a = Last(B).proc_body /\ code'[0 + 1].a = Symbol!countLayerSize
  <2>1. Last(B).proc_body \in Int /\ 0 # 1
    BY <1>6
  <2> QED BY <1>1, <1>5, <1>6, <2>1, FinishedCode
<1> DEFINE a == Last(b[1])
           body == b[2]
<1>8. BodyKnown(a, body)
  BY <1>2 DEF BodiesKnown
<1> HIDE DEF a, body
<1>9. /\ body \in Nat \ {0} /\ a \in Nat /\ a + 1 \in Addresses
      /\ \/ At(a + 1).a = body /\ ~Blank(At(a))
         \/ a = Last(P) /\ body = Last(B).proc_body
  BY <1>8 DEF BodyKnown
<1>10. code'[(a + 1) + 1].a = body /\ ~Blank(code'[a + 1])
  <2>1. CASE At(a + 1).a = body /\ ~Blank(At(a))
    <3>1. Len(code') \in Nat
      BY <1>5, <1>7
    <3> QED BY <1>5, <1>7, <1>9, <2>1, <3>1, BodyStaysKnown
  <2>2. CASE a = Last(P) /\ body = Last(B).proc_body
    BY <1>4, <1>5, <1>7, <2>2 DEF Blank
  <2> QED BY <1>9, <2>1, <2>2
<1>11. ~Blank(code'[(a + 1) + 1])
  BY <1>9, <1>10 DEF Blank
<1>12. {a, a + 1} \cap Placeholders' = {}
  BY <1>10, <1>11 DEF Placeholders, Blank, At
<1>13. At(a + 1)'.a = body
  BY <1>10 DEF At
<1> QED BY <1>12, <1>13 DEF a, body

\* Before anything is read, the main program's JMP is going to lead behind its prologue.
LEMMA InitBlocksInv == Init => BlocksInv
<1> SUFFICES ASSUME Init PROVE Prologues /\ BlocksOpen /\ BodyStarts /\ BodiesKnown
  BY DEF BlocksInv, Init
<1>1. /\ items = <<Item("PL0", <<>>)>> /\ code = Prologue /\ proc_int_backfill = <<0>>
      /\ proc_body_backfill = <<[jmp_inst |-> 1, proc_body |-> 2]>> /\ open = <<0>> /\ bodies = {}
  BY DEF Init
<1>2. Len(items) = 1 /\ items[1].rule = "PL0" /\ items[1].vals = <<>>
  BY <1>1 DEF Item
<1>3. ~Leaving(items) /\ ~Ended(items)
  BY <1>2 DEF Leaving, HasLeft, Ended
<1>4. Prologues /\ BlocksOpen
  BY <1>1, <1>3 DEF Prologues, BlocksOpen, Gap
<1>5. BodyStarts
  BY <1>1 DEF BodyStarts, length, Prologue, Last
<1> QED BY <1>1, <1>4, <1>5 DEF BodiesKnown

\* Every action preserves the invariant.
LEMMA NextKeepsBlocks ==
  ASSUME ~Siblings, IInv, SInv, SInv', MainAtBottom, BlocksInv, [Next]_vars
  PROVE  BlocksInv'
<1>1. CASE status # "parsing" \/ UNCHANGED vars
  <2>1. UNCHANGED vars
    BY <1>1, NothingAfterwards
  <2>2. UNCHANGED <<items, status, lexErrors, code, proc_int_backfill, proc_body_backfill, open, bodies>>
    BY <2>1 DEF vars, automaton, stacks, procStacks, nesting
  <2>3. UNCHANGED <<Prologues, BlocksOpen, BodyStarts, BodiesKnown, BlocksFilled, BodiesReached>>
    BY <2>2 DEF Prologues, BlocksOpen, BodyStarts, BodiesKnown, BodyKnown, BlocksFilled, BodiesReached,
       Placeholders, Addresses, At, length, Phase, Leaving, HasLeft, Ended, Gap
  <2> QED BY <2>2, <2>3 DEF BlocksInv
<1>2. CASE Steady /\ ~(Default /\ r = "SUBPROG")
  BY <1>2, SteadyKeepsBlocks
<1>3. CASE Default /\ r = "SUBPROG"
  BY <1>3, BlockLeftKeepsBlocks
<1>4. CASE SyntaxErrorFound \/ LexicalError
  <2>1. CASE SyntaxErrorFound
    BY <2>1 DEF SyntaxErrorFound, BlocksInv
  <2>2. CASE LexicalError
    <3>1. lexErrors \in Nat /\ lexErrors' = lexErrors + 1
      BY <2>2, BeforeReduction DEF LexicalError, Reading, StacksDeep
    <3> QED BY <3>1 DEF BlocksInv
  <2> QED BY <1>4, <2>1, <2>2
<1>5. Next => Steady \/ ProcedureHeader \/ ProcedureEnd \/ Succeed \/ SyntaxErrorFound
              \/ LexicalError \/ UNCHANGED vars
  BY DEF Next, Steady, Quiet, Operating, Done
<1> QED BY <1>1, <1>2, <1>3, <1>4, <1>5, ProcedureHeaderKeepsBlocks, ProcedureEndKeepsBlocks,
     SucceedKeepsBlocks

----------------------------------------------------------------------------
(***************************************************************************)
(* The theorems about blocks.                                              *)
(***************************************************************************)

\* The prologues on the stacks are those of the blocks the source is in, and every
\* statement that has begun is where its block's JMP leads or is going to lead.
THEOREM BlocksInvariance ==
  ASSUME ~Siblings
  PROVE  Spec => []BlocksInv
BY InitBlocksInv, NextKeepsBlocks, MainStaysAtBottom, Invariance, ScopeInvariance, PTL DEF Spec

\* In the finished code of a source without lexical errors the JMP every block
\* starts with goes to the code of the block's own statement, over the code of the
\* procedures declared in it (Assembler.cpp:53-61).
THEOREM BodiesReachedHolds ==
  ASSUME ~Siblings
  PROVE  Spec => [](lexErrors = 0 => BodiesReached)
<1>1. BlocksInv => (lexErrors = 0 => BodiesReached)
  BY DEF BlocksInv, BodiesReached
<1> QED BY <1>1, BlocksInvariance, PTL

\* In the finished code of such a source the INT and the JMP every block starts with
\* have their operands (Assembler.cpp:49-53).
THEOREM BlocksFilledHolds ==
  ASSUME ~Siblings
  PROVE  Spec => [](lexErrors = 0 => BlocksFilled)
<1>1. BlocksInv => (lexErrors = 0 => BlocksFilled)
  BY DEF BlocksInv, BlocksFilled
<1> QED BY <1>1, BlocksInvariance, PTL

----------------------------------------------------------------------------
(***************************************************************************)
(* The slots of a layer.                                                   *)
(***************************************************************************)

SlotsOf(layer) ==
  {layer[i].address : i \in {j \in DOMAIN layer : layer[j].type = "VARIABLE"}}

\* The innermost frame has room for the slots of the innermost layer.
LEMMA SlotsReserved ==
  ASSUME Table!IInv, NEW d \in 1..Len(layers), NEW slot \in SlotsOf(layers[d])
  PROVE  slot \in Int /\ slot >= 3 /\ (d = Len(layers) => slot < FrameSize)
<1>1. /\ layers \in Seq(Seq(Table!Entries)) /\ Table!depth = Len(layers) /\ Len(layers) \in Nat
      /\ Len(layers) >= 1
  BY LayersTyped
<1> DEFINE layer == layers[d]
           size == 3 + Table!Cardinality(Table!VariablesOf(layer))
<1>2. layer \in Seq(Table!Entries)
  <2> DEFINE S == Seq(Table!Entries)
  <2>1. layers \in Seq(S)
    BY <1>1
  <2> HIDE DEF S
  <2>2. layers[d] \in S
    BY <2>1
  <2> QED BY <2>2 DEF S
<1>3. Table!EndsInRun(layer)
  BY <1>1 DEF Table!IInv
<1>4. slot \in {layer[i].address : i \in Table!VariablesOf(layer)}
  BY DEF SlotsOf, Table!VariablesOf
<1>5. d = Len(layers) => size = FrameSize
  BY <1>1, SameQueries DEF FrameSize, Table!countLayerSize, Table!Layer
<1> HIDE DEF layer
<1>6. {layer[i].address : i \in Table!VariablesOf(layer)}
        = 3..(2 + Table!Cardinality(Table!VariablesOf(layer)))
  BY <1>2, <1>3, TableAssumptions, Table!RunFillsSlots
<1> DEFINE c == Table!Cardinality(Table!VariablesOf(layer))
<1>7. slot \in 3..(2 + c)
  BY <1>4, <1>6
<1>8. c \in Nat
  BY <1>2, TableAssumptions, Table!VariablesCounted
<1> HIDE DEF c
<1>9. d = Len(layers) => 3 + c = FrameSize
  BY <1>5 DEF c
<1> QED BY <1>7, <1>8, <1>9


\* An entry that is not a variable takes no slot.
LEMMA HeadTakesNoSlot ==
  ASSUME NEW layer \in Seq(Table!Entries), NEW e, e.type # "VARIABLE"
  PROVE  SlotsOf(<<e>> \o layer) = SlotsOf(layer)
<1> DEFINE new == <<e>> \o layer
<1>1. /\ Len(new) = Len(layer) + 1 /\ new[1] = e /\ DOMAIN new = 1..Len(new)
      /\ \A i \in 2..(Len(layer) + 1) : new[i] = layer[i - 1]
      /\ DOMAIN layer = 1..Len(layer) /\ Len(layer) \in Nat
  <2> DEFINE All == Table!Entries \cup {e}
  <2>1. layer \in Seq(All) /\ <<e>> \in Seq(All)
    <3>1. Table!Entries \subseteq All /\ e \in All
      OBVIOUS
    <3> HIDE DEF All
    <3> QED BY <3>1
  <2> HIDE DEF All
  <2> QED BY <2>1
<1> HIDE DEF new
<1>2. \A i \in DOMAIN layer : i + 1 \in DOMAIN new /\ new[i + 1] = layer[i]
  BY <1>1
<1>3. \A i \in DOMAIN new : i = 1 \/ (i - 1 \in DOMAIN layer /\ new[i] = layer[i - 1])
  BY <1>1
<1>4. SlotsOf(layer) \subseteq SlotsOf(new)
  BY <1>2 DEF SlotsOf
<1>5. SlotsOf(new) \subseteq SlotsOf(layer)
  BY <1>1, <1>3 DEF SlotsOf
<1> QED BY <1>4, <1>5 DEF new

\* Declaring a constant takes no slot.
LEMMA ConstantTakesNoSlot ==
  ASSUME Table!IInv, NEW name, NEW x, Table!insertConstant(name, x)
  PROVE  /\ Len(layers') = Len(layers)
         /\ \A d \in 1..Len(layers) : SlotsOf(layers'[d]) = SlotsOf(layers[d])
<1> DEFINE n == Len(layers)
           e == [name |-> name, type |-> "CONSTANT", value |-> x]
           new == <<e>> \o layers[n]
<1>1. /\ layers \in Seq(Seq(Table!Entries)) /\ n \in Nat /\ n >= 1 /\ Table!depth = n
  BY LayersTyped
<1>2. layers[n] \in Seq(Table!Entries)
  BY <1>1
<1>3. e.type # "VARIABLE"
  OBVIOUS
<1>4. UNCHANGED layers \/ layers' = [layers EXCEPT ![n] = new]
  BY <1>1 DEF Table!insertConstant, Table!AtHead, Table!vars
<1> HIDE DEF e
<1>5. SlotsOf(new) = SlotsOf(layers[n])
  BY <1>2, <1>3, HeadTakesNoSlot
<1> HIDE DEF new
<1>6. CASE layers' = [layers EXCEPT ![n] = new]
  <2>1. Len(layers') = n /\ layers'[n] = new /\ \A d \in 1..(n - 1) : layers'[d] = layers[d]
    BY <1>1, <1>6
  <2>2. \A d \in 1..n : d = n \/ d \in 1..(n - 1)
    BY <1>1
  <2> QED BY <1>5, <2>1, <2>2
<1> QED BY <1>4, <1>6

\* Declaring a variable takes none of the slots away, provided that cur is at the
\* end of the layer, or there are none.
LEMMA VariableKeepsSlots ==
  ASSUME Table!IInv, NEW name, NEW x, Table!insertVariable(name, x),
         SlotsOf(layers[Len(layers)]) = {} \/ cur = Len(layers[Len(layers)])
  PROVE  /\ Len(layers') = Len(layers)
         /\ \A d \in 1..Len(layers) : SlotsOf(layers[d]) \subseteq SlotsOf(layers'[d])
         /\ UNCHANGED symbols \/ cur' = Len(layers'[Len(layers)])
<1> DEFINE n == Len(layers)
           old == layers[n]
           e == [name |-> name, type |-> "VARIABLE", address |-> Table!SlotBehindCur(x)]
           new == Append(SubSeq(old, 1, cur), e)
<1>1. /\ layers \in Seq(Seq(Table!Entries)) /\ n \in Nat /\ n >= 1 /\ Table!depth = n
      /\ cur \in 0..Len(old)
  BY LayersTyped
<1>2. old \in Seq(Table!Entries)
  BY <1>1
<1>3. UNCHANGED <<layers, cur>> \/ (layers' = [layers EXCEPT ![n] = new] /\ cur' = cur + 1)
  BY <1>1 DEF Table!insertVariable, Table!BehindCur, Table!vars
<1>4. CASE UNCHANGED <<layers, cur>>
  BY <1>4 DEF symbols
<1>5. CASE layers' = [layers EXCEPT ![n] = new] /\ cur' = cur + 1
  <2> HIDE DEF e, old
  <2>1. Len(new) = cur + 1 /\ DOMAIN new = 1..(cur + 1) /\ \A i \in 1..cur : new[i] = old[i]
    BY <1>1, <1>2
  <2> HIDE DEF new
  <2>2. Len(layers') = n /\ layers'[n] = new /\ \A d \in 1..(n - 1) : layers'[d] = layers[d]
    BY <1>1, <1>5
  <2>3. SlotsOf(old) \subseteq SlotsOf(new)
    <3>1. CASE cur = Len(old)
      <4>1. \A i \in DOMAIN old : i \in DOMAIN new /\ new[i] = old[i]
        BY <1>1, <1>2, <2>1, <3>1
      <4> QED BY <4>1 DEF SlotsOf
    <3> QED BY <3>1 DEF old
  <2>4. \A d \in 1..n : d = n \/ d \in 1..(n - 1)
    BY <1>1
  <2>5. \A d \in 1..n : SlotsOf(layers[d]) \subseteq SlotsOf(layers'[d])
    BY <2>2, <2>3, <2>4 DEF old
  <2> QED BY <1>5, <2>1, <2>2, <2>5
<1> QED BY <1>3, <1>4, <1>5

\* Declaring a procedure takes no slot, and its own block has none yet.
LEMMA ProcedureTakesNoSlot ==
  ASSUME Table!IInv, NEW name, NEW a, ~Table!isDuplicated(name), Table!insertProcedure(name, a)
  PROVE  /\ Len(layers') = Len(layers) + 1
         /\ \A d \in 1..Len(layers) : SlotsOf(layers'[d]) = SlotsOf(layers[d])
         /\ SlotsOf(layers'[Len(layers) + 1]) = {}
<1> DEFINE n == Len(layers)
           e == [name |-> name, type |-> "PROCEDURE", address |-> a]
<1>1. /\ Len(layers') = n + 1 /\ \A d \in 1..(n - 1) : layers'[d] = layers[d]
      /\ layers'[n] = <<e>> \o layers[n] /\ layers'[n + 1] = <<>>
  BY ProcedureOpensBlock
<1>2. layers \in Seq(Seq(Table!Entries)) /\ n \in Nat /\ n >= 1
  BY LayersTyped
<1>3. layers[n] \in Seq(Table!Entries) /\ e.type # "VARIABLE"
  BY <1>2
<1> HIDE DEF e
<1>4. SlotsOf(layers'[n]) = SlotsOf(layers[n])
  BY <1>1, <1>3, HeadTakesNoSlot
<1>5. \A d \in 1..n : d = n \/ d \in 1..(n - 1)
  BY <1>2
<1>6. SlotsOf(<<>>) = {}
  BY DEF SlotsOf
<1> QED BY <1>1, <1>4, <1>5, <1>6


----------------------------------------------------------------------------
(***************************************************************************)
(* The inductive invariant: the slots that are read and written.           *)
(***************************************************************************)

\* A slot that an instruction of code c reads or writes in the frame of a block:
\* the block's INT reserves it, or the block is still open, the stack P remembers
\* its INT, and its layer has a variable with this slot.
SlotKnown(c, P, ls, slot, block) ==
  /\ slot >= 3
  /\ \/ block \in 0..(Len(c) - 1) /\ slot < c[block + 1].a
     \/ \E d \in 1..Len(P) : block = P[d] /\ slot \in SlotsOf(ls[d])
SlotsKnown ==
  \A k \in 1..Len(code) : code[k].type \in Accesses =>
    SlotKnown(code, proc_int_backfill, layers, code[k].a, Last(Outward(owner[k], code[k].l)))

\* Constants come before variables, and while they are declared cur is where the
\* next variable keeps those before it.
VariablesLast ==
  LET layer == layers[Len(layers)]
  IN  /\ Phase(items) = 1 => SlotsOf(layer) = {}
      /\ Phase(items) <= 2 => SlotsOf(layer) = {} \/ cur = Len(layer)

SlotsInv ==
  lexErrors = 0 /\ clean =>
    /\ status = "parsing" => VariablesLast /\ SlotsKnown
    /\ status = "succeeded" => SlotsInFrame

\* The frames of a stack P with layers ls as seen when code d, stack Q and layers
\* ms come next: a frame is still open and keeps its slots, or its INT reserves them.
FramesCarried(P, ls, d, Q, ms) ==
  \A j \in 1..Len(P) :
    \/ j \in 1..Len(Q) /\ Q[j] = P[j] /\ SlotsOf(ls[j]) \subseteq SlotsOf(ms[j])
    \/ P[j] \in 0..(Len(d) - 1) /\ \A slot \in SlotsOf(ls[j]) : slot < d[P[j] + 1].a

\* A slot that is known stays known.
LEMMA SlotStaysKnown ==
  ASSUME NEW c \in Seq(Instructions), NEW d, Kept(c, d), Len(d) \in Nat,
         NEW P, NEW ls, NEW Q, NEW ms, FramesCarried(P, ls, d, Q, ms),
         NEW slot \in Int, NEW block, SlotKnown(c, P, ls, slot, block)
  PROVE  SlotKnown(d, Q, ms, slot, block)
<1>1. CASE block \in 0..(Len(c) - 1) /\ slot < c[block + 1].a
  <2>1. c[block + 1].a \in Int
    <3>1. Len(c) \in Nat /\ block + 1 \in 1..Len(c)
      BY <1>1
    <3>2. c[block + 1] \in Instructions
      BY <3>1
    <3> QED BY <3>2 DEF Instructions
  <2>2. c[block + 1].a # 0 /\ slot >= 3
    BY <1>1, <2>1 DEF SlotKnown
  <2>3. block \in 0..(Len(d) - 1) /\ d[block + 1] = c[block + 1]
    BY <1>1, <2>2, KeptInstruction
  <2> QED BY <1>1, <2>2, <2>3 DEF SlotKnown
<1>2. ASSUME NEW j \in 1..Len(P), block = P[j], slot \in SlotsOf(ls[j])
      PROVE  SlotKnown(d, Q, ms, slot, block)
  BY <1>2 DEF SlotKnown, FramesCarried
<1> QED BY <1>1, <1>2 DEF SlotKnown

\* The instructions that are there keep their owners.
OwnersKept == \A k \in 1..Len(code) : owner'[k] = owner[k]

\* The slots they read and write stay known.
LEMMA SlotsStayKnown ==
  ASSUME code \in Seq(Instructions), Len(code') \in Nat, Kept(code, code'), OwnersKept,
         SlotsKnown, NEW Q, NEW ms, FramesCarried(proc_int_backfill, layers, code', Q, ms),
         NEW k \in 1..Len(code), code'[k].type \in Accesses
  PROVE  SlotKnown(code', Q, ms, code'[k].a, Last(Outward(owner'[k], code'[k].l)))
<1>1. code'[k].type = code[k].type /\ ~Blank(code[k])
  BY DEF Kept, Blank, Accesses
<1>2. code'[k] = code[k] /\ owner'[k] = owner[k]
  BY <1>1 DEF Kept, OwnersKept
<1>3. code[k].a \in Int
  <2>1. code[k] \in Instructions
    OBVIOUS
  <2> QED BY <2>1 DEF Instructions
<1> DEFINE block == Last(Outward(owner[k], code[k].l))
           slot == code[k].a
<1>4. SlotKnown(code, proc_int_backfill, layers, slot, block)
  BY <1>1 DEF SlotsKnown
<1>5. slot \in Int
  BY <1>3
<1> HIDE DEF block, slot
<1>6. SlotKnown(code', Q, ms, slot, block)
  BY <1>4, <1>5, SlotStaysKnown
<1> QED BY <1>2, <1>6 DEF block, slot

\* The accesses in code that is going to be emitted lead to slots that are known.
Reaches(e) ==
  \A k \in 1..Len(e) : e[k].type \in Accesses =>
    SlotKnown(code, proc_int_backfill, layers, e[k].a, Last(Outward(open, e[k].l)))

\* When instructions are added, the owners stay, and the new ones belong to the
\* innermost block.
LEMMA OwnersAdded ==
  ASSUME SInv, code \in Seq(Instructions), NEW e \in Seq(Instructions), insert(e)
  PROVE  /\ OwnersKept /\ Len(code') = Len(code) + Len(e)
         /\ \A k \in 1..Len(e) : code'[Len(code) + k] = e[k] /\ owner'[Len(code) + k] = open
<1> DEFINE q == [k \in 1..Len(e) |-> open]
<1>1. owner \in Seq(Seq(Nat)) /\ open \in Seq(Nat) /\ Len(owner) = Len(code)
  BY DEF SInv, Owned
<1>2. code' = code \o e /\ owner' = owner \o q
  BY DEF insert
<1>3. q \in Seq(Seq(Nat)) /\ Len(q) = Len(e) /\ \A k \in 1..Len(e) : q[k] = open
  <2> DEFINE S == Seq(Nat)
  <2>1. open \in S /\ Len(e) \in Nat
    BY <1>1
  <2> HIDE DEF S
  <2>2. q \in Seq(S) /\ Len(q) = Len(e) /\ \A k \in 1..Len(e) : q[k] = open
    BY <2>1
  <2> QED BY <2>2 DEF S
<1> HIDE DEF q
<1>4. /\ Continues(code, owner, code', owner') /\ Len(code') = Len(code) + Len(e)
      /\ \A k \in 1..Len(e) : code'[Len(code) + k] = e[k] /\ owner'[Len(code) + k] = q[k]
  BY SMTT(60), <1>1, <1>2, <1>3, AddedContinues
<1> QED BY <1>3, <1>4 DEF Continues, OwnersKept

\* A variable that is found lies in the block its level leads to (Assembler.h:104-119).
LEMMA VariableReached ==
  ASSUME IInv, SInv, BlocksInv, lexErrors = 0, clean, Reading, Complete,
         r \notin {"PL0", "PROG", "PROC", "EPROC"},
         NEW name, Found(name, {"VARIABLE"}), NEW type
  PROVE  LET i == Access(type, name)
         IN  SlotKnown(code, proc_int_backfill, layers, i.a, Last(Outward(open, i.l)))
<1> DEFINE f == Symbol!findEntry(name)
           n == Len(layers)
           d == n - f.level
           slot == f.entry.address
<1>1. status = "parsing" /\ Table!IInv /\ Table!TypeOK
  BY DEF Reading, IInv, Table!IInv
<1>2. f.level >= 0 /\ f.entry.type = "VARIABLE"
  BY DEF Found
<1>3. /\ f.level \in 0..(n - 1) /\ n \in Nat
      /\ \E i \in DOMAIN layers[n - f.level] : f.entry = layers[n - f.level][i]
  <2>1. Table!NotFound.level = -1
    BY DEF Table!NotFound
  <2>2. f # Table!NotFound
    BY <1>2, <2>1
  <2>3. n \in Nat /\ Table!depth = n
    BY <1>1, LayersTyped
  <2>4. f = Table!findEntry(name)
    BY SameQueries
  <2>5. LET g == Table!findEntry(name)
        IN  \/ g = Table!NotFound
            \/ /\ g.level \in 0..(Table!depth - 1)
               /\ \E i \in DOMAIN layers[Table!depth - g.level] :
                    g.entry = layers[Table!depth - g.level][i]
    BY <1>1, TableAssumptions, Table!FindsClosest
  <2> HIDE DEF f, n
  <2> QED BY <2>2, <2>3, <2>4, <2>5
<1>4. slot \in SlotsOf(layers[d])
  BY <1>2, <1>3 DEF SlotsOf
<1>5. Len(open) = n /\ open \in Seq(Nat)
  BY LayersAreBlocks DEF SInv, Owned
<1>6. d \in 1..n /\ n - f.level = d
  BY <1>3
<1>7. slot >= 3
  BY <1>1, <1>4, <1>6, SlotsReserved
<1>8. BlocksOpen /\ Len(proc_int_backfill) \in Nat
  BY <1>1, StacksNotEmpty DEF BlocksInv
<1>9. d \in 1..Len(proc_int_backfill) /\ open[d] = proc_int_backfill[d]
  BY <1>5, <1>6, <1>8 DEF BlocksOpen
<1>10. Last(Outward(open, f.level)) = open[d]
  <2>1. Outward(open, f.level) = SubSeq(open, 1, d)
    BY <1>5, <1>6 DEF Outward
  <2> HIDE DEF d
  <2>2. Len(SubSeq(open, 1, d)) = d /\ SubSeq(open, 1, d)[d] = open[d]
    BY <1>5, <1>6
  <2> QED BY <2>1, <2>2 DEF Last
<1>11. Access(type, name).a = slot /\ Access(type, name).l = f.level
  BY DEF Access, inst_t
<1> HIDE DEF slot, d, f
<1> QED BY <1>4, <1>7, <1>9, <1>10, <1>11 DEF SlotKnown


\* What loads, stores and operations emit leads to slots that are known ...
LEMMA NamesReach ==
  ASSUME IInv, SInv, BlocksInv, lexErrors = 0, clean, Reading, Complete,
         r \notin {"PL0", "PROG", "PROC", "EPROC"}, NEW name
  PROVE  /\ Reaches(load_id(name)) /\ Reaches(store_id(name)) /\ Reaches(call_proc(name))
         /\ Reaches(read_id(name)) /\ Reaches(write_id(name))
<1>1. \A i : (i.type \in Accesses =>
                SlotKnown(code, proc_int_backfill, layers, i.a, Last(Outward(open, i.l))))
             => Reaches(<<i>>)
  BY DEF Reaches
<1>2. Reaches(<<>>)
  BY DEF Reaches
<1>3. ASSUME NEW type, Found(name, {"VARIABLE"}) PROVE Reaches(<<Access(type, name)>>)
  BY <1>1, <1>3, VariableReached
<1>4. \A e : AccessFree(e) => Reaches(e)
  BY DEF AccessFree, Reaches
<1>5. Reaches(store_id(name)) /\ Reaches(load_id(name))
  BY <1>2, <1>3, <1>4, OperationsAccessFree DEF store_id, load_id
<1>6. Reaches(call_proc(name))
  <2>1. \A n, a : inst_t("CAL", n, a).type \notin Accesses
    BY DEF inst_t, Accesses
  <2>2. Reaches(<<Access("CAL", name)>>)
    BY <1>1, <2>1 DEF Access
  <2> QED BY <1>2, <2>2 DEF call_proc
<1>7. ASSUME NEW c, NEW d, Solid(c), Solid(d), Reaches(c), Reaches(d)
      PROVE  Reaches(c \o d)
  <2>1. c \in Seq(Instructions) /\ d \in Seq(Instructions)
    BY <1>7 DEF Solid
  <2>2. /\ Len(c) \in Nat /\ Len(d) \in Nat /\ Len(c \o d) = Len(c) + Len(d)
        /\ \A k \in 1..Len(c) : (c \o d)[k] = c[k]
        /\ \A k \in 1..Len(d) : (c \o d)[Len(c) + k] = d[k]
    BY <2>1
  <2>3. \A k \in 1..Len(c \o d) :
          k \in 1..Len(c) \/ (k - Len(c) \in 1..Len(d) /\ k = Len(c) + (k - Len(c)))
    BY <2>2
  <2> QED BY <1>7, <2>2, <2>3 DEF Reaches
<1>8. Table!IInv
  BY DEF IInv, Reading
<1>9. Solid(insert_opr(OPR_RD)) /\ Solid(insert_opr(OPR_WR)) /\ Solid(store_id(name)) /\ Solid(load_id(name))
  BY <1>8, Operations, NamesLoaded DEF OPR_RD, OPR_WR
<1>10. Reaches(read_id(name)) /\ Reaches(write_id(name))
  BY <1>2, <1>4, <1>5, <1>7, <1>9, OperationsAccessFree DEF read_id, write_id
<1> QED BY <1>5, <1>6, <1>10

\* ... and so does what simple statements, factors and assignments emit.
LEMMA EmittedReaches ==
  ASSUME IInv, SInv, BlocksInv, lexErrors = 0, clean, EmitSimple \/ Assign
  PROVE  Reaches(IF r = "ASSIGN" THEN store_id(v[1].name) ELSE Emitted)
<1>1. r \in Simple \cup {"ASSIGN"} /\ Complete /\ Reading /\ Table!IInv
  BY DEF EmitSimple, Assign, Reducing, Reading, IInv
<1>2. ASSUME NEW name
      PROVE  /\ Reaches(load_id(name)) /\ Reaches(store_id(name)) /\ Reaches(call_proc(name))
             /\ Reaches(read_id(name)) /\ Reaches(write_id(name))
  BY <1>1, NamesReach DEF Simple
<1>3. /\ \A e : AccessFree(e) => Reaches(e)
      /\ \A id : Reaches(insert_opr(id)) /\ \A x : Reaches(load_number(x))
  BY OperationsAccessFree DEF AccessFree, Reaches
<1>4. ASSUME NEW value PROVE Reaches(Written(value)) /\ Solid(Written(value))
  BY <1>1, <1>2, <1>3, NamesLoaded, Operations DEF Written, OPR_WR
<1>5. CASE r = "WRITE"
  <2> DEFINE c == Written(v[4])
             d == insert_opr(OPR_NL)
  <2>1. /\ c \in Seq(Instructions) /\ d \in Seq(Instructions) /\ Reaches(c) /\ Reaches(d)
    <3>1. Solid(d)
      BY Operations DEF OPR_NL
    <3>2. Solid(c) /\ Reaches(c) /\ Reaches(d)
      BY <1>3, <1>4
    <3> HIDE DEF c, d
    <3> QED BY <3>1, <3>2 DEF Solid
  <2> HIDE DEF c, d
  <2>2. /\ Len(c) \in Nat /\ Len(d) \in Nat /\ Len(c \o d) = Len(c) + Len(d)
        /\ \A k \in 1..Len(c) : (c \o d)[k] = c[k]
        /\ \A k \in 1..Len(d) : (c \o d)[Len(c) + k] = d[k]
    BY <2>1
  <2>3. \A k \in 1..Len(c \o d) :
          k \in 1..Len(c) \/ (k - Len(c) \in 1..Len(d) /\ k = Len(c) + (k - Len(c)))
    BY <2>2
  <2>4. Reaches(c \o d)
    BY <2>1, <2>2, <2>3 DEF Reaches
  <2>5. Emitted = c \o d
    BY <1>5 DEF Emitted, c, d
  <2> QED BY <1>5, <2>4, <2>5
<1>6. CASE r = "ASSIGN"
  BY <1>2, <1>6
<1>7. CASE r = "CALL"
  BY <1>2, <1>7 DEF Emitted
<1>8. CASE r = "READ"
  BY <1>2, <1>8 DEF Emitted
<1>9. CASE r = "OPTRDID"
  BY <1>2, <1>9 DEF Emitted
<1>10. CASE r = "OPTWRID"
  BY <1>4, <1>10 DEF Emitted
<1>11. CASE r = "IDFACTOR"
  BY <1>2, <1>11 DEF Emitted
<1>12. CASE r = "NUMFACTOR"
  BY <1>3, <1>12 DEF Emitted
<1> QED BY <1>1, <1>5, <1>6, <1>7, <1>8, <1>9, <1>10, <1>11, <1>12 DEF Simple

\* Steps within a block keep the owners.
LEMMA SteadyKeepsOwners ==
  ASSUME IInv, SInv, Steady
  PROVE  OwnersKept
<1>1. status = "parsing"
  BY SteadyStatus
<1>2. code \in Seq(Instructions) /\ StacksTyped
  BY <1>1, BeforeReduction
<1>3. CASE Operating
  BY <1>2, <1>3, OperationsEmitted, OwnersAdded
<1>4. CASE EmitSimple \/ Assign
  BY <1>2, <1>4, NamesEmitted, OwnersAdded
<1>5. CASE WhileEnd
  <2> DEFINE S == Seq(Nat)
  <2>1. owner \in Seq(S) /\ open \in S /\ Len(owner) = Len(code) /\ owner' = Append(owner, open)
    BY <1>5 DEF SInv, Owned, WhileEnd
  <2> HIDE DEF S
  <2> QED BY <2>1 DEF OwnersKept
<1>6. CASE UNCHANGED owner
  BY <1>6 DEF OwnersKept
<1>7. ASSUME (\E p \in Productions : Expand(p)) \/ Shift \/ Default \/ Declare \/ WhileEntry \/ IfEnd
      PROVE  UNCHANGED owner
  BY <1>7 DEF Expand, Shift, Default, Declare, WhileEntry, IfEnd
<1> QED BY <1>3, <1>4, <1>5, <1>6, <1>7 DEF Steady, Quiet


\* Without lexical errors the stack of procedures is as high as the symbol table.
LEMMA LayersFramed ==
  ASSUME IInv, SInv, status = "parsing", lexErrors = 0, clean
  PROVE  /\ Len(layers) = Len(proc_int_backfill) /\ Len(layers) \in Nat /\ Len(layers) >= 1
         /\ Table!IInv
<1>1. /\ Len(proc_int_backfill) = 1 + lexErrors + Depth(items, "PROC")
      /\ Len(layers) = 1 + Depth(items, "PROC") /\ Table!IInv
      /\ Len(proc_int_backfill) \in Nat /\ Len(proc_int_backfill) >= 1
      /\ Depth(items, "PROC") \in Nat
  BY BeforeReduction, StacksNotEmpty DEF StacksDeep, SInv, Scoped, Aligned, HasDepth
<1> QED BY <1>1

\* A declaration keeps the slots, and variables come last.
LEMMA DeclareKeepsSlots ==
  ASSUME IInv, Declare, status = "parsing", Table!IInv, VariablesLast, Phase(items') \in {1, 2, 3, 4},
         Phase(items) <= Phase(items')
  PROVE  /\ \A d \in 1..Len(layers) : SlotsOf(layers[d]) \subseteq SlotsOf(layers'[d])
         /\ VariablesLast'
<1> DEFINE n == Len(layers)
           it == items[Len(items)]
<1>1. /\ OnTrack(items) /\ n \in Nat /\ n >= 1
  BY BeforeReduction, LayersTyped
<1>2. it = items[Len(items)] /\ it.rule = r
  BY <1>1, Innermost
<1>3. r \in {"CONSTDEF", "OPTVARID", "VAR"}
  BY DEF Declare, Reducing
<1> HIDE DEF it
<1>4. it.rule \in DOMAIN Rules /\ Len(it.vals) \in Nat
      /\ Phase(items) = IF Leaving(items) THEN 4 ELSE PhaseAt(it.rule, Len(it.vals))
  BY <1>1, <1>2, PhaseOfItem
<1>5. ~Leaving(items)
  BY <1>2, <1>3 DEF Leaving, HasLeft
<1>6. Phase(items) = IF r = "CONSTDEF" THEN 1 ELSE 2
  BY <1>2, <1>3, <1>4, <1>5, PhasesOfRules DEF ConstantRules, VariableRules
<1>7. CASE r = "CONSTDEF"
  <2>1. Table!insertConstant(v[1].name, v[3].desc)
    BY <1>7, SameUpdates DEF Declare
  <2>2. Len(layers') = n /\ \A d \in 1..n : SlotsOf(layers'[d]) = SlotsOf(layers[d])
    BY <2>1, ConstantTakesNoSlot
  <2>3. SlotsOf(layers[n]) = {}
    BY <1>6, <1>7 DEF VariablesLast
  <2>4. SlotsOf(layers'[Len(layers')]) = {}
    BY <1>1, <2>2, <2>3
  <2> QED BY <2>2, <2>4 DEF VariablesLast
<1>8. CASE r # "CONSTDEF"
  <2>1. Table!insertVariable(v[2].name, 3)
    BY <1>8, SameUpdates DEF Declare
  <2>2. Phase(items) = 2
    BY <1>6, <1>8
  <2>3. SlotsOf(layers[n]) = {} \/ cur = Len(layers[n])
    BY <2>2 DEF VariablesLast
  <2>4. /\ Len(layers') = n /\ \A d \in 1..n : SlotsOf(layers[d]) \subseteq SlotsOf(layers'[d])
        /\ UNCHANGED symbols \/ cur' = Len(layers'[n])
    BY <2>1, <2>3, VariableKeepsSlots
  <2>5. Phase(items') # 1
    BY <2>2
  <2>6. SlotsOf(layers'[n]) = {} \/ cur' = Len(layers'[n])
    BY <2>3, <2>4 DEF symbols
  <2> QED BY <2>4, <2>5, <2>6 DEF VariablesLast
<1> QED BY <1>7, <1>8

\* What a step within a block, or out of one, leaves as it is.
LEMMA SteadyOrLeft ==
  ASSUME ~Siblings, IInv, SInv, Steady, status' = "parsing"
  PROVE  /\ status = "parsing" /\ UNCHANGED <<proc_int_backfill, clean, lexErrors>>
         /\ Kept(code, code')
         /\ Phase(items) <= Phase(items') /\ Phase(items) \in {1, 2, 3, 4} /\ Phase(items') \in {1, 2, 3, 4}
<1>1. status = "parsing" /\ UNCHANGED lexErrors
  BY SteadyStatus
<1>2. UNCHANGED clean
  BY DEF Steady, Quiet, Operating, Expand, Shift, Default, Declare, WhileEntry, ReadOperator,
     ApplyOperator, Assertion, IfHeader, WhileHeader, IfEnd, WhileEnd, EmitSimple, Assign, errorFree
<1>3. CASE Default /\ r = "SUBPROG"
  <2>1. Return(nullptr) /\ Complete /\ UNCHANGED <<code, proc_int_backfill>>
    BY <1>3 DEF Default, Reducing, stacks, procStacks
  <2>2. OnTrack(items) /\ OneProcedure(items) /\ code \in Seq(Instructions)
    BY <1>1, BeforeReduction DEF SInv, Scoped
  <2>3. nullptr \in ValuesOf(lhs(r)) /\ r # "PL0"
    BY <1>3, <2>1, <2>2, ValuesComplete, NothingReturned DEF oprOf
  <2>4. Phase(items) <= Phase(items') /\ OnTrack(items')
    BY <1>3, <2>1, <2>2, <2>3, PhaseAfterReduction, Reduced DEF Return
  <2>5. ASSUME NEW its, OnTrack(its) PROVE Phase(its) \in {1, 2, 3, 4}
    <3> DEFINE it == its[Len(its)]
    <3>1. it = its[Len(its)]
      OBVIOUS
    <3> HIDE DEF it
    <3> QED BY <2>5, <3>1, PhaseOfItem
  <2>6. Phase(items) \in {1, 2, 3, 4} /\ Phase(items') \in {1, 2, 3, 4}
    BY <2>2, <2>4, <2>5
  <2> QED BY <1>1, <1>2, <2>1, <2>2, <2>4, <2>6, KeptAsIs
<1>4. CASE ~(Default /\ r = "SUBPROG")
  BY <1>1, <1>2, <1>4, SteadyStep DEF procStacks
<1> QED BY <1>3, <1>4

\* Within a block, and when it is left.
LEMMA SteadyKeepsSlots ==
  ASSUME ~Siblings, IInv, SInv, SInv', BlocksInv, SlotsInv, Steady
  PROVE  SlotsInv'
<1> DEFINE P == proc_int_backfill
<1>1. status = "parsing" /\ status' # "succeeded" /\ UNCHANGED lexErrors
  BY SteadyStatus
<1> SUFFICES ASSUME status' = "parsing", lexErrors = 0, clean'
             PROVE  VariablesLast' /\ SlotsKnown'
  BY <1>1 DEF SlotsInv
<1>2. /\ UNCHANGED <<proc_int_backfill, clean>> /\ Kept(code, code')
      /\ Phase(items) <= Phase(items') /\ Phase(items) \in {1, 2, 3, 4} /\ Phase(items') \in {1, 2, 3, 4}
  BY SteadyOrLeft
<1>3. clean /\ VariablesLast /\ SlotsKnown
  BY <1>1, <1>2 DEF SlotsInv
<1>4. code \in Seq(Instructions) /\ Len(code') \in Nat /\ Len(code) \in Nat
  BY <1>1, CodeStays
<1>5. Len(layers) = Len(P) /\ Len(layers) \in Nat /\ Table!IInv
  BY <1>1, <1>3, LayersFramed
<1>6. CASE UNCHANGED symbols
  <2>1. UNCHANGED <<layers, cur>>
    BY <1>6 DEF symbols
  <2>2. VariablesLast'
    BY <1>2, <1>3, <2>1 DEF VariablesLast
  <2>3. FramesCarried(P, layers, code', P, layers')
    BY <2>1 DEF FramesCarried
  <2>4. \A k \in 1..Len(code) : code'[k].type \in Accesses =>
          SlotKnown(code', P, layers', code'[k].a, Last(Outward(owner'[k], code'[k].l)))
    BY <1>2, <1>3, <1>4, <2>3, SteadyKeepsOwners, SlotsStayKnown
  <2>5. ASSUME NEW k \in (Len(code) + 1)..Len(code'), code'[k].type \in Accesses
        PROVE  SlotKnown(code', P, layers', code'[k].a, Last(Outward(owner'[k], code'[k].l)))
    <3>1. CASE Quiet
      BY <2>5, <3>1, QuietCode DEF NoNewAccess
    <3>2. CASE EmitSimple \/ Assign
      <4>1. PICK e \in Seq(Instructions) :
              insert(e) /\ e = IF r = "ASSIGN" THEN store_id(v[1].name) ELSE Emitted
        BY <3>2, NamesEmitted
      <4>2. Reaches(e)
        BY <1>1, <1>3, <3>2, <4>1, EmittedReaches
      <4>3. /\ Len(code') = Len(code) + Len(e)
            /\ \A j \in 1..Len(e) : code'[Len(code) + j] = e[j] /\ owner'[Len(code) + j] = open
        BY <1>4, <4>1, OwnersAdded
      <4> DEFINE j == k - Len(code)
      <4>4. j \in 1..Len(e) /\ k = Len(code) + j
        BY <1>4, <4>3
      <4> HIDE DEF j
      <4>5. code'[k] = e[j] /\ owner'[k] = open
        BY <4>3, <4>4
      <4> DEFINE block == Last(Outward(open, e[j].l))
                 slot == e[j].a
      <4>6. slot \in Int
        <5>1. e[j] \in Instructions
          BY <4>4
        <5> QED BY <5>1 DEF Instructions
      <4>7. SlotKnown(code, P, layers, slot, block)
        BY <2>5, <4>2, <4>4, <4>5 DEF Reaches
      <4> HIDE DEF slot, block
      <4>8. SlotKnown(code', P, layers', slot, block)
        BY <1>2, <1>4, <2>3, <4>6, <4>7, SlotStaysKnown
      <4> QED BY <4>5, <4>8 DEF slot, block
    <3> QED BY <3>1, <3>2 DEF Steady
  <2>6. \A k \in 1..Len(code') : k \in 1..Len(code) \/ k \in (Len(code) + 1)..Len(code')
    BY <1>4
  <2>7. SlotsKnown'
    BY <1>2, <2>4, <2>5, <2>6 DEF SlotsKnown
  <2> QED BY <2>2, <2>7
<1>7. CASE Declare
  <2>1. VariablesLast' /\ \A d \in 1..Len(layers) : SlotsOf(layers[d]) \subseteq SlotsOf(layers'[d])
    BY <1>1, <1>2, <1>3, <1>5, <1>7, DeclareKeepsSlots
  <2>2. FramesCarried(P, layers, code', P, layers')
    BY <1>5, <2>1 DEF FramesCarried
  <2>3. UNCHANGED code
    BY <1>7 DEF Declare
  <2>4. \A k \in 1..Len(code) : code'[k].type \in Accesses =>
          SlotKnown(code', P, layers', code'[k].a, Last(Outward(owner'[k], code'[k].l)))
    BY <1>2, <1>3, <1>4, <2>2, SteadyKeepsOwners, SlotsStayKnown
  <2>5. SlotsKnown'
    BY <1>2, <2>3, <2>4 DEF SlotsKnown
  <2> QED BY <2>1, <2>5
<1>8. Steady => Declare \/ UNCHANGED symbols
  BY DEF Steady, Quiet, Operating, Expand, Shift, Default, WhileEntry, ReadOperator,
     ApplyOperator, Assertion, IfHeader, WhileHeader, IfEnd, WhileEnd, EmitSimple, Assign
<1> QED BY <1>6, <1>7, <1>8


\* A procedure begins: its frame has no slot yet.
LEMMA ProcedureHeaderKeepsSlots ==
  ASSUME IInv, SInv, SlotsInv, ProcedureHeader
  PROVE  SlotsInv'
<1> DEFINE P == proc_int_backfill
           n == Len(P)
           name == v[2].name
<1>1. /\ Return(nullptr) /\ Complete /\ r = "PROCH" /\ status = "parsing" /\ status' = status
      /\ UNCHANGED lexErrors /\ code' = code \o Prologue /\ P' = Append(P, length)
      /\ owner' = owner \o <<open', open'>> /\ open' = Append(open, length)
      /\ clean' = (clean /\ ~Symbol!isDuplicated(name))
  BY DEF ProcedureHeader, Reducing, Reading, Return, automaton, PushPrologue
<1> SUFFICES ASSUME lexErrors = 0, clean'
             PROVE  VariablesLast' /\ SlotsKnown'
  BY <1>1 DEF SlotsInv
<1>2. clean /\ VariablesLast /\ SlotsKnown
  BY <1>1 DEF SlotsInv
<1>3. /\ OnTrack(items) /\ OneProcedure(items) /\ P \in Seq(Nat)
      /\ code \in Seq(Instructions) /\ length \in Nat /\ length = Len(code)
  BY <1>1, BeforeReduction DEF SInv, Scoped
<1>4. Len(layers) = n /\ n \in Nat /\ n >= 1 /\ Table!IInv
  BY <1>1, <1>2, LayersFramed
<1>5. nullptr \in ValuesOf(lhs(r)) /\ r # "PL0"
  BY <1>1, <1>3, ValuesComplete, NothingReturned DEF oprOf
<1>6. Phase(items') = 1
  BY <1>1, <1>3, <1>5, PhaseAfterReduction DEF Return
<1>7. /\ Len(layers') = n + 1 /\ \A d \in 1..n : SlotsOf(layers'[d]) = SlotsOf(layers[d])
      /\ SlotsOf(layers'[n + 1]) = {}
  <2>1. ~Table!isDuplicated(name) /\ Table!insertProcedure(name, EntryAddress)
    BY <1>1, SameQueries, SameUpdates DEF ProcedureHeader
  <2>2. /\ Len(layers') = Len(layers) + 1
        /\ \A d \in 1..Len(layers) : SlotsOf(layers'[d]) = SlotsOf(layers[d])
        /\ SlotsOf(layers'[Len(layers) + 1]) = {}
    BY <1>4, <2>1, ProcedureTakesNoSlot
  <2> QED BY <1>4, <2>2
<1>8. VariablesLast'
  BY <1>7 DEF VariablesLast
<1>9. /\ Kept(code, code') /\ Len(code') = Len(code) + 2 /\ Len(code') \in Nat
      /\ NoNewAccess
  <2>1. Kept(code, code') /\ Len(code') = Len(code) + Len(Prologue)
    BY <1>1, <1>3, PrologueIsCode, KeptByAdding
  <2>2. NoNewAccess
    BY <1>1, <1>3, PrologueIsCode, OperationsAccessFree, AddedCode
  <2> QED BY <1>3, <2>1, <2>2, PrologueIsCode
<1>10. OwnersKept
  <2> DEFINE S == Seq(Nat)
             q == <<open', open'>>
  <2>1. owner \in Seq(Seq(Nat)) /\ Len(owner) = Len(code) /\ open \in S
    BY DEF SInv, Owned
  <2>2. open' \in S
    BY <1>1, <1>3, <2>1
  <2> HIDE DEF S
  <2>3. q \in Seq(S)
    BY <2>2
  <2>4. q \in Seq(Seq(Nat))
    BY <2>3 DEF S
  <2> HIDE DEF q
  <2>5. owner' = owner \o q
    BY <1>1 DEF q
  <2>6. \A k \in 1..Len(owner) : owner'[k] = owner[k]
    BY <2>1, <2>4, <2>5, OwnersJoined
  <2> QED BY <2>1, <2>6 DEF OwnersKept
<1>11. /\ Len(P') = n + 1 /\ \A d \in 1..n : P'[d] = P[d]
  BY <1>1, <1>3
<1> HIDE DEF n
<1>12. 1..n \subseteq 1..(n + 1)
  BY <1>4
<1>13. FramesCarried(P, layers, code', P', layers')
  BY <1>7, <1>11, <1>12 DEF FramesCarried, n
<1>14. \A k \in 1..Len(code) : code'[k].type \in Accesses =>
          SlotKnown(code', P', layers', code'[k].a, Last(Outward(owner'[k], code'[k].l)))
  BY <1>2, <1>3, <1>9, <1>10, <1>13, SlotsStayKnown
<1>15. \A k \in 1..Len(code') : k \in 1..Len(code) \/ k \in (Len(code) + 1)..Len(code')
  BY <1>3, <1>9
<1>16. SlotsKnown'
  BY <1>9, <1>14, <1>15 DEF SlotsKnown, NoNewAccess
<1> QED BY <1>8, <1>16

\* When one instruction is added, the owners of the others stay.
LEMMA FinishedOwners ==
  ASSUME SInv, code \in Seq(Instructions), NEW o \in Seq(Nat), owner' = Append(owner, o)
  PROVE  OwnersKept
<1> DEFINE S == Seq(Nat)
<1>1. owner \in Seq(S) /\ o \in S /\ Len(owner) = Len(code)
  BY DEF SInv, Owned
<1> HIDE DEF S
<1> QED BY <1>1 DEF OwnersKept

\* A procedure ends: the INT of its frame reserves a slot for each of its variables.
LEMMA ProcedureEndKeepsSlots ==
  ASSUME ~Siblings, IInv, SInv, BlocksInv, SlotsInv, ProcedureEnd
  PROVE  SlotsInv'
<1> DEFINE P == proc_int_backfill
           B == proc_body_backfill
           n == Len(P)
<1>1. /\ Return(nullptr) /\ Complete /\ r = "PROC" /\ status = "parsing" /\ status' = status
      /\ UNCHANGED <<lexErrors, clean, open>>
      /\ code' = Backfill(Backfill(code \o insert_opr(OPR_RET), Last(P), FrameSize),
                          Last(B).jmp_inst, Last(B).proc_body)
      /\ P' = Front(P) /\ owner' = Append(owner, Append(open, Last(P)))
  BY DEF ProcedureEnd, Reducing, Reading, Return, automaton, nesting, errorFree
<1> SUFFICES ASSUME lexErrors = 0, clean
             PROVE  VariablesLast' /\ SlotsKnown'
  BY <1>1 DEF SlotsInv
<1>2. VariablesLast /\ SlotsKnown /\ Prologues
  BY <1>1 DEF SlotsInv, BlocksInv
<1>3. /\ OnTrack(items) /\ OneProcedure(items) /\ P \in Seq(Nat) /\ n >= 2
      /\ code \in Seq(Instructions) /\ length \in Nat /\ length = Len(code)
      /\ Len(B) = n /\ open \in Seq(Nat)
  BY <1>1, BeforeReduction, StacksNotEmpty DEF SInv, Scoped, Owned
<1>4. Len(layers) = n /\ n \in Nat /\ Table!IInv
  BY <1>1, LayersFramed
<1>5. nullptr \in ValuesOf(lhs(r)) /\ r # "PL0"
  BY <1>1, <1>3, ValuesComplete, NothingReturned DEF oprOf
<1>6. Phase(items') = 3
  BY <1>1, <1>3, <1>5, PhaseAfterReduction DEF Return
<1>7. VariablesLast'
  BY <1>6 DEF VariablesLast
<1>8. P # <<>>
  BY <1>3
<1>9. Len(P') = n - 1 /\ (\A d \in 1..(n - 1) : P'[d] = P[d]) /\ Last(P) \in Nat /\ Last(P) = P[n]
  BY <1>1, <1>3, <1>8, Popped DEF Last
<1>10. Len(layers') = n - 1 /\ \A d \in 1..(n - 1) : layers'[d] = layers[d]
  <2>1. Table!ascend
    BY SameUpdates DEF ProcedureEnd, LeaveScope
  <2>2. Len(layers) >= 2
    BY <1>3, <1>4
  <2>3. Len(layers') = Len(layers) - 1 /\ \A d \in 1..(Len(layers) - 1) : layers'[d] = layers[d]
    BY <1>4, <2>1, <2>2, AscendClosesBlock
  <2> QED BY <1>4, <2>3
<1>11. Last(B).jmp_inst = Last(P) + 1
  BY <1>2, <1>3, <1>4 DEF Prologues, Last
<1>12. /\ Last(P) \in Blanks(code) /\ Last(B).jmp_inst \in Blanks(code)
       /\ Last(B).proc_body \in Nat \ {0} /\ Blanks(code) \subseteq 0..(length - 1)
  BY <1>1, TopsAreBlank, BeforeReduction
<1>13. FrameSize \in Int
  BY <1>4, FrameSizes
<1>14. Last(B).proc_body \in Int /\ Last(P) # Last(B).jmp_inst
  BY <1>9, <1>11, <1>12
<1>15. /\ Kept(code, code') /\ Len(code') = Len(code) + 1
       /\ code'[Len(code) + 1].type = "OPR" /\ code'[Last(P) + 1].a = FrameSize
  BY ZenonT(60), <1>1, <1>3, <1>12, <1>13, <1>14, FinishedCode
<1>16. OwnersKept
  <2>1. Append(open, Last(P)) \in Seq(Nat)
    BY <1>3, <1>9
  <2> QED BY <1>1, <1>3, <2>1, FinishedOwners
<1> HIDE DEF n
<1>17. FramesCarried(P, layers, code', P', layers')
  <2> SUFFICES ASSUME NEW j \in 1..n
               PROVE  \/ j \in 1..Len(P') /\ P'[j] = P[j] /\ SlotsOf(layers[j]) \subseteq SlotsOf(layers'[j])
                      \/ P[j] \in 0..(Len(code') - 1)
                         /\ \A slot \in SlotsOf(layers[j]) : slot < code'[P[j] + 1].a
    BY DEF FramesCarried, n
  <2>1. CASE j = n
    <3>1. P[j] = Last(P) /\ code'[P[j] + 1].a = FrameSize
      BY <1>9, <1>15, <2>1
    <3>2. P[j] \in 0..(Len(code') - 1)
      BY <1>3, <1>12, <1>15, <3>1
    <3>3. \A slot \in SlotsOf(layers[j]) : slot < FrameSize
      BY <1>4, <2>1, SlotsReserved
    <3> QED BY <3>1, <3>2, <3>3
  <2>2. CASE j # n
    <3>1. j \in 1..(n - 1)
      BY <1>4, <2>2
    <3> QED BY <1>9, <1>10, <3>1
  <2> QED BY <2>1, <2>2
<1>18. Len(code') \in Nat
  BY <1>3, <1>15
<1>19. \A k \in 1..Len(code) : code'[k].type \in Accesses =>
          SlotKnown(code', P', layers', code'[k].a, Last(Outward(owner'[k], code'[k].l)))
  BY <1>2, <1>3, <1>15, <1>16, <1>17, <1>18, SlotsStayKnown
<1>20. \A k \in 1..Len(code') : k \in 1..Len(code) \/ k = Len(code) + 1
  BY <1>3, <1>15
<1>21. SlotsKnown'
  BY <1>15, <1>19, <1>20 DEF SlotsKnown, Accesses
<1> QED BY <1>7, <1>21

\* The source is complete: so does the INT of the main program.
LEMMA SucceedKeepsSlots ==
  ASSUME ~Siblings, IInv, SInv, MainAtBottom, SlotsInv, Succeed
  PROVE  SlotsInv'
<1> DEFINE P == proc_int_backfill
           B == proc_body_backfill
<1>1. /\ status = "parsing" /\ ~Reading /\ status' = "succeeded"
      /\ UNCHANGED <<lexErrors, clean>>
      /\ code' = Backfill(Backfill(code \o insert_opr(OPR_RET), 0, Symbol!countLayerSize),
                          1, Last(B).proc_body)
      /\ owner' = Append(owner, <<0>>)
  BY DEF Succeed, errorFree
<1> SUFFICES ASSUME lexErrors = 0, clean
             PROVE  SlotsInFrame'
  BY <1>1 DEF SlotsInv
<1>2. SlotsKnown
  BY <1>1 DEF SlotsInv
<1>3. Len(P) = 1 /\ P[1] = 0
  BY <1>1, OnlyMainIsLeft DEF MainAtBottom
<1>4. Len(layers) = 1 /\ Table!IInv
  BY <1>1, <1>3, LayersFramed
<1>5. Symbol!countLayerSize = FrameSize /\ FrameSize \in Int /\ code \in Seq(Instructions)
  BY <1>1, BeforeReduction, FrameSizes
<1>6. Last(B).proc_body \in Nat \ {0} /\ 0 \in Blanks(code) /\ 1 \in Blanks(code)
  BY <1>1, TopsAreBlank, BottomIsBlank
<1>7. /\ Kept(code, code') /\ Len(code') = Len(code) + 1 /\ code' \in Seq(Instructions)
      /\ code'[0 + 1].a = FrameSize /\ code'[Len(code) + 1].type = "OPR"
  <2>1. Last(B).proc_body \in Int /\ 0 # 1
    BY <1>6
  <2> QED BY <1>1, <1>5, <1>6, <2>1, FinishedCode
<1>8. Len(code) \in Nat /\ Len(code') \in Nat /\ DOMAIN code' = 1..Len(code')
  BY <1>5, <1>7
<1>9. OwnersKept
  <2>1. <<0>> \in Seq(Nat)
    OBVIOUS
  <2> QED BY <1>1, <1>5, <2>1, FinishedOwners
<1>10. FramesCarried(P, layers, code', <<>>, <<>>)
  <2> SUFFICES ASSUME NEW j \in 1..Len(P)
               PROVE  P[j] \in 0..(Len(code') - 1)
                      /\ \A slot \in SlotsOf(layers[j]) : slot < code'[P[j] + 1].a
    BY DEF FramesCarried
  <2>1. j = 1 /\ P[j] = 0
    BY <1>3
  <2>2. \A slot \in SlotsOf(layers[j]) : slot < FrameSize
    BY <1>4, <2>1, SlotsReserved
  <2>3. 0 \in 0..(Len(code') - 1)
    BY <1>7, <1>8
  <2> QED BY <1>7, <2>1, <2>2, <2>3
<1>11. \A k \in 1..Len(code) : code'[k].type \in Accesses =>
          SlotKnown(code', <<>>, <<>>, code'[k].a, Last(Outward(owner'[k], code'[k].l)))
  BY <1>2, <1>5, <1>7, <1>8, <1>9, <1>10, SlotsStayKnown
<1>12. \A c, slot, block : SlotKnown(c, <<>>, <<>>, slot, block) => slot >= 3 /\ slot < c[block + 1].a
  BY DEF SlotKnown
<1>13. ASSUME NEW k \in 1..Len(code'), code'[k].type \in {"LOD", "STO"}
       PROVE  LET block == Last(Outward(owner'[k], code'[k].l))
              IN  code'[k].a >= 3 /\ code'[k].a < code'[block + 1].a
  <2>1. k \in 1..Len(code) \/ k = Len(code) + 1
    BY <1>7, <1>8
  <2>2. k \in 1..Len(code)
    BY <1>7, <1>13, <2>1
  <2> QED BY <1>11, <1>12, <1>13, <2>2 DEF Accesses
<1> QED BY <1>8, <1>13 DEF SlotsInFrame, At

\* Nothing has been read or written yet.
LEMMA InitSlotsInv == Init => SlotsInv
<1> SUFFICES ASSUME Init PROVE VariablesLast /\ SlotsKnown
  BY DEF SlotsInv, Init
<1>1. code = Prologue /\ layers = <<<<>>>>
  BY DEF Init, Symbol!Init
<1>2. SlotsOf(layers[Len(layers)]) = {}
  BY <1>1 DEF SlotsOf
<1>3. \A k \in 1..Len(code) : code[k].type \notin Accesses
  BY <1>1, OperationsAccessFree DEF AccessFree
<1> QED BY <1>2, <1>3 DEF VariablesLast, SlotsKnown

\* Every action preserves the invariant.
LEMMA NextKeepsSlots ==
  ASSUME ~Siblings, IInv, SInv, SInv', MainAtBottom, BlocksInv, SlotsInv, [Next]_vars
  PROVE  SlotsInv'
<1>1. CASE status # "parsing" \/ UNCHANGED vars
  <2>1. UNCHANGED vars
    BY <1>1, NothingAfterwards
  <2>2. UNCHANGED <<items, status, lexErrors, code, proc_int_backfill, layers, cur, owner, clean>>
    BY <2>1 DEF vars, automaton, stacks, procStacks, symbols, errorFree
  <2>3. UNCHANGED <<VariablesLast, SlotsKnown, SlotsInFrame>>
    BY <2>2 DEF VariablesLast, SlotsKnown, SlotsInFrame, At, Phase, Leaving, HasLeft
  <2> QED BY <2>2, <2>3 DEF SlotsInv
<1>2. CASE SyntaxErrorFound \/ LexicalError
  <2>1. CASE SyntaxErrorFound
    BY <2>1 DEF SyntaxErrorFound, SlotsInv
  <2>2. CASE LexicalError
    <3>1. lexErrors \in Nat /\ lexErrors' = lexErrors + 1
      BY <2>2, BeforeReduction DEF LexicalError, Reading, StacksDeep
    <3> QED BY <3>1 DEF SlotsInv
  <2> QED BY <1>2, <2>1, <2>2
<1>3. Next => Steady \/ ProcedureHeader \/ ProcedureEnd \/ Succeed \/ SyntaxErrorFound
              \/ LexicalError \/ UNCHANGED vars
  BY DEF Next, Steady, Quiet, Operating, Done
<1> QED BY <1>1, <1>2, <1>3, SteadyKeepsSlots, ProcedureHeaderKeepsSlots, ProcedureEndKeepsSlots,
     SucceedKeepsSlots

\* The slots that instructions read and write are variables of blocks that are still
\* open, or reserved by the blocks that are finished.
THEOREM SlotsInvariance ==
  ASSUME ~Siblings
  PROVE  Spec => []SlotsInv
BY InitSlotsInv, NextKeepsSlots, MainStaysAtBottom, Invariance, ScopeInvariance, BlocksInvariance,
   PTL DEF Spec

\* In the finished code of a source without lexical errors every variable that is
\* read or written lies in its block's frame, behind the three links and within the
\* size that the INT of the block reserves (Assembler.cpp:49).
THEOREM SlotsInFrameHolds ==
  ASSUME ~Siblings
  PROVE  Spec => [](lexErrors = 0 => SlotsInFrame)
<1>1. SlotsInv => (lexErrors = 0 => SlotsInFrame)
  BY DEF SlotsInv, SlotsInFrame
<1> QED BY <1>1, SlotsInvariance, PTL

============================================================================
