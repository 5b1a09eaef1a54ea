---------------------------- MODULE ControlProofs ----------------------------
(***************************************************************************)
(* Theorems about ifs and loops in the compiler, for every source program: *)
(* while it is read, the entries of the three stacks follow the nesting of *)
(* the ifs and loops in it; in the finished code every jump back closes a  *)
(* loop, and what a condition guards is entered through the condition.     *)
(***************************************************************************)
EXTENDS BlockProofs, RecursionLemmas

----------------------------------------------------------------------------
(***************************************************************************)
(* The ifs and loops the source is in.                                     *)
(***************************************************************************)

\* Reading a terminal opens none.
LEMMA BegunAfterShift ==
  ASSUME OnTrack(items), ~Complete, Upcoming \in Terminals, NEW token \in Tokens(Upcoming),
         items' = Recognized(items, token), NEW p, NEW h, Headed(p, h)
  PROVE  Begun(items', p) = Begun(items, p)
<1> DEFINE n == Len(items)
<1>1. /\ Awaits(items[n], Upcoming) /\ n \in Nat /\ n >= 1 /\ r = items[n].rule /\ v = items[n].vals
      /\ Upcoming = rhs(r)[Len(v) + 1]
  BY Innermost
<1>2. Upcoming \in Symbols /\ token \in ValuesOf(Upcoming)
  BY DEF Terminals, ValuesOf
<1>3. \A q : Begun(items', q) = Begun(items, q) \cup (IF items[n].rule = q THEN {n} ELSE {})
  BY <1>1, <1>2, RecognizedNext
<1>4. CASE r = p
  <2>1. v # <<>>
    <3>1. SUFFICES ASSUME v = <<>> PROVE FALSE
      OBVIOUS
    <3>2. Upcoming = lhs(h)
      BY <1>1, <1>4, <3>1, Innermost DEF Headed
    <3> QED BY <3>2 DEF Headed
  <2>2. items[n].rule = p /\ items[n].vals # <<>>
    BY <1>1, <1>4, <2>1
  <2>3. n \in Begun(items, p)
    BY <1>1, <2>2 DEF Begun
  <2> QED BY <1>3, <2>2, <2>3
<1> QED BY <1>1, <1>3, <1>4

\* A reduction opens the item below when it makes its header, and closes its own.
LEMMA BegunAfterReduction ==
  ASSUME OnTrack(items), Complete, r # "PL0", NEW value \in ValuesOf(lhs(r)),
         items' = Recognized(Front(items), value), NEW p, NEW h, Headed(p, h)
  PROVE  LET n == Len(items)
         IN  /\ n \in Nat /\ n >= 2
             /\ Begun(items, p) \subseteq 1..n
             /\ r = h => /\ Begun(items', p) = Begun(items, p) \cup {n - 1}
                         /\ Begun(items, p) \subseteq 1..(n - 2) /\ items[n - 1].rule = p
             /\ r = p => Begun(items', p) = Begun(items, p) \ {n} /\ n \in Begun(items, p)
             /\ r # p => n \notin Begun(items, p)
             /\ r # h /\ r # p => Begun(items', p) = Begun(items, p)
             /\ items[n - 1].rule # p => n - 1 \notin Begun(items, p)
<1> DEFINE front == Front(items)
           n == Len(items)
<1>1. /\ n \in Nat /\ n >= 1 /\ r = items[n].rule /\ v = items[n].vals /\ r \in DOMAIN Rules
      /\ Len(v) = Len(rhs(r)) /\ Len(rhs(r)) \in Nat /\ v \in Seq(AllValues)
  BY Innermost
<1>2. /\ OnTrack(front) /\ Len(front) = n - 1 /\ n > 1
      /\ Awaits(front[n - 1], lhs(r)) /\ front[n - 1] = items[n - 1]
      /\ \A q : Begun(front, q) = Begun(items, q) \ {n}
  BY <1>1, FrontItems
<1>3. lhs(r) \in Symbols
  BY <1>1 DEF Symbols, Nonterminals, lhs
<1> HIDE DEF front
<1> DEFINE b == front[n - 1].rule
<1>4. Begun(items', p) = Begun(front, p) \cup (IF b = p THEN {n - 1} ELSE {})
  <2>1. Awaits(front[Len(front)], lhs(r))
    BY <1>2
  <2> QED BY <1>2, <1>3, <2>1, RecognizedNext DEF front
<1>5. front[n - 1] \in Items /\ b \in DOMAIN Rules
  <2>1. front \in Seq(Items) /\ n - 1 \in 1..Len(front)
    BY <1>1, <1>2 DEF OnTrack
  <2>2. front[n - 1] \in Items
    BY <2>1
  <2> QED BY <2>2 DEF Items
<1>6. /\ Len(front[n - 1].vals) \in Nat /\ Len(front[n - 1].vals) + 1 \in DOMAIN rhs(b)
      /\ rhs(b)[Len(front[n - 1].vals) + 1] = lhs(r)
  BY <1>2, <1>5, RhsAreSequences DEF Awaits, Items, RhsIsSequence
<1>7. Begun(items', p) = (Begun(items, p) \ {n}) \cup (IF b = p THEN {n - 1} ELSE {})
  BY <1>2, <1>4
<1>8. n \in Begun(items, p) <=> r = p /\ v # <<>>
  BY <1>1 DEF Begun
<1>9. n - 1 \in Begun(items, p) <=> b = p /\ front[n - 1].vals # <<>>
  BY <1>1, <1>2 DEF Begun
<1>10. Begun(items, p) \subseteq 1..n
  BY DEF Begun
<1>11. CASE r = h
  <2>1. b = p /\ Len(front[n - 1].vals) + 1 = 1
    BY <1>5, <1>6, <1>11 DEF Headed
  <2>2. front[n - 1].vals = <<>>
    BY <1>5, <2>1 DEF Items
  <2>3. r # p
    BY <1>11 DEF Headed
  <2>4. n \notin Begun(items, p) /\ n - 1 \notin Begun(items, p)
    BY <1>8, <1>9, <2>2, <2>3
  <2>5. \A k \in 1..n : k # n /\ k # n - 1 => k \in 1..(n - 2)
    BY <1>1
  <2>6. Begun(items, p) \subseteq 1..(n - 2)
    BY <1>10, <2>4, <2>5
  <2> QED BY <1>1, <1>2, <1>7, <1>10, <1>11, <2>1, <2>3, <2>4, <2>6
<1>12. CASE r # h
  <2>1. b = p => n - 1 \in Begun(items, p)
    <3> SUFFICES ASSUME b = p, front[n - 1].vals = <<>> PROVE FALSE
      BY <1>9
    <3>1. rhs(p)[1] = lhs(r)
      BY <1>6
    <3> QED BY <1>1, <1>12, <3>1 DEF Headed
  <2>2. Begun(items', p) = Begun(items, p) \ {n}
    BY <1>1, <1>7, <2>1
  <2>3. r = p => v # <<>>
    BY <1>1 DEF Headed
  <2> QED BY <1>1, <1>2, <1>8, <1>9, <1>10, <1>12, <2>2, <2>3
<1> QED BY <1>11, <1>12

----------------------------------------------------------------------------
(***************************************************************************)
(* Stacks whose entries belong to items.                                   *)
(***************************************************************************)

\* f gives, for every entry of stack s, the item among places it belongs to:
\* the further up the entry, the further in the item.
Marked(s, places, f) ==
  /\ f \in [Nat -> Nat]
  /\ \A a, b \in 1..Len(s) : a < b => f[a] < f[b]
  /\ \A a \in 1..Len(s) : f[a] \in places
  /\ \A k \in places : \E a \in 1..Len(s) : f[a] = k

\* An entry of s that belongs to an item around that of an entry of t, or to the
\* same one, is an address not behind it.
Behind(s, f, t, g) ==
  \A a \in 1..Len(s), b \in 1..Len(t) : f[a] <= g[b] => s[a] <= t[b]

\* Stack s with function f becomes t with g: x, which belongs to item k, is pushed.
Longer(s, f, x, k, t, g) ==
  /\ Len(s) \in Nat /\ Len(t) = Len(s) + 1 /\ t[Len(s) + 1] = x
  /\ g \in [Nat -> Nat] /\ g[Len(s) + 1] = k
  /\ \A a \in 1..Len(s) : t[a] = s[a] /\ g[a] = f[a] /\ f[a] \in Nat
  /\ \A a \in 1..(Len(s) + 1) : a \in 1..Len(s) \/ a = Len(s) + 1

\* A stack with one more entry, and the map from its entries to items.
LEMMA Lengthened ==
  ASSUME NEW s \in Seq(Nat), NEW x \in Nat, NEW f \in [Nat -> Nat], NEW k \in Nat
  PROVE  Longer(s, f, x, k, Append(s, x), [f EXCEPT ![Len(s) + 1] = k])
<1> DEFINE t == Append(s, x)
           g == [f EXCEPT ![Len(s) + 1] = k]
<1>1. Len(s) \in Nat
  OBVIOUS
<1>2. /\ \A a \in 1..Len(s) : a \in Nat /\ a # Len(s) + 1
      /\ \A a \in 1..(Len(s) + 1) : a \in 1..Len(s) \/ a = Len(s) + 1
  <2>1. \A m \in Nat : /\ \A a \in 1..m : a \in Nat /\ a # m + 1
                       /\ \A a \in 1..(m + 1) : a \in 1..m \/ a = m + 1
    OBVIOUS
  <2> QED BY <1>1, <2>1, Zenon
<1>3. Len(s) + 1 \in Nat
  BY <1>1
<1>4. g \in [Nat -> Nat] /\ g[Len(s) + 1] = k /\ \A a \in Nat : a # Len(s) + 1 => g[a] = f[a] /\ f[a] \in Nat
  BY <1>3
<1>5. Len(t) = Len(s) + 1 /\ t[Len(s) + 1] = x /\ \A a \in 1..Len(s) : t[a] = s[a]
  <2>1. Len(t) = Len(s) + 1 /\ t[Len(s) + 1] = x
    OBVIOUS
  <2>2. \A a \in 1..Len(s) : t[a] = s[a]
    OBVIOUS
  <2> QED BY <2>1, <2>2
<1> HIDE DEF t, g
<1>6. Longer(s, f, x, k, t, g)
  BY <1>1, <1>2, <1>4, <1>5 DEF Longer
<1> QED BY <1>6 DEF t, g

\* A push.
LEMMA MarkPushed ==
  ASSUME NEW s \in Seq(Nat), NEW x \in Nat, NEW places, NEW f, Marked(s, places, f),
         NEW k \in Nat, \A j \in places : j < k
  PROVE  Marked(Append(s, x), places \cup {k}, [f EXCEPT ![Len(s) + 1] = k])
<1> DEFINE t == Append(s, x)
           g == [f EXCEPT ![Len(s) + 1] = k]
           n == Len(s)
<1>1. f \in [Nat -> Nat] /\ Longer(s, f, x, k, t, g)
  BY Lengthened DEF Marked
<1> HIDE DEF t, g
<1>2. /\ Len(t) = n + 1 /\ n \in Nat /\ \A a \in 1..(n + 1) : a \in 1..n \/ a = n + 1
      /\ g \in [Nat -> Nat] /\ g[n + 1] = k /\ \A a \in 1..n : g[a] = f[a]
  BY <1>1 DEF Longer
<1> HIDE DEF n
<1>3. ASSUME NEW a \in 1..(n + 1), NEW b \in 1..(n + 1), a < b PROVE g[a] < g[b]
  <2>1. a \in 1..n
    BY <1>2, <1>3
  <2>2. CASE b \in 1..n
    BY <1>2, <1>3, <2>1, <2>2 DEF Marked, n
  <2>3. CASE b = n + 1
    <3>1. f[a] \in places
      BY <2>1 DEF Marked, n
    <3> QED BY <1>2, <2>1, <2>3, <3>1
  <2> QED BY <1>2, <2>2, <2>3
<1>4. \A a \in 1..(n + 1) : g[a] \in places \cup {k}
  BY <1>2 DEF Marked, n
<1>5. \A j \in places \cup {k} : \E a \in 1..(n + 1) : g[a] = j
  <2>1. n + 1 \in 1..(n + 1) /\ \A a \in 1..n : a \in 1..(n + 1)
    BY <1>2
  <2>2. \A j \in places : \E a \in 1..n : f[a] = j
    BY DEF Marked, n
  <2> QED BY <1>2, <2>1, <2>2
<1>6. Marked(t, places \cup {k}, g)
  BY <1>1, <1>2, <1>3, <1>4, <1>5 DEF Marked
<1> QED BY <1>6 DEF t, g, n

\* The entry on top belongs to the innermost item.
LEMMA MarkOnTop ==
  ASSUME NEW s \in Seq(Nat), NEW places, NEW f, Marked(s, places, f),
         NEW n \in places, \A j \in places : j <= n
  PROVE  s # <<>> /\ Len(s) \in Nat /\ Len(s) >= 1 /\ f[Len(s)] = n
<1>1. PICK a \in 1..Len(s) : f[a] = n
  BY DEF Marked
<1>2. Len(s) \in Nat /\ Len(s) >= 1 /\ Len(s) \in 1..Len(s)
  BY <1>1
<1>3. f[Len(s)] \in places /\ f \in [Nat -> Nat]
  BY <1>2 DEF Marked
<1>4. a < Len(s) => f[a] < f[Len(s)]
  BY <1>2 DEF Marked
<1>5. a < Len(s) \/ a = Len(s)
  BY <1>2
<1>6. f[Len(s)] \in Nat /\ f[Len(s)] <= n /\ n \in Nat
  BY <1>1, <1>2, <1>3
<1>7. s # <<>>
  BY <1>2
<1> QED BY <1>1, <1>2, <1>4, <1>5, <1>6, <1>7

\* A pop.
LEMMA MarkPopped ==
  ASSUME NEW s \in Seq(Nat), NEW places, NEW f, Marked(s, places, f),
         NEW n \in places, \A j \in places : j <= n
  PROVE  Marked(Front(s), places \ {n}, f)
<1>1. s # <<>> /\ Len(s) \in Nat /\ Len(s) >= 1 /\ f[Len(s)] = n
  BY MarkOnTop
<1>2. Len(Front(s)) = Len(s) - 1
  BY <1>1, Popped
<1>3. \A a \in 1..(Len(s) - 1) : a \in 1..Len(s) /\ a < Len(s)
  BY <1>1
<1>4. \A a \in 1..Len(s) : a = Len(s) \/ a \in 1..(Len(s) - 1)
  BY <1>1
<1>5. Len(s) \in 1..Len(s)
  BY <1>1
<1>6. \A a \in 1..(Len(s) - 1) : f[a] \in places /\ f[a] < f[Len(s)]
  BY <1>3, <1>5 DEF Marked
<1>7. \A a \in 1..(Len(s) - 1) : f[a] # n
  <2>1. f \in [Nat -> Nat]
    BY DEF Marked
  <2> QED BY <1>1, <1>3, <1>6, <2>1
<1>8. \A k \in places \ {n} : \E a \in 1..(Len(s) - 1) : f[a] = k
  BY <1>1, <1>4 DEF Marked
<1> QED BY <1>2, <1>3, <1>6, <1>7, <1>8 DEF Marked

\* Behind another stack, pushes and pops.
LEMMA BehindPushed ==
  ASSUME NEW s \in Seq(Nat), NEW f, NEW t \in Seq(Nat), NEW g, Behind(s, f, t, g),
         f \in [Nat -> Nat], g \in [Nat -> Nat], NEW x \in Nat, NEW k \in Nat
  PROVE  /\ (\A a \in 1..Len(s) : s[a] <= x)
              => Behind(s, f, Append(t, x), [g EXCEPT ![Len(t) + 1] = k])
         /\ (\A b \in 1..Len(t) : g[b] < k)
              => Behind(Append(s, x), [f EXCEPT ![Len(s) + 1] = k], t, g)
<1> DEFINE sx == Append(s, x)
           fx == [f EXCEPT ![Len(s) + 1] = k]
           tx == Append(t, x)
           gx == [g EXCEPT ![Len(t) + 1] = k]
<1>1. Longer(s, f, x, k, sx, fx) /\ Longer(t, g, x, k, tx, gx)
  BY Lengthened
<1> HIDE DEF sx, fx, tx, gx
<1>2. /\ Len(s) \in Nat /\ Len(sx) = Len(s) + 1 /\ sx[Len(s) + 1] = x /\ fx[Len(s) + 1] = k
      /\ \A a \in 1..Len(s) : sx[a] = s[a] /\ fx[a] = f[a]
      /\ \A a \in 1..(Len(s) + 1) : a \in 1..Len(s) \/ a = Len(s) + 1
      /\ Len(t) \in Nat /\ Len(tx) = Len(t) + 1 /\ tx[Len(t) + 1] = x
      /\ \A a \in 1..Len(t) : tx[a] = t[a] /\ gx[a] = g[a] /\ g[a] \in Nat
      /\ \A a \in 1..(Len(t) + 1) : a \in 1..Len(t) \/ a = Len(t) + 1
  BY <1>1 DEF Longer
<1>3. ASSUME \A a \in 1..Len(s) : s[a] <= x PROVE Behind(s, f, tx, gx)
  BY <1>2, <1>3 DEF Behind
<1>4. ASSUME \A b \in 1..Len(t) : g[b] < k PROVE Behind(sx, fx, t, g)
  <2>1. ASSUME NEW b \in 1..Len(t) PROVE ~(k <= g[b])
    <3>1. g[b] \in Nat /\ g[b] < k
      BY <1>2, <1>4
    <3> QED BY <3>1
  <2> QED BY <1>2, <2>1 DEF Behind
<1> QED BY <1>3, <1>4 DEF sx, fx, tx, gx

\* A stack behind itself.
LEMMA BehindItselfPushed ==
  ASSUME NEW s \in Seq(Nat), NEW f, Behind(s, f, s, f), f \in [Nat -> Nat],
         NEW x \in Nat, NEW k \in Nat,
         \A a \in 1..Len(s) : s[a] <= x /\ f[a] < k
  PROVE  Behind(Append(s, x), [f EXCEPT ![Len(s) + 1] = k], Append(s, x), [f EXCEPT ![Len(s) + 1] = k])
<1> DEFINE sx == Append(s, x)
           fx == [f EXCEPT ![Len(s) + 1] = k]
<1>1. Longer(s, f, x, k, sx, fx)
  BY Lengthened
<1> HIDE DEF sx, fx
<1>2. /\ Len(s) \in Nat /\ Len(sx) = Len(s) + 1 /\ sx[Len(s) + 1] = x /\ fx[Len(s) + 1] = k
      /\ \A a \in 1..Len(s) : sx[a] = s[a] /\ fx[a] = f[a] /\ f[a] \in Nat
      /\ \A a \in 1..(Len(s) + 1) : a \in 1..Len(s) \/ a = Len(s) + 1
  BY <1>1 DEF Longer
<1>3. \A b \in 1..Len(s) : ~(k <= f[b])
  BY <1>2
<1>4. x <= x
  OBVIOUS
<1>5. Behind(sx, fx, sx, fx)
  BY <1>2, <1>3, <1>4 DEF Behind
<1> QED BY <1>5 DEF sx, fx

\* What is taken off disturbs nothing.
LEMMA BehindPopped ==
  ASSUME NEW s \in Seq(Nat), NEW f, NEW t \in Seq(Nat), NEW g, Behind(s, f, t, g)
  PROVE  /\ s # <<>> => Behind(Front(s), f, t, g)
         /\ t # <<>> => Behind(s, f, Front(t), g)
         /\ s # <<>> /\ t # <<>> => Behind(Front(s), f, Front(t), g)
<1>1. /\ \A a \in 1..(Len(s) - 1) : a \in 1..Len(s)
      /\ \A a \in 1..(Len(t) - 1) : a \in 1..Len(t)
  OBVIOUS
<1>2. s # <<>> => Len(Front(s)) = Len(s) - 1 /\ \A a \in 1..(Len(s) - 1) : Front(s)[a] = s[a]
  BY Popped
<1>3. t # <<>> => Len(Front(t)) = Len(t) - 1 /\ \A a \in 1..(Len(t) - 1) : Front(t)[a] = t[a]
  BY Popped
<1> QED BY <1>1, <1>2, <1>3 DEF Behind

\* F, N and W are the stacks of the ifs' JPCs, the loops' JPCs and the loops'
\* beginnings; ifs, loops and heads are the items they belong to.
Arranged(F, N, W, ifs, loops, heads, f, g, h) ==
  /\ Marked(F, ifs, f) /\ Marked(N, loops, g) /\ Marked(W, loops \cup heads, h)
  /\ Behind(F, f, F, f) /\ Behind(F, f, N, g) /\ Behind(N, g, F, f) /\ Behind(N, g, N, g)
  /\ Behind(W, h, F, f) /\ Behind(W, h, N, g) /\ Behind(W, h, W, h)

\* What is on the stacks is not behind x, and belongs to items around k.
Within(F, N, W, ifs, loops, heads, x, k) ==
  /\ \A a \in 1..Len(F) : F[a] <= x
  /\ \A a \in 1..Len(N) : N[a] <= x
  /\ \A a \in 1..Len(W) : W[a] <= x
  /\ \A j \in ifs \cup loops \cup heads : j < k

\* Item n is not around any of them.
Innermostly(ifs, loops, heads, n) == \A j \in ifs \cup loops \cup heads : j <= n

\* The entries' items are those.
LEMMA PlacesMarked ==
  ASSUME NEW s \in Seq(Nat), NEW places, NEW f, Marked(s, places, f), NEW k, \A j \in places : j < k
  PROVE  f \in [Nat -> Nat] /\ \A a \in 1..Len(s) : f[a] < k
BY DEF Marked

\* An if is opened: its JPC is pushed.
LEMMA IfArranged ==
  ASSUME NEW F \in Seq(Nat), NEW N \in Seq(Nat), NEW W \in Seq(Nat), NEW ifs, NEW loops, NEW heads,
         NEW f, NEW g, NEW h, Arranged(F, N, W, ifs, loops, heads, f, g, h),
         NEW x \in Nat, NEW k \in Nat, Within(F, N, W, ifs, loops, heads, x, k)
  PROVE  Arranged(Append(F, x), N, W, ifs \cup {k}, loops, heads, [f EXCEPT ![Len(F) + 1] = k], g, h)
<1> DEFINE Fx == Append(F, x)
           fx == [f EXCEPT ![Len(F) + 1] = k]
           both == loops \cup heads
<1>1. /\ Marked(F, ifs, f)
      /\ Marked(N, loops, g)
      /\ Marked(W, both, h)
  BY DEF Arranged
<1>2. /\ Behind(F, f, F, f) /\ Behind(F, f, N, g) /\ Behind(N, g, F, f) /\ Behind(N, g, N, g)
      /\ Behind(W, h, F, f) /\ Behind(W, h, N, g) /\ Behind(W, h, W, h)
  BY DEF Arranged
<1>3. /\ \A a \in 1..Len(F) : F[a] <= x
      /\ \A a \in 1..Len(N) : N[a] <= x
      /\ \A a \in 1..Len(W) : W[a] <= x
  BY DEF Within
<1>4. \A j \in ifs : j < k
  BY DEF Within
<1>5. \A j \in loops : j < k
  BY DEF Within
<1>6. \A j \in both : j < k
  BY DEF Within
<1> HIDE DEF both
<1>7. f \in [Nat -> Nat] /\ \A a \in 1..Len(F) : f[a] < k
  BY <1>1, <1>4, PlacesMarked
<1>8. g \in [Nat -> Nat] /\ \A a \in 1..Len(N) : g[a] < k
  BY <1>1, <1>5, PlacesMarked
<1>9. h \in [Nat -> Nat] /\ \A a \in 1..Len(W) : h[a] < k
  BY <1>1, <1>6, PlacesMarked
<1>10. Marked(Fx, ifs \cup {k}, fx)
  BY <1>1, <1>4, MarkPushed
<1>11. Behind(Fx, fx, Fx, fx)
  BY <1>2, <1>3, <1>7, BehindItselfPushed
<1>12. Behind(Fx, fx, N, g)
  BY <1>2, <1>7, <1>8, BehindPushed
<1>13. Behind(N, g, Fx, fx)
  BY <1>2, <1>3, <1>7, <1>8, BehindPushed
<1>14. Behind(W, h, Fx, fx)
  BY <1>2, <1>3, <1>7, <1>9, BehindPushed
<1> HIDE DEF Fx, fx
<1>15. Arranged(Fx, N, W, ifs \cup {k}, loops, heads, fx, g, h)
  BY <1>1, <1>2, <1>10, <1>11, <1>12, <1>13, <1>14 DEF Arranged, both
<1> QED BY <1>15 DEF Fx, fx

\* A loop begins: the place to come back to is pushed.
LEMMA EntryArranged ==
  ASSUME NEW F \in Seq(Nat), NEW N \in Seq(Nat), NEW W \in Seq(Nat), NEW ifs, NEW loops, NEW heads,
         NEW f, NEW g, NEW h, Arranged(F, N, W, ifs, loops, heads, f, g, h),
         NEW x \in Nat, NEW k \in Nat, Within(F, N, W, ifs, loops, heads, x, k)
  PROVE  Arranged(F, N, Append(W, x), ifs, loops, heads \cup {k}, f, g, [h EXCEPT ![Len(W) + 1] = k])
<1> DEFINE Wx == Append(W, x)
           hx == [h EXCEPT ![Len(W) + 1] = k]
           both == loops \cup heads
<1>1. /\ Marked(F, ifs, f)
      /\ Marked(N, loops, g)
      /\ Marked(W, both, h)
  BY DEF Arranged
<1>2. /\ Behind(F, f, F, f) /\ Behind(F, f, N, g) /\ Behind(N, g, F, f) /\ Behind(N, g, N, g)
      /\ Behind(W, h, F, f) /\ Behind(W, h, N, g) /\ Behind(W, h, W, h)
  BY DEF Arranged
<1>3. \A a \in 1..Len(W) : W[a] <= x
  BY DEF Within
<1>4. \A j \in ifs : j < k
  BY DEF Within
<1>5. \A j \in loops : j < k
  BY DEF Within
<1>6. \A j \in both : j < k
  BY DEF Within
<1>7. both \cup {k} = loops \cup (heads \cup {k})
  OBVIOUS
<1> HIDE DEF both
<1>8. f \in [Nat -> Nat] /\ \A a \in 1..Len(F) : f[a] < k
  BY <1>1, <1>4, PlacesMarked
<1>9. g \in [Nat -> Nat] /\ \A a \in 1..Len(N) : g[a] < k
  BY <1>1, <1>5, PlacesMarked
<1>10. h \in [Nat -> Nat] /\ \A a \in 1..Len(W) : h[a] < k
  BY <1>1, <1>6, PlacesMarked
<1>11. Marked(Wx, both \cup {k}, hx)
  BY <1>1, <1>6, MarkPushed
<1>12. Behind(Wx, hx, Wx, hx)
  BY <1>2, <1>3, <1>10, BehindItselfPushed
<1>13. Behind(Wx, hx, F, f)
  BY <1>2, <1>8, <1>10, BehindPushed
<1>14. Behind(Wx, hx, N, g)
  BY <1>2, <1>9, <1>10, BehindPushed
<1> HIDE DEF Wx, hx
<1>15. Arranged(F, N, Wx, ifs, loops, heads \cup {k}, f, g, hx)
  BY <1>1, <1>2, <1>7, <1>11, <1>12, <1>13, <1>14 DEF Arranged
<1> QED BY <1>15 DEF Wx, hx

\* A loop's condition is complete: the loop's JPC is pushed, and the loop itself
\* takes the place of its beginning.
LEMMA LoopArranged ==
  ASSUME NEW F \in Seq(Nat), NEW N \in Seq(Nat), NEW W \in Seq(Nat), NEW ifs, NEW loops, NEW heads,
         NEW f, NEW g, NEW h, Arranged(F, N, W, ifs, loops, heads, f, g, h),
         NEW x \in Nat, NEW n \in Nat, n - 1 \in Nat, n \in heads,
         \A j \in ifs \cup loops : j < n - 1,
         \A j \in heads : j = n \/ j < n - 1,
         Within(F, N, W, {}, {}, {}, x, n)
  PROVE  Arranged(F, Append(N, x), W, ifs, loops \cup {n - 1}, heads \ {n}, f,
                  [g EXCEPT ![Len(N) + 1] = n - 1], [h EXCEPT ![Len(W)] = n - 1])
<1> DEFINE Nx == Append(N, x)
           gx == [g EXCEPT ![Len(N) + 1] = n - 1]
           hx == [h EXCEPT ![Len(W)] = n - 1]
           both == loops \cup heads
           m == n - 1
<1>1. /\ Marked(F, ifs, f)
      /\ Marked(N, loops, g)
      /\ Marked(W, both, h)
  BY DEF Arranged
<1>2. /\ Behind(F, f, F, f) /\ Behind(F, f, N, g) /\ Behind(N, g, F, f) /\ Behind(N, g, N, g)
      /\ Behind(W, h, F, f) /\ Behind(W, h, N, g) /\ Behind(W, h, W, h)
  BY DEF Arranged
<1>3. /\ \A a \in 1..Len(F) : F[a] <= x
      /\ \A a \in 1..Len(N) : N[a] <= x
      /\ \A a \in 1..Len(W) : W[a] <= x
  BY DEF Within
<1>4. \A j \in ifs : j < m
  OBVIOUS
<1>5. \A j \in loops : j < m
  OBVIOUS
<1>6. \A j \in both : j = n \/ j < m
  OBVIOUS
<1>7. (both \ {n}) \cup {m} = (loops \cup {m}) \cup (heads \ {n})
  <2>1. n \notin loops
    BY <1>5
  <2> QED BY <2>1
<1>8. m \in Nat /\ m < n /\ \A j \in both : j <= n
  <2>2. \A a \in 1..Len(W) : h[a] \in Nat
    BY <1>1 DEF Marked
  <2>3. ASSUME NEW j \in both PROVE j \in Nat
    <3>1. PICK a \in 1..Len(W) : h[a] = j
      BY <1>1 DEF Marked
    <3> QED BY <2>2, <3>1
  <2> QED BY <1>6, <2>3
<1>26. n \in both
  OBVIOUS
<1>27. \A j \in both : j <= n
  BY <1>8
<1> HIDE DEF both, m
<1>9. f \in [Nat -> Nat] /\ \A a \in 1..Len(F) : f[a] < m
  BY <1>1, <1>4, PlacesMarked
<1>10. g \in [Nat -> Nat] /\ \A a \in 1..Len(N) : g[a] < m
  BY <1>1, <1>5, PlacesMarked
<1>11. Marked(Nx, loops \cup {m}, gx)
  BY <1>1, <1>5, <1>8, MarkPushed DEF m
<1>12. Behind(Nx, gx, Nx, gx)
  BY <1>2, <1>3, <1>8, <1>10, BehindItselfPushed DEF m
<1>13. Behind(Nx, gx, F, f)
  BY <1>2, <1>8, <1>9, <1>10, BehindPushed DEF m
<1>14. Behind(F, f, Nx, gx)
  BY <1>2, <1>3, <1>8, <1>9, <1>10, BehindPushed DEF m
<1>15. W # <<>> /\ Len(W) \in Nat /\ Len(W) >= 1 /\ h[Len(W)] = n /\ h \in [Nat -> Nat]
  <2>1. W # <<>> /\ Len(W) \in Nat /\ Len(W) >= 1 /\ h[Len(W)] = n
    BY <1>1, <1>26, <1>27, MarkOnTop
  <2> QED BY <1>1, <2>1 DEF Marked
<1>16. /\ hx \in [Nat -> Nat] /\ hx[Len(W)] = m
       /\ \A a \in 1..Len(W) : /\ h[a] \in Nat
                               /\ a # Len(W) => a < Len(W) /\ hx[a] = h[a]
  <2>1. m \in Nat /\ Len(W) \in Nat /\ h \in [Nat -> Nat]
    BY <1>8, <1>15
  <2>2. hx \in [Nat -> Nat] /\ hx[Len(W)] = m /\ \A a \in Nat : a # Len(W) => hx[a] = h[a]
    BY <2>1 DEF m
  <2>3. \A a \in 1..Len(W) : a \in Nat /\ (a # Len(W) => a < Len(W))
    BY <2>1
  <2>4. \A a \in Nat : h[a] \in Nat
    BY <2>1
  <2> QED BY <2>2, <2>3, <2>4
<1>17. Longer(N, g, x, m, Nx, gx)
  BY <1>8, <1>10, Lengthened DEF m
<1> HIDE DEF Nx, gx, hx
<1>18. \A a \in 1..Len(W) : a < Len(W) => h[a] < m
  <2> SUFFICES ASSUME NEW a \in 1..Len(W), a < Len(W) PROVE h[a] < m
    OBVIOUS
  <2>1. Len(W) \in 1..Len(W)
    BY <1>15
  <2>2. h[a] \in both /\ h[a] < h[Len(W)]
    BY <1>1, <2>1 DEF Marked
  <2>3. h[a] # n
    BY <1>15, <1>16, <2>2
  <2> QED BY <1>6, <2>2, <2>3
<1>19. Marked(W, (both \ {n}) \cup {m}, hx)
  <2>1. \A a, b \in 1..Len(W) : a < b => hx[a] < hx[b]
    <3> SUFFICES ASSUME NEW a \in 1..Len(W), NEW b \in 1..Len(W), a < b PROVE hx[a] < hx[b]
      OBVIOUS
    <3>1. a < Len(W) /\ a # Len(W)
      BY <1>15
    <3>2. hx[a] = h[a] /\ h[a] < m
      BY <1>16, <1>18, <3>1
    <3>3. CASE b = Len(W)
      BY <1>16, <3>2, <3>3
    <3>4. CASE b # Len(W)
      <4>1. hx[b] = h[b] /\ h[a] < h[b]
        BY <1>1, <1>16, <3>4 DEF Marked
      <4> QED BY <3>2, <4>1
    <3> QED BY <3>3, <3>4
  <2>2. \A a \in 1..Len(W) : hx[a] \in (both \ {n}) \cup {m}
    <3> SUFFICES ASSUME NEW a \in 1..Len(W), a # Len(W) PROVE hx[a] \in both \ {n}
      BY <1>16
    <3>1. a < Len(W) /\ hx[a] = h[a]
      BY <1>16
    <3>2. h[a] \in both /\ h[a] < m /\ h[a] \in Nat
      BY <1>1, <1>16, <1>18, <3>1 DEF Marked
    <3> QED BY <1>8, <3>1, <3>2
  <2>3. \A k \in (both \ {n}) \cup {m} : \E a \in 1..Len(W) : hx[a] = k
    <3>1. Len(W) \in 1..Len(W)
      BY <1>15
    <3>2. ASSUME NEW k \in both, k # n PROVE \E a \in 1..Len(W) : hx[a] = k
      <4>1. PICK a \in 1..Len(W) : h[a] = k
        BY <1>1 DEF Marked
      <4>2. a # Len(W)
        BY <1>15, <3>2, <4>1
      <4> QED BY <1>16, <4>1, <4>2
    <3> QED BY <1>16, <3>1, <3>2
  <2> QED BY <1>16, <2>1, <2>2, <2>3 DEF Marked
<1>20. /\ Len(N) \in Nat /\ Len(Nx) = Len(N) + 1 /\ Nx[Len(N) + 1] = x /\ gx[Len(N) + 1] = m
       /\ \A a \in 1..Len(N) : Nx[a] = N[a] /\ gx[a] = g[a] /\ g[a] \in Nat
       /\ \A a \in 1..(Len(N) + 1) : a \in 1..Len(N) \/ a = Len(N) + 1
  BY <1>17 DEF Longer
<1>21. ASSUME NEW t, NEW u, Behind(W, h, t, u), \A b \in 1..Len(t) : u[b] \in Nat /\ u[b] < m
       PROVE  Behind(W, hx, t, u)
  <2> SUFFICES ASSUME NEW a \in 1..Len(W), NEW b \in 1..Len(t), hx[a] <= u[b] PROVE W[a] <= t[b]
    BY DEF Behind
  <2>1. a # Len(W)
    <3> SUFFICES ASSUME a = Len(W) PROVE FALSE
      OBVIOUS
    <3>1. m <= u[b] /\ u[b] \in Nat /\ u[b] < m
      BY <1>16, <1>21
    <3> QED BY <1>8, <3>1
  <2>2. h[a] <= u[b]
    BY <1>16, <2>1
  <2> QED BY <1>21, <2>2 DEF Behind
<1>22. Behind(W, hx, F, f)
  <2>1. \A b \in 1..Len(F) : f[b] \in Nat /\ f[b] < m
    BY <1>9
  <2> QED BY <1>2, <1>21, <2>1
<1>23. Behind(W, hx, Nx, gx)
  <2> SUFFICES ASSUME NEW a \in 1..Len(W), NEW b \in 1..Len(Nx), hx[a] <= gx[b] PROVE W[a] <= Nx[b]
    BY DEF Behind
  <2>1. CASE b = Len(N) + 1
    BY <1>3, <1>20, <2>1
  <2>2. CASE b \in 1..Len(N)
    <3>1. Behind(W, hx, N, g)
      <4>1. \A c \in 1..Len(N) : g[c] \in Nat /\ g[c] < m
        BY <1>10
      <4> QED BY <1>2, <1>21, <4>1
    <3>2. Nx[b] = N[b] /\ gx[b] = g[b]
      BY <1>20, <2>2
    <3> QED BY <2>2, <3>1, <3>2 DEF Behind
  <2> QED BY <1>20, <2>1, <2>2
<1>24. Behind(W, hx, W, hx)
  <2> SUFFICES ASSUME NEW a \in 1..Len(W), NEW b \in 1..Len(W), hx[a] <= hx[b] PROVE W[a] <= W[b]
    BY DEF Behind
  <2>1. h[a] <= h[b]
    <3>1. CASE a = Len(W)
      <4>1. b = Len(W)
        <5> SUFFICES ASSUME b # Len(W) PROVE FALSE
          OBVIOUS
        <5>1. h[b] < m /\ h[b] \in Nat /\ hx[b] = h[b]
          BY <1>16, <1>18
        <5>2. hx[a] = m
          BY <1>16, <3>1
        <5>3. m <= h[b]
          BY <5>1, <5>2
        <5>4. m \in Nat
          BY <1>8
        <5> QED BY ONLY <5>1, <5>3, <5>4
      <4>2. h[a] = n /\ h[b] = n
        BY <1>15, <3>1, <4>1
      <4> QED BY ONLY <4>2, n \in Nat
    <3>2. CASE a # Len(W)
      <4>1. hx[a] = h[a] /\ h[a] \in Nat /\ h[a] < m
        BY <1>16, <1>18, <3>2
      <4>2. CASE b = Len(W)
        <5>1. h[b] = n /\ n \in Nat /\ m \in Nat /\ m < n
          BY <1>8, <1>15, <4>2
        <5> QED BY ONLY <4>1, <5>1
      <4>3. CASE b # Len(W)
        BY <1>16, <4>1, <4>3
      <4> QED BY <4>2, <4>3
    <3> QED BY <3>1, <3>2
  <2> QED BY <1>2, <2>1 DEF Behind
<1>25. Arranged(F, Nx, W, ifs, loops \cup {m}, heads \ {n}, f, gx, hx)
  <2>1. Marked(W, (loops \cup {m}) \cup (heads \ {n}), hx)
    BY <1>7, <1>19
  <2> QED BY <1>1, <1>2, <1>11, <1>12, <1>13, <1>14, <1>22, <1>23, <1>24, <2>1 DEF Arranged
<1> QED BY <1>25 DEF Nx, gx, hx, m

\* The innermost if ends: its JPC, the last in the code, is popped.
LEMMA IfDisarranged ==
  ASSUME NEW F \in Seq(Nat), NEW N \in Seq(Nat), NEW W \in Seq(Nat), NEW ifs, NEW loops, NEW heads,
         NEW f, NEW g, NEW h, Arranged(F, N, W, ifs, loops, heads, f, g, h),
         NEW n \in Nat, n \in ifs, Innermostly(ifs, loops, heads, n)
  PROVE  /\ Arranged(Front(F), N, W, ifs \ {n}, loops, heads, f, g, h)
         /\ F # <<>>
         /\ \A a \in 1..Len(F) : F[a] <= Last(F)
         /\ \A a \in 1..Len(N) : N[a] <= Last(F)
         /\ \A a \in 1..Len(W) : W[a] <= Last(F)
<1>1. /\ Marked(F, ifs, f)
      /\ Marked(N, loops, g)
      /\ Marked(W, loops \cup heads, h)
  BY DEF Arranged
<1>2. /\ Behind(F, f, F, f) /\ Behind(F, f, N, g) /\ Behind(N, g, F, f) /\ Behind(N, g, N, g)
      /\ Behind(W, h, F, f) /\ Behind(W, h, N, g) /\ Behind(W, h, W, h)
  BY DEF Arranged
<1>3. \A j \in ifs : j <= n
  BY DEF Innermostly
<1>4. F # <<>> /\ Len(F) \in Nat /\ Len(F) >= 1 /\ f[Len(F)] = n
  BY <1>1, <1>3, MarkOnTop
<1>5. Marked(Front(F), ifs \ {n}, f)
  BY <1>1, <1>3, MarkPopped
<1>6. Behind(Front(F), f, Front(F), f) /\ Behind(Front(F), f, N, g) /\ Behind(N, g, Front(F), f)
      /\ Behind(W, h, Front(F), f)
  BY <1>2, <1>4, BehindPopped
<1>7. Len(F) \in 1..Len(F) /\ Last(F) = F[Len(F)]
  BY <1>4 DEF Last
<1>8. /\ \A a \in 1..Len(F) : f[a] <= n
      /\ \A a \in 1..Len(N) : g[a] <= n
      /\ \A a \in 1..Len(W) : h[a] <= n
  BY <1>1 DEF Marked, Innermostly
<1>9. /\ \A a \in 1..Len(F) : F[a] <= Last(F)
      /\ \A a \in 1..Len(N) : N[a] <= Last(F)
      /\ \A a \in 1..Len(W) : W[a] <= Last(F)
  BY <1>2, <1>4, <1>7, <1>8 DEF Behind
<1>10. Arranged(Front(F), N, W, ifs \ {n}, loops, heads, f, g, h)
  BY <1>1, <1>2, <1>5, <1>6 DEF Arranged
<1> QED BY <1>4, <1>9, <1>10

\* The innermost loop ends: its JPC, the last in the code, is popped, and so is its
\* beginning, which is not behind the JPC.
LEMMA LoopDisarranged ==
  ASSUME NEW F \in Seq(Nat), NEW N \in Seq(Nat), NEW W \in Seq(Nat), NEW ifs, NEW loops, NEW heads,
         NEW f, NEW g, NEW h, Arranged(F, N, W, ifs, loops, heads, f, g, h),
         NEW n \in Nat, n \in loops, n \notin heads, Innermostly(ifs, loops, heads, n)
  PROVE  /\ Arranged(F, Front(N), Front(W), ifs, loops \ {n}, heads, f, g, h)
         /\ N # <<>> /\ W # <<>>
         /\ \A a \in 1..Len(F) : F[a] <= Last(N)
         /\ \A a \in 1..Len(N) : N[a] <= Last(N)
         /\ \A a \in 1..Len(W) : W[a] <= Last(N) /\ W[a] <= Last(W)
         /\ Last(W) <= Last(N)
<1> DEFINE both == loops \cup heads
<1>1. /\ Marked(F, ifs, f)
      /\ Marked(N, loops, g)
      /\ Marked(W, both, h)
  BY DEF Arranged
<1>2. /\ Behind(F, f, F, f) /\ Behind(F, f, N, g) /\ Behind(N, g, F, f) /\ Behind(N, g, N, g)
      /\ Behind(W, h, F, f) /\ Behind(W, h, N, g) /\ Behind(W, h, W, h)
  BY DEF Arranged
<1>3. \A j \in loops : j <= n
  BY DEF Innermostly
<1>18. n \in both
  OBVIOUS
<1>4. \A j \in both : j <= n
  BY DEF Innermostly
<1>5. both \ {n} = (loops \ {n}) \cup heads
  OBVIOUS
<1>6. \A j \in ifs : j <= n
  BY DEF Innermostly
<1> HIDE DEF both
<1>7. N # <<>> /\ Len(N) \in Nat /\ Len(N) >= 1 /\ g[Len(N)] = n
  BY <1>1, <1>3, MarkOnTop
<1>8. W # <<>> /\ Len(W) \in Nat /\ Len(W) >= 1 /\ h[Len(W)] = n
  <2>1. Marked(W, both, h)
    BY <1>1
  <2> QED BY ONLY <1>4, <1>18, <2>1, W \in Seq(Nat), MarkOnTop
<1>9. Marked(Front(N), loops \ {n}, g)
  BY <1>1, <1>3, MarkPopped
<1>10. Marked(Front(W), both \ {n}, h)
  BY <1>1, <1>4, <1>18, MarkPopped
<1>11. Behind(F, f, Front(N), g) /\ Behind(Front(N), g, F, f) /\ Behind(Front(N), g, Front(N), g)
  BY <1>2, <1>7, BehindPopped
<1>12. Behind(Front(W), h, F, f) /\ Behind(Front(W), h, Front(N), g) /\ Behind(Front(W), h, Front(W), h)
  BY <1>2, <1>7, <1>8, BehindPopped
<1>13. /\ Len(N) \in 1..Len(N) /\ Last(N) = N[Len(N)]
       /\ Len(W) \in 1..Len(W) /\ Last(W) = W[Len(W)]
  BY <1>7, <1>8 DEF Last
<1>14. /\ \A a \in 1..Len(F) : f[a] <= n
       /\ \A a \in 1..Len(N) : g[a] <= n
       /\ \A a \in 1..Len(W) : h[a] <= n
  BY <1>1, <1>3, <1>4, <1>6 DEF Marked
<1>15. n <= n
  OBVIOUS
<1>16. /\ \A a \in 1..Len(F) : F[a] <= Last(N)
       /\ \A a \in 1..Len(N) : N[a] <= Last(N)
       /\ \A a \in 1..Len(W) : W[a] <= Last(N)
       /\ \A a \in 1..Len(W) : W[a] <= Last(W)
       /\ Last(W) <= Last(N)
  BY <1>2, <1>7, <1>8, <1>13, <1>14, <1>15 DEF Behind
<1>17. Arranged(F, Front(N), Front(W), ifs, loops \ {n}, heads, f, g, h)
  BY <1>1, <1>2, <1>5, <1>9, <1>10, <1>11, <1>12 DEF Arranged
<1> QED BY <1>7, <1>8, <1>16, <1>17

----------------------------------------------------------------------------
(***************************************************************************)
(* The inductive invariant: every if and every loop the source is in has   *)
(* its entry on the stacks.                                                *)
(***************************************************************************)

Arrangement(f, g, h) ==
  Arranged(if_not_backfill, while_not_backfill, while_entry_backfill,
           Begun(items, "CONDITION"), Begun(items, "WHILE"), Begun(items, "WHILEHEADER"), f, g, h)

MarksInv == status = "parsing" =>
  /\ \A d \in 1..Len(while_entry_backfill) : while_entry_backfill[d] <= length
  /\ \E f, g, h : Arrangement(f, g, h)

\* The entries are addresses in the code, or that of the next instruction.
LEMMA EntriesWithin ==
  ASSUME IInv, MarksInv, status = "parsing"
  PROVE  /\ if_not_backfill \in Seq(Nat) /\ while_not_backfill \in Seq(Nat)
         /\ while_entry_backfill \in Seq(Nat) /\ length \in Nat
         /\ \A a \in 1..Len(if_not_backfill) : if_not_backfill[a] <= length
         /\ \A a \in 1..Len(while_not_backfill) : while_not_backfill[a] <= length
         /\ \A a \in 1..Len(while_entry_backfill) : while_entry_backfill[a] <= length
<1>1. /\ StacksTyped /\ AllQueued /\ length \in Nat
      /\ if_not_backfill \in Seq(Nat) /\ while_not_backfill \in Seq(Nat)
      /\ while_entry_backfill \in Seq(Nat \ {0})
  BY BeforeReduction
<1>2. ToSet(if_not_backfill) \subseteq 0..(length - 1) /\ ToSet(while_not_backfill) \subseteq 0..(length - 1)
  BY <1>1, QueuedAddresses
<1>3. ASSUME NEW s \in Seq(Nat), ToSet(s) \subseteq 0..(length - 1), NEW a \in 1..Len(s)
      PROVE  s[a] <= length
  <2>1. s[a] \in 0..(length - 1)
    BY <1>3 DEF ToSet
  <2> QED BY <1>1, <2>1
<1>4. while_entry_backfill \in Seq(Nat)
  BY <1>1
<1> QED BY <1>1, <1>2, <1>3, <1>4 DEF MarksInv

\* What the source is in stays the same.
SamePlaces ==
  /\ Begun(items', "CONDITION") = Begun(items, "CONDITION")
  /\ Begun(items', "WHILE") = Begun(items, "WHILE")
  /\ Begun(items', "WHILEHEADER") = Begun(items, "WHILEHEADER")
SameEntries == UNCHANGED <<if_not_backfill, while_not_backfill, while_entry_backfill>>
Headers == {"CONDHEADER", "CONDITION", "WHILEFLAG", "WHILEHEADER", "WHILE"}

\* A rule that is neither if nor loop nor their header is reduced.
LEMMA OtherReductions ==
  ASSUME OnTrack(items), Complete, Reading, r \notin Headers,
         NEW value \in ValuesOf(lhs(r)), Return(value)
  PROVE  SamePlaces
<1>1. r # "PL0" /\ items' = Recognized(Front(items), value)
  BY DEF Reading, Return
<1>2. ASSUME NEW p, NEW h, Headed(p, h), r # h, r # p PROVE Begun(items', p) = Begun(items, p)
  BY <1>1, <1>2, BegunAfterReduction
<1> QED BY <1>2, HeadedRules DEF SamePlaces, Headers

ControlStep == IfHeader \/ IfEnd \/ WhileEntry \/ WhileHeader \/ WhileEnd

\* Only the actions of ifs and loops move what is underway of them, and their stacks.
LEMMA OtherSteps ==
  ASSUME IInv, [Next]_vars, status = "parsing", status' = "parsing", ~ControlStep
  PROVE  SamePlaces /\ SameEntries
<1>1. OnTrack(items)
  BY BeforeReduction
<1>2. CASE UNCHANGED vars
  BY <1>2 DEF vars, stacks, whileStacks, SamePlaces, SameEntries
<1>3. ASSUME NEW p \in Productions, Expand(p) PROVE SamePlaces /\ SameEntries
  <2>1. p \in DOMAIN Rules /\ ~Complete /\ Upcoming = lhs(p) /\ items' = Append(items, Item(p, <<>>))
        /\ UNCHANGED stacks
    BY <1>3, AssemblerAssumption DEF Expand, lhs
  <2>2. \A q : Begun(items', q) = Begun(items, q)
    BY <1>1, <2>1, Expanded
  <2> QED BY <2>1, <2>2 DEF stacks, whileStacks, SamePlaces, SameEntries
<1>4. CASE Shift
  <2>1. ~Complete /\ Upcoming \in Terminals /\ UNCHANGED stacks
        /\ \E token \in Tokens(Upcoming) : items' = Recognized(items, token)
    BY <1>4 DEF Shift
  <2>2. PICK token \in Tokens(Upcoming) : items' = Recognized(items, token)
    BY <2>1
  <2>3. ASSUME NEW p, NEW h, Headed(p, h) PROVE Begun(items', p) = Begun(items, p)
    BY <1>1, <2>1, <2>2, <2>3, BegunAfterShift
  <2> QED BY <2>1, <2>3, HeadedRules DEF stacks, whileStacks, SamePlaces, SameEntries
<1>5. CASE LexicalError
  BY <1>5 DEF LexicalError, whileStacks, SamePlaces, SameEntries
<1>6. CASE ProcedureHeader \/ ProcedureEnd
  <2>1. r \in {"PROC", "PROCH"} /\ Complete /\ Reading /\ Return(nullptr) /\ SameEntries
    BY <1>6 DEF ProcedureHeader, ProcedureEnd, Reducing, SameEntries, whileStacks
  <2>2. r \in DOMAIN Rules /\ r \notin DOMAIN oprOf /\ r \notin Headers
    BY <1>1, <2>1, ValuesComplete DEF oprOf, Headers
  <2>3. nullptr \in ValuesOf(lhs(r))
    BY <2>2, NothingReturned
  <2> QED BY <1>1, <2>1, <2>2, <2>3, OtherReductions
<1>7. CASE /\ Steady /\ ~Shift /\ ~(\E p \in Productions : Expand(p))
  <2>1. /\ Complete /\ Reading /\ \E value \in ValuesOf(lhs(r)) : Return(value)
    BY <1>7, SteadyReduction
  <2>2. Default \/ Declare \/ ReadOperator \/ ApplyOperator \/ Assertion \/ EmitSimple \/ Assign
    BY <1>7 DEF Steady, Quiet, Operating, ControlStep
  <2>3. r \notin Headers
    BY <2>2 DEF Default, Declare, ReadOperator, ApplyOperator, Assertion, EmitSimple, Assign, Reducing,
       Attached, oprOf, Simple, Headers
  <2>4. SameEntries
    BY <2>2 DEF Default, Declare, ReadOperator, ApplyOperator, Assertion, EmitSimple, Assign,
       stacks, whileStacks, SameEntries
  <2> QED BY <1>1, <2>1, <2>3, <2>4, OtherReductions
<1>8. Next => Steady \/ ProcedureHeader \/ ProcedureEnd \/ Succeed \/ SyntaxErrorFound
              \/ LexicalError \/ UNCHANGED vars
  BY DEF Next, Steady, Quiet, Operating, Done
<1>9. ~Succeed /\ ~SyntaxErrorFound
  BY DEF Succeed, SyntaxErrorFound
<1> QED BY <1>2, <1>3, <1>4, <1>5, <1>6, <1>7, <1>8, <1>9

\* A control structure's rule is reduced.
LEMMA ControlReduction ==
  ASSUME IInv, ControlStep, status' = "parsing"
  PROVE  /\ status = "parsing" /\ OnTrack(items) /\ Complete /\ r \in Headers /\ r # "PL0"
         /\ nullptr \in ValuesOf(lhs(r)) /\ items' = Recognized(Front(items), nullptr)
<1>1. r \in Headers /\ Complete /\ Reading /\ EndWithoutReturn
  BY DEF ControlStep, IfHeader, IfEnd, WhileEntry, WhileHeader, WhileEnd, Reducing, Headers
<1>2. status = "parsing" /\ OnTrack(items) /\ r # "PL0"
  BY <1>1, BeforeReduction DEF Reading
<1>3. items' = Recognized(Front(items), nullptr)
  BY <1>1 DEF EndWithoutReturn, Return
<1>4. r \in DOMAIN Rules /\ r \notin DOMAIN oprOf
  BY <1>1, <1>2, ValuesComplete DEF oprOf, Headers
<1> QED BY <1>1, <1>2, <1>3, <1>4, NothingReturned

\* Where the items are: the places before and after it.
LEMMA ControlPlaces ==
  ASSUME IInv, ControlStep, status' = "parsing"
  PROVE  LET n == Len(items)
             ifs == Begun(items, "CONDITION")
             loops == Begun(items, "WHILE")
             heads == Begun(items, "WHILEHEADER")
             ifs1 == Begun(items', "CONDITION")
             loops1 == Begun(items', "WHILE")
             heads1 == Begun(items', "WHILEHEADER")
         IN  /\ n \in Nat /\ n - 1 \in Nat
             /\ \A j \in ifs \cup loops \cup heads : j \in Nat /\ j <= n
             /\ r = "CONDHEADER" =>
                  /\ \A j \in ifs \cup loops \cup heads : j < n - 1
                  /\ ifs1 = ifs \cup {n - 1} /\ loops1 = loops /\ heads1 = heads
             /\ r = "WHILEFLAG" =>
                  /\ \A j \in ifs \cup loops \cup heads : j < n - 1
                  /\ ifs1 = ifs /\ loops1 = loops /\ heads1 = heads \cup {n - 1}
             /\ r = "CONDITION" =>
                  n \in ifs /\ ifs1 = ifs \ {n} /\ loops1 = loops /\ heads1 = heads
             /\ r = "WHILEHEADER" =>
                  /\ n \in heads
                  /\ \A j \in ifs \cup loops : j < n - 1
                  /\ \A j \in heads : j = n \/ j < n - 1
                  /\ ifs1 = ifs /\ loops1 = loops \cup {n - 1} /\ heads1 = heads \ {n}
             /\ r = "WHILE" =>
                  n \in loops /\ n \notin heads /\ ifs1 = ifs /\ loops1 = loops \ {n} /\ heads1 = heads
<1> DEFINE n == Len(items)
           ifs == Begun(items, "CONDITION")
           loops == Begun(items, "WHILE")
           heads == Begun(items, "WHILEHEADER")
           ifs1 == Begun(items', "CONDITION")
           loops1 == Begun(items', "WHILE")
           heads1 == Begun(items', "WHILEHEADER")
           b == items[n - 1].rule
<1>1. /\ OnTrack(items) /\ Complete /\ r \in Headers /\ r # "PL0"
      /\ nullptr \in ValuesOf(lhs(r)) /\ items' = Recognized(Front(items), nullptr)
  BY ControlReduction
<1>2. ASSUME NEW p, NEW h, Headed(p, h)
      PROVE  /\ n \in Nat /\ n >= 2
             /\ Begun(items, p) \subseteq 1..n
             /\ r = h => /\ Begun(items', p) = Begun(items, p) \cup {n - 1}
                         /\ Begun(items, p) \subseteq 1..(n - 2) /\ b = p
             /\ r = p => Begun(items', p) = Begun(items, p) \ {n} /\ n \in Begun(items, p)
             /\ r # p => n \notin Begun(items, p)
             /\ r # h /\ r # p => Begun(items', p) = Begun(items, p)
             /\ b # p => n - 1 \notin Begun(items, p)
  BY <1>1, <1>2, BegunAfterReduction
<1>3. /\ n \in Nat /\ n >= 2 /\ ifs \subseteq 1..n
      /\ r = "CONDHEADER" => ifs1 = ifs \cup {n - 1} /\ ifs \subseteq 1..(n - 2) /\ b = "CONDITION"
      /\ r = "CONDITION" => ifs1 = ifs \ {n} /\ n \in ifs
      /\ r # "CONDITION" => n \notin ifs
      /\ r # "CONDHEADER" /\ r # "CONDITION" => ifs1 = ifs
      /\ b # "CONDITION" => n - 1 \notin ifs
  BY <1>2, HeadedRules
<1>4. /\ loops \subseteq 1..n
      /\ r = "WHILEHEADER" => loops1 = loops \cup {n - 1} /\ loops \subseteq 1..(n - 2) /\ b = "WHILE"
      /\ r = "WHILE" => loops1 = loops \ {n} /\ n \in loops
      /\ r # "WHILE" => n \notin loops
      /\ r # "WHILEHEADER" /\ r # "WHILE" => loops1 = loops
      /\ b # "WHILE" => n - 1 \notin loops
  BY <1>2, HeadedRules
<1>5. /\ heads \subseteq 1..n
      /\ r = "WHILEFLAG" => heads1 = heads \cup {n - 1} /\ heads \subseteq 1..(n - 2) /\ b = "WHILEHEADER"
      /\ r = "WHILEHEADER" => heads1 = heads \ {n} /\ n \in heads
      /\ r # "WHILEHEADER" => n \notin heads
      /\ r # "WHILEFLAG" /\ r # "WHILEHEADER" => heads1 = heads
      /\ b # "WHILEHEADER" => n - 1 \notin heads
  BY <1>2, HeadedRules
<1> HIDE DEF n, ifs, loops, heads, ifs1, loops1, heads1, b
<1>6. n - 1 \in Nat /\ \A j \in 1..n : /\ j \in Nat /\ j <= n
                                       /\ j # n /\ j # n - 1 => j < n - 1
  BY <1>3
<1>7. \A j \in ifs \cup loops \cup heads : j \in 1..n
  BY <1>3, <1>4, <1>5
<1>8. CASE r = "CONDHEADER"
  BY <1>3, <1>4, <1>5, <1>6, <1>7, <1>8 DEF n, ifs, loops, heads, ifs1, loops1, heads1
<1>9. CASE r = "WHILEFLAG"
  BY <1>3, <1>4, <1>5, <1>6, <1>7, <1>9 DEF n, ifs, loops, heads, ifs1, loops1, heads1
<1>10. CASE r = "CONDITION"
  BY <1>3, <1>4, <1>5, <1>6, <1>7, <1>10 DEF n, ifs, loops, heads, ifs1, loops1, heads1
<1>11. CASE r = "WHILEHEADER"
  BY <1>3, <1>4, <1>5, <1>6, <1>7, <1>11 DEF n, ifs, loops, heads, ifs1, loops1, heads1
<1>12. CASE r = "WHILE"
  BY <1>3, <1>4, <1>5, <1>6, <1>7, <1>12 DEF n, ifs, loops, heads, ifs1, loops1, heads1
<1> QED BY <1>1, <1>8, <1>9, <1>10, <1>11, <1>12 DEF Headers

\* The code never gets shorter.
LEMMA CodeGrows ==
  ASSUME IInv, MainAtBottom, status = "parsing", [Next]_vars
  PROVE  length' >= length
BY OperandsKept DEF Kept, length

\* An if's JPC is pushed (Assembler.cpp:156).
LEMMA IfHeaderMarks ==
  ASSUME IInv, MarksInv, status' = "parsing", IfHeader, length' >= length, length' \in Nat
  PROVE  MarksInv'
<1> DEFINE F == if_not_backfill
           N == while_not_backfill
           W == while_entry_backfill
           k == Len(items) - 1
<1>1. status = "parsing" /\ r = "CONDHEADER"
  BY ControlReduction DEF ControlStep, IfHeader, Reducing
<1>2. /\ F \in Seq(Nat) /\ N \in Seq(Nat) /\ W \in Seq(Nat) /\ length \in Nat
      /\ \A a \in 1..Len(F) : F[a] <= length
      /\ \A a \in 1..Len(N) : N[a] <= length
      /\ \A a \in 1..Len(W) : W[a] <= length
  BY <1>1, EntriesWithin
<1>3. PICK f, g, h : Arrangement(f, g, h)
  BY <1>1 DEF MarksInv
<1>4. /\ k \in Nat
      /\ \A j \in Begun(items, "CONDITION") \cup Begun(items, "WHILE") \cup Begun(items, "WHILEHEADER") : j < k
      /\ Begun(items', "CONDITION") = Begun(items, "CONDITION") \cup {k}
      /\ Begun(items', "WHILE") = Begun(items, "WHILE")
      /\ Begun(items', "WHILEHEADER") = Begun(items, "WHILEHEADER")
  BY <1>1, ControlPlaces DEF ControlStep
<1>5. F' = Append(F, length) /\ N' = N /\ W' = W
  BY DEF IfHeader, whileStacks
<1> HIDE DEF k
<1>6. Within(F, N, W, Begun(items, "CONDITION"), Begun(items, "WHILE"), Begun(items, "WHILEHEADER"), length, k)
  BY <1>2, <1>4 DEF Within
<1>7. Arranged(Append(F, length), N, W, Begun(items, "CONDITION") \cup {k}, Begun(items, "WHILE"),
               Begun(items, "WHILEHEADER"), [f EXCEPT ![Len(F) + 1] = k], g, h)
  BY <1>2, <1>3, <1>4, <1>6, IfArranged DEF Arrangement
<1>8. \E f1, g1, h1 : Arrangement(f1, g1, h1)'
  BY <1>4, <1>5, <1>7 DEF Arrangement
<1>9. \A d \in 1..Len(W) : W[d] <= length'
  BY <1>2
<1> QED BY <1>5, <1>8, <1>9 DEF MarksInv

\* A loop begins: the place to come back to is pushed (Assembler.cpp:168).
LEMMA WhileEntryMarks ==
  ASSUME IInv, MarksInv, status' = "parsing", WhileEntry
  PROVE  MarksInv'
<1> DEFINE F == if_not_backfill
           N == while_not_backfill
           W == while_entry_backfill
           k == Len(items) - 1
<1>1. status = "parsing" /\ r = "WHILEFLAG"
  BY ControlReduction DEF ControlStep, WhileEntry, Reducing
<1>2. /\ F \in Seq(Nat) /\ N \in Seq(Nat) /\ W \in Seq(Nat) /\ length \in Nat
      /\ \A a \in 1..Len(F) : F[a] <= length
      /\ \A a \in 1..Len(N) : N[a] <= length
      /\ \A a \in 1..Len(W) : W[a] <= length
  BY <1>1, EntriesWithin
<1>3. PICK f, g, h : Arrangement(f, g, h)
  BY <1>1 DEF MarksInv
<1>4. /\ k \in Nat
      /\ \A j \in Begun(items, "CONDITION") \cup Begun(items, "WHILE") \cup Begun(items, "WHILEHEADER") : j < k
      /\ Begun(items', "CONDITION") = Begun(items, "CONDITION")
      /\ Begun(items', "WHILE") = Begun(items, "WHILE")
      /\ Begun(items', "WHILEHEADER") = Begun(items, "WHILEHEADER") \cup {k}
  BY <1>1, ControlPlaces DEF ControlStep
<1>5. F' = F /\ N' = N /\ W' = Append(W, length) /\ length' = length
  BY DEF WhileEntry, length
<1> HIDE DEF k
<1>6. Within(F, N, W, Begun(items, "CONDITION"), Begun(items, "WHILE"), Begun(items, "WHILEHEADER"), length, k)
  BY <1>2, <1>4 DEF Within
<1>7. Arranged(F, N, Append(W, length), Begun(items, "CONDITION"), Begun(items, "WHILE"),
               Begun(items, "WHILEHEADER") \cup {k}, f, g, [h EXCEPT ![Len(W) + 1] = k])
  BY <1>2, <1>3, <1>4, <1>6, EntryArranged DEF Arrangement
<1>8. \E f1, g1, h1 : Arrangement(f1, g1, h1)'
  BY <1>4, <1>5, <1>7 DEF Arrangement
<1>9. \A d \in 1..Len(Append(W, length)) : Append(W, length)[d] <= length
  <2> SUFFICES ASSUME NEW d \in 1..Len(Append(W, length)) PROVE Append(W, length)[d] <= length
    OBVIOUS
  <2>1. d \in 1..Len(W) \/ d = Len(W) + 1
    BY <1>2
  <2> QED BY <1>2, <2>1
<1> QED BY <1>5, <1>8, <1>9 DEF MarksInv

\* A loop's JPC is pushed, and its item is that of the loop from now on (Assembler.cpp:173).
LEMMA WhileHeaderMarks ==
  ASSUME IInv, MarksInv, status' = "parsing", WhileHeader, length' >= length, length' \in Nat
  PROVE  MarksInv'
<1> DEFINE F == if_not_backfill
           N == while_not_backfill
           W == while_entry_backfill
           n == Len(items)
           ifs == Begun(items, "CONDITION")
           loops == Begun(items, "WHILE")
           heads == Begun(items, "WHILEHEADER")
<1>1. status = "parsing" /\ r = "WHILEHEADER"
  BY ControlReduction DEF ControlStep, WhileHeader, Reducing
<1>2. /\ F \in Seq(Nat) /\ N \in Seq(Nat) /\ W \in Seq(Nat) /\ length \in Nat
      /\ \A a \in 1..Len(F) : F[a] <= length
      /\ \A a \in 1..Len(N) : N[a] <= length
      /\ \A a \in 1..Len(W) : W[a] <= length
  BY <1>1, EntriesWithin
<1>3. PICK f, g, h : Arrangement(f, g, h)
  BY <1>1 DEF MarksInv
<1>4. /\ n \in Nat /\ n - 1 \in Nat /\ n \in heads
      /\ Begun(items', "CONDITION") = ifs
      /\ Begun(items', "WHILE") = loops \cup {n - 1}
      /\ Begun(items', "WHILEHEADER") = heads \ {n}
  BY <1>1, ControlPlaces DEF ControlStep
<1>5. \A j \in ifs \cup loops : j < n - 1
  BY <1>1, ControlPlaces DEF ControlStep
<1>6. \A j \in heads : j = n \/ j < n - 1
  BY <1>1, ControlPlaces DEF ControlStep
<1>7. F' = F /\ N' = Append(N, length) /\ W' = W
  BY DEF WhileHeader
<1>8. Arranged(F, N, W, ifs, loops, heads, f, g, h)
  BY <1>3 DEF Arrangement
<1> HIDE DEF n, ifs, loops, heads
<1>9. Within(F, N, W, {}, {}, {}, length, n)
  BY <1>2 DEF Within
<1>10. Arranged(F, Append(N, length), W, ifs, loops \cup {n - 1}, heads \ {n}, f,
                [g EXCEPT ![Len(N) + 1] = n - 1], [h EXCEPT ![Len(W)] = n - 1])
  BY <1>2, <1>4, <1>5, <1>6, <1>8, <1>9, LoopArranged
<1>11. \E f1, g1, h1 : Arrangement(f1, g1, h1)'
  <2>1. PICK g1, h1 : Arranged(F, Append(N, length), W, ifs, loops \cup {n - 1}, heads \ {n}, f, g1, h1)
    BY <1>10
  <2>2. Arrangement(f, g1, h1)'
    BY <1>4, <1>7, <2>1 DEF Arrangement
  <2> QED BY <2>2
<1>12. \A d \in 1..Len(W) : W[d] <= length'
  BY <1>2
<1> QED BY <1>7, <1>11, <1>12 DEF MarksInv

\* The if that ends is the innermost, and its JPC is behind all the others'.
LEMMA IfEndMarks ==
  ASSUME IInv, MarksInv, status' = "parsing", IfEnd, length' >= length, length' \in Nat
  PROVE  /\ MarksInv'
         /\ if_not_backfill # <<>>
         /\ \A a \in 1..Len(if_not_backfill) : if_not_backfill[a] <= Last(if_not_backfill)
         /\ \A a \in 1..Len(while_not_backfill) : while_not_backfill[a] <= Last(if_not_backfill)
         /\ \A a \in 1..Len(while_entry_backfill) : while_entry_backfill[a] <= Last(if_not_backfill)
<1> DEFINE F == if_not_backfill
           N == while_not_backfill
           W == while_entry_backfill
           n == Len(items)
           ifs == Begun(items, "CONDITION")
           loops == Begun(items, "WHILE")
           heads == Begun(items, "WHILEHEADER")
<1>1. status = "parsing" /\ r = "CONDITION"
  BY ControlReduction DEF ControlStep, IfEnd, Reducing
<1>2. /\ F \in Seq(Nat) /\ N \in Seq(Nat) /\ W \in Seq(Nat) /\ length \in Nat
      /\ \A a \in 1..Len(W) : W[a] <= length
  BY <1>1, EntriesWithin
<1>3. PICK f, g, h : Arrangement(f, g, h)
  BY <1>1 DEF MarksInv
<1>4. /\ n \in Nat /\ n \in ifs
      /\ Begun(items', "CONDITION") = ifs \ {n}
      /\ Begun(items', "WHILE") = loops
      /\ Begun(items', "WHILEHEADER") = heads
  BY <1>1, ControlPlaces DEF ControlStep
<1>5. Innermostly(ifs, loops, heads, n)
  BY <1>1, ControlPlaces DEF ControlStep, Innermostly
<1>6. F' = Front(F) /\ N' = N /\ W' = W
  BY DEF IfEnd, whileStacks
<1>7. Arranged(F, N, W, ifs, loops, heads, f, g, h)
  BY <1>3 DEF Arrangement
<1> HIDE DEF n, ifs, loops, heads
<1>8. /\ Arranged(Front(F), N, W, ifs \ {n}, loops, heads, f, g, h)
      /\ F # <<>>
      /\ \A a \in 1..Len(F) : F[a] <= Last(F)
      /\ \A a \in 1..Len(N) : N[a] <= Last(F)
      /\ \A a \in 1..Len(W) : W[a] <= Last(F)
  <2>1. n \in Nat /\ n \in ifs /\ F \in Seq(Nat) /\ N \in Seq(Nat) /\ W \in Seq(Nat)
    BY <1>2, <1>4
  <2> QED BY ONLY <1>5, <1>7, <2>1, IfDisarranged
<1>9. \E f1, g1, h1 : Arrangement(f1, g1, h1)'
  BY <1>4, <1>6, <1>8 DEF Arrangement
<1>10. \A d \in 1..Len(W) : W[d] <= length'
  BY <1>2
<1> QED BY <1>6, <1>8, <1>9, <1>10 DEF MarksInv

\* So is the loop that ends, and it does not begin behind its JPC.
LEMMA WhileEndMarks ==
  ASSUME IInv, MarksInv, status' = "parsing", WhileEnd, length' >= length, length' \in Nat
  PROVE  /\ MarksInv'
         /\ while_not_backfill # <<>> /\ while_entry_backfill # <<>>
         /\ \A a \in 1..Len(if_not_backfill) : if_not_backfill[a] <= Last(while_not_backfill)
         /\ \A a \in 1..Len(while_not_backfill) : while_not_backfill[a] <= Last(while_not_backfill)
         /\ \A a \in 1..Len(while_entry_backfill) : /\ while_entry_backfill[a] <= Last(while_not_backfill)
                                                    /\ while_entry_backfill[a] <= Last(while_entry_backfill)
         /\ Last(while_entry_backfill) <= Last(while_not_backfill)
<1> DEFINE F == if_not_backfill
           N == while_not_backfill
           W == while_entry_backfill
           n == Len(items)
           ifs == Begun(items, "CONDITION")
           loops == Begun(items, "WHILE")
           heads == Begun(items, "WHILEHEADER")
<1>1. status = "parsing" /\ r = "WHILE"
  BY ControlReduction DEF ControlStep, WhileEnd, Reducing
<1>2. /\ F \in Seq(Nat) /\ N \in Seq(Nat) /\ W \in Seq(Nat) /\ length \in Nat
      /\ \A a \in 1..Len(W) : W[a] <= length
  BY <1>1, EntriesWithin
<1>3. PICK f, g, h : Arrangement(f, g, h)
  BY <1>1 DEF MarksInv
<1>4. /\ n \in Nat /\ n \in loops /\ n \notin heads
      /\ Begun(items', "CONDITION") = ifs
      /\ Begun(items', "WHILE") = loops \ {n}
      /\ Begun(items', "WHILEHEADER") = heads
  BY <1>1, ControlPlaces DEF ControlStep
<1>5. Innermostly(ifs, loops, heads, n)
  BY <1>1, ControlPlaces DEF ControlStep, Innermostly
<1>6. F' = F /\ N' = Front(N) /\ W' = Front(W)
  BY DEF WhileEnd
<1>7. Arranged(F, N, W, ifs, loops, heads, f, g, h)
  BY <1>3 DEF Arrangement
<1> HIDE DEF n, ifs, loops, heads
<1>8. /\ Arranged(F, Front(N), Front(W), ifs, loops \ {n}, heads, f, g, h)
      /\ N # <<>> /\ W # <<>>
      /\ \A a \in 1..Len(F) : F[a] <= Last(N)
      /\ \A a \in 1..Len(N) : N[a] <= Last(N)
      /\ \A a \in 1..Len(W) : W[a] <= Last(N) /\ W[a] <= Last(W)
      /\ Last(W) <= Last(N)
  <2>1. /\ n \in Nat /\ n \in loops /\ n \notin heads
        /\ F \in Seq(Nat) /\ N \in Seq(Nat) /\ W \in Seq(Nat)
    BY <1>2, <1>4
  <2> QED BY ONLY <1>5, <1>7, <2>1, LoopDisarranged
<1>9. \E f1, g1, h1 : Arrangement(f1, g1, h1)'
  BY <1>4, <1>6, <1>8 DEF Arrangement
<1>10. \A d \in 1..Len(Front(W)) : Front(W)[d] <= length'
  <2>1. Len(Front(W)) = Len(W) - 1 /\ \A d \in 1..(Len(W) - 1) : Front(W)[d] = W[d]
    BY <1>2, <1>8, Popped
  <2>2. ASSUME NEW d \in 1..(Len(W) - 1) PROVE W[d] <= length'
    <3>1. d \in 1..Len(W) /\ W[d] \in Nat
      BY <1>2
    <3>2. W[d] <= length
      BY <1>2, <3>1
    <3> QED BY <1>2, <3>1, <3>2
  <2> QED BY <2>1, <2>2
<1> QED BY <1>6, <1>8, <1>9, <1>10 DEF MarksInv

\* Before anything is read the source is in no if and in no loop.
LEMMA InitMarks == Init => MarksInv
<1> SUFFICES ASSUME Init PROVE \E f, g, h : Arrangement(f, g, h)
  BY DEF Init, MarksInv
<1> DEFINE none == [k \in Nat |-> 0]
<1>1. /\ if_not_backfill = <<>> /\ while_not_backfill = <<>> /\ while_entry_backfill = <<>>
      /\ Len(items) = 1 /\ items[1].rule = "PL0"
  BY DEF Init, Item
<1>2. \A p : p # "PL0" => Begun(items, p) = {}
  BY <1>1 DEF Begun
<1>3. none \in [Nat -> Nat] /\ \A a \in 1..Len(<<>>) : FALSE
  OBVIOUS
<1> HIDE DEF none
<1>4. Marked(<<>>, {}, none) /\ Behind(<<>>, none, <<>>, none)
  BY <1>3 DEF Marked, Behind
<1>5. Arranged(<<>>, <<>>, <<>>, {}, {}, {}, none, none, none)
  BY <1>4 DEF Arranged
<1>6. Arrangement(none, none, none)
  BY <1>1, <1>2, <1>5 DEF Arrangement
<1> QED BY <1>6

\* Every action preserves it.
LEMMA NextMarks ==
  ASSUME IInv, IInv', MainAtBottom, MarksInv, [Next]_vars
  PROVE  MarksInv'
<1> SUFFICES ASSUME status = "parsing", status' = "parsing" PROVE MarksInv'
  <2>1. status # "parsing" => UNCHANGED vars
    BY NothingAfterwards
  <2>2. UNCHANGED vars => status' = status
    BY DEF vars, automaton
  <2> QED BY <2>1, <2>2 DEF MarksInv
<1>1. length' >= length
  BY CodeGrows
<1>2. length' \in Nat
  <2>1. code' \in Seq(Instructions)
    BY DEF IInv, StacksTyped
  <2> QED BY <2>1 DEF length
<1>3. CASE ControlStep
  BY <1>1, <1>2, <1>3, IfHeaderMarks, WhileEntryMarks, WhileHeaderMarks, IfEndMarks, WhileEndMarks
     DEF ControlStep
<1>4. CASE ~ControlStep
  <2>1. SamePlaces /\ SameEntries
    BY <1>4, OtherSteps
  <2>2. PICK f, g, h : Arrangement(f, g, h)
    BY DEF MarksInv
  <2>3. Arrangement(f, g, h)'
    BY <2>1, <2>2 DEF Arrangement, SamePlaces, SameEntries
  <2>4. \A d \in 1..Len(while_entry_backfill) : while_entry_backfill[d] <= length'
    <3>1. while_entry_backfill \in Seq(Nat) /\ length \in Nat
          /\ \A a \in 1..Len(while_entry_backfill) : while_entry_backfill[a] <= length
      BY EntriesWithin
    <3> QED BY <1>1, <1>2, <3>1
  <2> QED BY <2>1, <2>3, <2>4 DEF MarksInv, SameEntries
<1> QED BY <1>3, <1>4

\* So it holds always.
LEMMA MarksInvariance == Spec => []MarksInv
BY InitMarks, NextMarks, MainStaysAtBottom, Invariance, PTL DEF Spec

----------------------------------------------------------------------------
(***************************************************************************)
(* The jumps that are emitted.                                             *)
(***************************************************************************)

JumpTypes == {"JMP", "JPC"}
JumpFree(e) == \A k \in 1..Len(e) : e[k].type \notin JumpTypes

\* Two stretches of code one behind the other.
LEMMA JumpFreeJoined ==
  ASSUME NEW c \in Seq(Instructions), NEW d \in Seq(Instructions), JumpFree(c), JumpFree(d)
  PROVE  JumpFree(c \o d)
<1>1. /\ Len(c) \in Nat /\ Len(d) \in Nat /\ Len(c \o d) = Len(c) + Len(d)
      /\ \A k \in 1..Len(c) : (c \o d)[k] = c[k]
      /\ \A k \in 1..Len(d) : (c \o d)[Len(c) + k] = d[k]
  OBVIOUS
<1>2. \A k \in 1..Len(c \o d) :
        k \in 1..Len(c) \/ (k - Len(c) \in 1..Len(d) /\ k = Len(c) + (k - Len(c)))
  BY <1>1
<1> QED BY <1>1, <1>2 DEF JumpFree

\* Loads, stores, calls, operations and literals are no jumps (Assembler.h:104-176).
LEMMA NamesJumpFree ==
  ASSUME Table!IInv, NEW name
  PROVE  /\ JumpFree(load_id(name)) /\ JumpFree(store_id(name)) /\ JumpFree(call_proc(name))
         /\ JumpFree(read_id(name)) /\ JumpFree(write_id(name))
         /\ \A id : JumpFree(insert_opr(id)) /\ \A x : JumpFree(load_number(x))
<1>1. \A i : i.type \notin JumpTypes => JumpFree(<<i>>)
  BY DEF JumpFree
<1>2. JumpFree(<<>>) /\ {"LIT", "LOD", "STO", "CAL", "OPR"} \cap JumpTypes = {}
  BY DEF JumpFree, JumpTypes
<1>3. \A type, l, a : inst_t(type, l, a).type = type
  BY DEF inst_t
<1>4. /\ \A id : JumpFree(insert_opr(id))
      /\ \A x : JumpFree(load_number(x))
  BY <1>1, <1>2, <1>3 DEF insert_opr, load_number
<1>5. \A type : Access(type, name).type = type
  BY <1>3 DEF Access
<1>6. JumpFree(store_id(name)) /\ JumpFree(load_id(name)) /\ JumpFree(call_proc(name))
  BY <1>1, <1>2, <1>4, <1>5 DEF store_id, load_id, call_proc
<1>7. Solid(insert_opr(OPR_RD)) /\ Solid(insert_opr(OPR_WR)) /\ Solid(store_id(name)) /\ Solid(load_id(name))
  BY Operations, NamesLoaded DEF OPR_RD, OPR_WR
<1>8. JumpFree(read_id(name)) /\ JumpFree(write_id(name))
  BY <1>2, <1>4, <1>6, <1>7, JumpFreeJoined DEF read_id, write_id, Solid
<1> QED BY <1>4, <1>6, <1>8

\* What the simple statements and factors emit.
LEMMA EmittedJumpFree ==
  ASSUME OnTrack(items), Table!IInv, Complete, r \in Simple
  PROVE  JumpFree(Emitted)
<1>1. \A x : JumpFree(load_number(x)) /\ \A id : JumpFree(insert_opr(id))
  BY NamesJumpFree
<1>2. ASSUME NEW value PROVE JumpFree(Written(value)) /\ Solid(Written(value))
  BY <1>1, NamesJumpFree, NamesLoaded, Operations DEF Written, OPR_WR
<1>3. CASE r \in {"READ", "OPTRDID"}
  BY <1>3, NamesJumpFree DEF Emitted
<1>4. CASE r = "WRITE"
  <2> DEFINE c == Written(v[4])
             d == insert_opr(OPR_NL)
  <2>1. Solid(d)
    BY Operations DEF OPR_NL
  <2>2. Solid(c) /\ JumpFree(c) /\ JumpFree(d)
    BY <1>1, <1>2
  <2> HIDE DEF c, d
  <2>3. JumpFree(c \o d)
    BY <2>1, <2>2, JumpFreeJoined DEF Solid
  <2> QED BY <1>4, <2>3 DEF Emitted, c, d
<1>5. CASE r = "OPTWRID"
  BY <1>2, <1>5 DEF Emitted
<1>6. CASE r = "IDFACTOR"
  BY <1>6, NamesJumpFree DEF Emitted
<1>7. CASE r = "NUMFACTOR"
  BY <1>1, <1>7 DEF Emitted
<1>8. CASE r = "CALL"
  BY <1>8, NamesJumpFree DEF Emitted
<1> QED BY <1>3, <1>4, <1>5, <1>6, <1>7, <1>8 DEF Simple

\* What the actions emit that belong to no control structure and to no procedure.
LEMMA StraightCode ==
  ASSUME IInv, Steady, ~ControlStep
  PROVE  \E e \in Seq(Instructions) :
           /\ JumpFree(e) /\ code' = code \o e
           /\ (insert(e) /\ r \notin Declarations) \/ UNCHANGED <<code, owner>>
<1>1. status = "parsing"
  BY SteadyStatus
<1>2. OnTrack(items) /\ Table!IInv /\ code \in Seq(Instructions)
  BY <1>1, BeforeReduction
<1>3. \A x : JumpFree(load_number(x)) /\ \A id : JumpFree(insert_opr(id))
  BY <1>2, NamesJumpFree
<1>4. <<>> \in Seq(Instructions) /\ JumpFree(<<>>) /\ code \o <<>> = code
  BY <1>2 DEF JumpFree
<1>5. CASE UNCHANGED <<code, owner>>
  BY <1>4, <1>5
<1>6. CASE ReadOperator
  <2>1. Solid(Minuend) /\ JumpFree(Minuend)
    BY <1>3, <1>4, NoCode, Literals DEF Minuend
  <2>2. r \notin Declarations
    BY <1>6 DEF ReadOperator, Reducing, oprOf, Declarations
  <2> QED BY <1>6, <2>1, <2>2 DEF ReadOperator, Solid, insert
<1>7. CASE ApplyOperator
  <2>1. r \in {"OPTFACTOR", "OPTEXPRITEM", "FEXPRITEM", "EXPR", "EXPRITEM"} /\ Complete
    BY <1>7 DEF ApplyOperator, Reducing
  <2>2. Len(rhs(r)) >= 1 /\ Len(rhs(r)) \in Nat
    BY <1>2, <2>1, ExpressionsRules, Innermost
  <2>3. v[1].desc \in Int
    BY <1>2, <2>1, <2>2, ValuesComplete
  <2>4. Solid(Pending(v[1])) /\ JumpFree(Pending(v[1]))
    BY <1>3, <1>4, <2>3, Operations, NoCode DEF Pending
  <2>5. r \notin Declarations
    BY <2>1 DEF Declarations
  <2> QED BY <1>7, <2>4, <2>5 DEF ApplyOperator, Solid, insert
<1>8. CASE Assertion
  <2> DEFINE id == IF r = "ASSERTION" THEN v[2].desc ELSE OPR_ODD
             e == insert_opr(id)
  <2>1. id \in Int
    <3>1. CASE r = "ASSERTION"
      <4>1. Complete /\ Len(rhs(r)) = 3
        BY <1>8, <3>1, ExpressionsRules DEF Assertion, Reducing
      <4>2. v[2].desc \in Int
        BY <1>2, <4>1, ValuesComplete
      <4> QED BY <3>1, <4>2
    <3>2. CASE r # "ASSERTION"
      BY <3>2 DEF OPR_ODD
    <3> QED BY <3>1, <3>2
  <2>2. insert(e)
    BY <1>8 DEF Assertion
  <2> HIDE DEF id
  <2>3. Solid(e) /\ JumpFree(e)
    BY <1>3, <2>1, Operations
  <2>4. r \notin Declarations
    BY <1>8 DEF Assertion, Reducing, Declarations
  <2> QED BY <2>2, <2>3, <2>4 DEF Solid, insert
<1>9. CASE EmitSimple \/ Assign
  <2>1. PICK e \in Seq(Instructions) :
          insert(e) /\ e = IF r = "ASSIGN" THEN store_id(v[1].name) ELSE Emitted
    BY <1>9, NamesEmitted
  <2>2. JumpFree(e)
    <3>1. CASE r = "ASSIGN"
      BY <1>2, <2>1, <3>1, NamesJumpFree
    <3>2. CASE r # "ASSIGN"
      <4>1. r \in Simple /\ Complete
        BY <1>9, <3>2 DEF EmitSimple, Assign, Reducing
      <4> QED BY <1>2, <2>1, <3>2, <4>1, EmittedJumpFree
    <3> QED BY <3>1, <3>2
  <2>3. r \notin Declarations
    BY <1>9 DEF EmitSimple, Assign, Reducing, Simple, Declarations
  <2> QED BY <2>1, <2>2, <2>3 DEF insert
<1>10. UNCHANGED <<code, owner>> \/ ReadOperator \/ ApplyOperator \/ Assertion \/ EmitSimple \/ Assign
  BY DEF Steady, Quiet, Operating, ControlStep, Expand, Shift, Default, Declare
<1> QED BY <1>5, <1>6, <1>7, <1>8, <1>9, <1>10

----------------------------------------------------------------------------
(***************************************************************************)
(* The inductive invariant: what is filled in later is of the right type,  *)
(* and every jump that has its target leads on or closes a loop.           *)
(***************************************************************************)

Typed(c, s, type) == \A a \in ToSet(s) : c[a + 1].type = type
Patches ==
  /\ Typed(code, proc_int_backfill, "INT")
  /\ Typed(code, JmpsOf(proc_body_backfill), "JMP")
  /\ Typed(code, if_not_backfill, "JPC")
  /\ Typed(code, while_not_backfill, "JPC")

\* The body of a block lies behind the JMP that goes to it.
BodiesBehind == \A e \in ToSet(proc_body_backfill) : e.jmp_inst < e.proc_body

\* The jump at j goes on, or back to in front of a condition that leaves to
\* the instruction behind it.
Leads(c, j) ==
  \/ c[j + 1].a > j
  \/ \E m \in 0..(j - 1) : c[j + 1].a <= m /\ c[m + 1].type = "JPC" /\ c[m + 1].a = j + 1
JumpsLead(c) ==
  \A j \in 0..(Len(c) - 1) : c[j + 1].type \in JumpTypes /\ c[j + 1].a # 0 => Leads(c, j)

LoopsInv ==
  /\ status = "parsing" => Patches /\ BodiesBehind /\ JumpsLead(code)
  /\ status = "succeeded" /\ lexErrors = 0 =>
       code \in Seq(Instructions) /\ JumpsLead(code) /\ \A j \in Jumps : At(j).a # 0

\* A jump that leads somewhere goes on doing so.
LEMMA StillLeads ==
  ASSUME NEW c \in Seq(Instructions), NEW d \in Seq(Instructions), Kept(c, d),
         NEW j \in 0..(Len(c) - 1), c[j + 1].a # 0, Leads(c, j)
  PROVE  Leads(d, j)
<1>1. Len(c) \in Nat /\ Len(d) \in Nat
  OBVIOUS
<1>2. d[j + 1] = c[j + 1]
  BY <1>1, KeptInstruction
<1>3. CASE c[j + 1].a > j
  BY <1>2, <1>3 DEF Leads
<1>4. ASSUME NEW m \in 0..(j - 1), c[j + 1].a <= m, c[m + 1].type = "JPC", c[m + 1].a = j + 1
      PROVE  Leads(d, j)
  <2>1. m \in 0..(Len(c) - 1) /\ c[m + 1].a # 0
    BY <1>1, <1>4
  <2>2. d[m + 1] = c[m + 1]
    BY <1>1, <2>1, KeptInstruction
  <2> QED BY <1>2, <1>4, <2>2 DEF Leads
<1> QED BY <1>3, <1>4 DEF Leads

\* The code goes on: only new jumps, and those that get their target, are to be looked at.
LEMMA JumpsStillLead ==
  ASSUME NEW c \in Seq(Instructions), NEW d \in Seq(Instructions), Kept(c, d), JumpsLead(c),
         \A j \in 0..(Len(d) - 1) :
           /\ j >= Len(c) \/ j \in Blanks(c)
           /\ d[j + 1].type \in JumpTypes /\ d[j + 1].a # 0
           => Leads(d, j)
  PROVE  JumpsLead(d)
<1> SUFFICES ASSUME NEW j \in 0..(Len(d) - 1), d[j + 1].type \in JumpTypes, d[j + 1].a # 0,
                    ~(j >= Len(c) \/ j \in Blanks(c))
             PROVE  Leads(d, j)
  BY DEF JumpsLead
<1>1. Len(c) \in Nat /\ Len(d) \in Nat
  OBVIOUS
<1>2. j \in 0..(Len(c) - 1)
  BY <1>1
<1>3. ~Blank(c[j + 1])
  BY <1>2 DEF Blanks
<1>4. d[j + 1] = c[j + 1]
  BY <1>1, <1>2, <1>3, KeptInstruction
<1>5. Leads(c, j)
  BY <1>2, <1>4 DEF JumpsLead
<1> QED BY <1>2, <1>4, <1>5, StillLeads

\* Code in which no jump has a target yet.
Targetless(e) == \A k \in 1..Len(e) : e[k].type \in JumpTypes => e[k].a = 0

\* Such code may be added.
LEMMA TargetlessAdded ==
  ASSUME NEW c \in Seq(Instructions), NEW e \in Seq(Instructions), Targetless(e), JumpsLead(c)
  PROVE  Kept(c, c \o e) /\ JumpsLead(c \o e) /\ c \o e \in Seq(Instructions)
<1> DEFINE d == c \o e
<1>1. /\ Kept(c, d) /\ d \in Seq(Instructions) /\ Len(d) = Len(c) + Len(e)
      /\ \A k \in 1..Len(c) : d[k] = c[k]
      /\ \A k \in 1..Len(e) : d[Len(c) + k] = e[k]
  BY KeptByAdding
<1>2. Len(c) \in Nat /\ Len(e) \in Nat
  OBVIOUS
<1> HIDE DEF d
<1>3. ASSUME NEW j \in 0..(Len(d) - 1), j >= Len(c) \/ j \in Blanks(c), d[j + 1].type \in JumpTypes
      PROVE  d[j + 1].a = 0
  <2>1. CASE j >= Len(c)
    <3>1. (j - Len(c)) + 1 \in 1..Len(e) /\ Len(c) + ((j - Len(c)) + 1) = j + 1
      BY <1>1, <1>2, <2>1
    <3>2. d[j + 1] = e[(j - Len(c)) + 1]
      BY <1>1, <3>1
    <3> QED BY <1>3, <3>1, <3>2 DEF Targetless
  <2>2. CASE j \in Blanks(c)
    <3>1. j \in 0..(Len(c) - 1) /\ c[j + 1].a = 0
      BY <2>2 DEF Blanks, Blank
    <3>2. j + 1 \in 1..Len(c)
      BY <1>2, <3>1
    <3> QED BY <1>1, <3>1, <3>2
  <2> QED BY <1>3, <2>1, <2>2
<1>4. JumpsLead(d)
  BY <1>1, <1>3, JumpsStillLead
<1> QED BY <1>1, <1>4 DEF d

\* The types of instructions do not change.
LEMMA TypesKept ==
  ASSUME NEW c \in Seq(Instructions), NEW d, Kept(c, d), NEW s,
         ToSet(s) \subseteq 0..(Len(c) - 1), NEW type, Typed(c, s, type)
  PROVE  Typed(d, s, type)
<1> SUFFICES ASSUME NEW a \in ToSet(s) PROVE d[a + 1].type = type
  BY DEF Typed
<1>1. a \in 0..(Len(c) - 1) /\ Len(c) \in Nat
  OBVIOUS
<1>2. a + 1 \in 1..Len(c)
  BY <1>1
<1> QED BY <1>2 DEF Kept, Typed

\* Pushing and popping.
LEMMA TypesPushed ==
  ASSUME NEW c, NEW s \in Seq(Nat), NEW type, Typed(c, s, type), NEW a \in Nat, c[a + 1].type = type
  PROVE  Typed(c, Append(s, a), type)
<1>1. ToSet(Append(s, a)) = ToSet(s) \cup {a}
  BY Pushed
<1> QED BY <1>1 DEF Typed

\* What is left on a stack, and what is taken off.
LEMMA TypesPopped ==
  ASSUME NEW c, NEW s \in Seq(Nat), s # <<>>, NEW type, Typed(c, s, type)
  PROVE  Typed(c, Front(s), type) /\ c[Last(s) + 1].type = type
<1>1. /\ Last(s) \in ToSet(s) /\ Front(s) \in Seq(Nat) /\ Len(Front(s)) = Len(s) - 1
      /\ \A k \in 1..(Len(s) - 1) : Front(s)[k] = s[k]
  BY Popped
<1>2. ToSet(Front(s)) \subseteq ToSet(s)
  <2> SUFFICES ASSUME NEW k \in 1..(Len(s) - 1) PROVE s[k] \in ToSet(s)
    BY <1>1 DEF ToSet
  <2>1. k \in DOMAIN s
    OBVIOUS
  <2> QED BY <2>1 DEF ToSet
<1> QED BY <1>1, <1>2 DEF Typed

\* What the stacks hold stays typed as long as they stay.
LEMMA PatchesKept ==
  ASSUME IInv, status = "parsing", Kept(code, code'), Patches
  PROVE  /\ Typed(code', proc_int_backfill, "INT")
         /\ Typed(code', JmpsOf(proc_body_backfill), "JMP")
         /\ Typed(code', if_not_backfill, "JPC")
         /\ Typed(code', while_not_backfill, "JPC")
<1>1. StacksTyped /\ AllQueued /\ code \in Seq(Instructions) /\ length = Len(code)
  BY BeforeReduction
<1>2. /\ ToSet(proc_int_backfill) \subseteq 0..(Len(code) - 1)
      /\ ToSet(if_not_backfill) \subseteq 0..(Len(code) - 1)
      /\ ToSet(while_not_backfill) \subseteq 0..(Len(code) - 1)
      /\ ToSet(JmpsOf(proc_body_backfill)) \subseteq 0..(Len(code) - 1)
  BY <1>1, QueuedAddresses
<1>3. Typed(code', proc_int_backfill, "INT")
  BY <1>1, <1>2, TypesKept DEF Patches
<1>4. Typed(code', JmpsOf(proc_body_backfill), "JMP")
  BY <1>1, <1>2, TypesKept DEF Patches
<1>5. Typed(code', if_not_backfill, "JPC")
  BY <1>1, <1>2, TypesKept DEF Patches
<1>6. Typed(code', while_not_backfill, "JPC")
  BY <1>1, <1>2, TypesKept DEF Patches
<1> QED BY <1>3, <1>4, <1>5, <1>6

\* The statements and expressions that are neither if nor loop (Assembler.h:104-176).
LEMMA StraightKeepsLoops ==
  ASSUME IInv, LoopsInv, Steady, ~ControlStep, status' = "parsing"
  PROVE  LoopsInv'
<1>1. status = "parsing"
  BY SteadyStatus
<1>2. Patches /\ BodiesBehind /\ JumpsLead(code) /\ code \in Seq(Instructions)
  BY <1>1, BeforeReduction DEF LoopsInv
<1>3. PICK e \in Seq(Instructions) : JumpFree(e) /\ code' = code \o e
  BY StraightCode
<1>4. Targetless(e)
  BY <1>3 DEF JumpFree, Targetless
<1>5. Kept(code, code') /\ JumpsLead(code')
  BY <1>2, <1>3, <1>4, TargetlessAdded
<1>6. UNCHANGED stacks
  BY DEF Steady, Quiet, Operating, ControlStep, Expand, Shift, Default, Declare, ReadOperator,
     ApplyOperator, Assertion, EmitSimple, Assign, stacks
<1>7. UNCHANGED <<proc_int_backfill, proc_body_backfill, if_not_backfill, while_not_backfill>>
  BY <1>6 DEF stacks, procStacks, whileStacks
<1>8. Patches'
  BY <1>1, <1>2, <1>5, <1>7, PatchesKept DEF Patches
<1> QED BY <1>2, <1>5, <1>7, <1>8 DEF LoopsInv, BodiesBehind

\* A loop begins: the code stays (Assembler.cpp:168).
LEMMA WhileEntryKeepsLoops ==
  ASSUME LoopsInv, WhileEntry, status' = "parsing"
  PROVE  LoopsInv'
<1>1. status = "parsing"
      /\ UNCHANGED <<code, proc_int_backfill, proc_body_backfill, if_not_backfill, while_not_backfill>>
  BY DEF WhileEntry, Reducing, Reading, procStacks
<1> QED BY <1>1 DEF LoopsInv, Patches, BodiesBehind

\* The JPC of an if or of a loop is emitted, its target to come (Assembler.cpp:156, 173).
LEMMA ConditionEmitted ==
  ASSUME code \in Seq(Instructions), code' = code \o <<inst_t("JPC", 0, 0)>>, JumpsLead(code)
  PROVE  /\ Kept(code, code') /\ JumpsLead(code') /\ code'[length + 1].type = "JPC"
         /\ length \in Nat
<1> DEFINE i == inst_t("JPC", 0, 0)
<1>1. i \in Instructions /\ i.type = "JPC" /\ i.a = 0
  BY DEF inst_t, Instructions, InstTypes
<1> HIDE DEF i
<1>2. <<i>> \in Seq(Instructions) /\ Targetless(<<i>>)
  BY <1>1 DEF Targetless
<1>3. Kept(code, code \o <<i>>) /\ JumpsLead(code \o <<i>>)
  BY <1>2, TargetlessAdded
<1>4. code \o <<i>> = Append(code, i) /\ Append(code, i)[Len(code) + 1] = i
  BY <1>1, KeptByOne
<1> QED BY <1>1, <1>3, <1>4 DEF i, length

\* The headers of ifs and loops push it (Assembler.cpp:156, 173).
LEMMA HeaderKeepsLoops ==
  ASSUME IInv, LoopsInv, IfHeader \/ WhileHeader, status' = "parsing"
  PROVE  LoopsInv'
<1>1. /\ status = "parsing" /\ code' = code \o <<inst_t("JPC", 0, 0)>>
      /\ UNCHANGED <<proc_int_backfill, proc_body_backfill>>
      /\ \/ if_not_backfill' = Append(if_not_backfill, length) /\ UNCHANGED while_not_backfill
         \/ while_not_backfill' = Append(while_not_backfill, length) /\ UNCHANGED if_not_backfill
  BY DEF IfHeader, WhileHeader, Reducing, Reading, insert, procStacks, whileStacks
<1>2. Patches /\ BodiesBehind /\ JumpsLead(code)
  BY <1>1 DEF LoopsInv
<1>3. code \in Seq(Instructions) /\ if_not_backfill \in Seq(Nat) /\ while_not_backfill \in Seq(Nat)
  BY <1>1, BeforeReduction
<1>4. /\ Kept(code, code') /\ JumpsLead(code') /\ code'[length + 1].type = "JPC"
      /\ length \in Nat
  BY <1>1, <1>2, <1>3, ConditionEmitted
<1>5. /\ Typed(code', proc_int_backfill, "INT") /\ Typed(code', JmpsOf(proc_body_backfill), "JMP")
      /\ Typed(code', if_not_backfill, "JPC") /\ Typed(code', while_not_backfill, "JPC")
  BY <1>1, <1>2, <1>4, PatchesKept
<1>6. Typed(code', Append(if_not_backfill, length), "JPC")
  BY <1>3, <1>4, <1>5, TypesPushed
<1>7. Typed(code', Append(while_not_backfill, length), "JPC")
  BY <1>3, <1>4, <1>5, TypesPushed
<1>8. Patches'
  BY <1>1, <1>5, <1>6, <1>7 DEF Patches
<1> QED BY <1>1, <1>2, <1>4, <1>8 DEF LoopsInv, BodiesBehind

\* An if is complete: its condition leads on (Assembler.cpp:162).
LEMMA IfEndKeepsLoops ==
  ASSUME IInv, LoopsInv, IfEnd, status' = "parsing", if_not_backfill # <<>>
  PROVE  LoopsInv'
<1> DEFINE top == Last(if_not_backfill)
<1>1. /\ status = "parsing" /\ code' = Backfill(code, top, length)
      /\ UNCHANGED <<proc_int_backfill, proc_body_backfill, while_not_backfill>>
      /\ if_not_backfill' = Front(if_not_backfill)
  BY DEF IfEnd, Reducing, Reading, procStacks, whileStacks, InnermostIf
<1>2. Patches /\ BodiesBehind /\ JumpsLead(code)
  BY <1>1 DEF LoopsInv
<1>3. /\ code \in Seq(Instructions) /\ if_not_backfill \in Seq(Nat)
      /\ length = Len(code) /\ length \in Nat
  BY <1>1, BeforeReduction
<1>4. top \in Blanks(code) /\ top \in 0..(length - 1)
  BY <1>1, <1>3, TopsAreBlank DEF Blanks
<1>5. Kept(code, code)
  BY <1>3, KeptAsIs
<1> HIDE DEF top
<1>6. /\ Kept(code, code') /\ code' \in Seq(Instructions)
      /\ Len(code') = Len(code) /\ code'[top + 1].a = length
      /\ \A b \in 0..(Len(code) - 1) : /\ code'[b + 1].type = code[b + 1].type
                                       /\ b # top => code'[b + 1] = code[b + 1]
  BY <1>1, <1>3, <1>4, <1>5, KeptByFilling
<1>7. JumpsLead(code')
  <2>1. ASSUME NEW j \in 0..(Len(code') - 1), j >= Len(code) \/ j \in Blanks(code), code'[j + 1].a # 0
        PROVE  Leads(code', j)
    <3>1. j \in Blanks(code) /\ j \in 0..(Len(code) - 1)
      BY <1>3, <1>6, <2>1
    <3>2. code[j + 1].a = 0
      BY <3>1 DEF Blanks, Blank
    <3>3. j = top
      BY <1>6, <2>1, <3>1, <3>2
    <3> QED BY <1>3, <1>4, <1>6, <3>3 DEF Leads
  <2> QED BY <1>2, <1>3, <1>6, <2>1, JumpsStillLead
<1>8. /\ Typed(code', proc_int_backfill, "INT") /\ Typed(code', JmpsOf(proc_body_backfill), "JMP")
      /\ Typed(code', if_not_backfill, "JPC") /\ Typed(code', while_not_backfill, "JPC")
  BY <1>1, <1>2, <1>6, PatchesKept
<1>9. Typed(code', Front(if_not_backfill), "JPC")
  BY <1>3, <1>8, TypesPopped
<1>10. Patches'
  BY <1>1, <1>8, <1>9 DEF Patches
<1> QED BY <1>1, <1>2, <1>7, <1>10 DEF LoopsInv, BodiesBehind

\* A loop is complete: it jumps back to in front of its condition, and the
\* condition leaves to behind the jump (Assembler.cpp:179).
LEMMA WhileEndKeepsLoops ==
  ASSUME IInv, LoopsInv, WhileEnd, status' = "parsing",
         while_not_backfill # <<>>, while_entry_backfill # <<>>,
         Last(while_entry_backfill) <= Last(while_not_backfill)
  PROVE  LoopsInv'
<1> DEFINE top == Last(while_not_backfill)
           entry == Last(while_entry_backfill)
           back == inst_t("JMP", 0, entry)
           longer == Append(code, back)
<1>1. /\ status = "parsing" /\ code' = Backfill(longer, top, length + 1)
      /\ UNCHANGED <<proc_int_backfill, proc_body_backfill, if_not_backfill>>
      /\ while_not_backfill' = Front(while_not_backfill)
  BY DEF WhileEnd, Reducing, Reading, procStacks, LoopExit
<1>2. Patches /\ BodiesBehind /\ JumpsLead(code)
  BY <1>1 DEF LoopsInv
<1>3. /\ code \in Seq(Instructions) /\ while_not_backfill \in Seq(Nat)
      /\ while_entry_backfill \in Seq(Nat \ {0})
      /\ length = Len(code) /\ length \in Nat
  BY <1>1, BeforeReduction
<1>4. top \in Blanks(code) /\ top \in 0..(length - 1)
  BY <1>1, <1>3, TopsAreBlank DEF Blanks
<1>5. entry \in Nat \ {0}
  BY <1>3, Popped
<1>6. back \in Instructions /\ back.a = entry
  BY <1>5 DEF inst_t, Instructions, InstTypes
<1>7. code[top + 1].type = "JPC"
  BY <1>2, <1>3, TypesPopped DEF Patches
<1>8. entry <= top
  OBVIOUS
<1> HIDE DEF top, entry, back
<1>9. /\ Kept(code, longer) /\ longer \in Seq(Instructions) /\ Len(longer) = Len(code) + 1
      /\ longer[Len(code) + 1] = back
  BY <1>3, <1>6, KeptByOne
<1> HIDE DEF longer
<1>10. /\ Kept(code, code') /\ code' \in Seq(Instructions)
       /\ Len(code') = Len(longer) /\ code'[top + 1].a = length + 1
       /\ \A b \in 0..(Len(longer) - 1) : /\ code'[b + 1].type = longer[b + 1].type
                                          /\ b # top => code'[b + 1] = longer[b + 1]
  <2> DEFINE to == length + 1
  <2>1. to \in Int
    BY <1>3
  <2>2. code \in Seq(Instructions) /\ longer \in Seq(Instructions) /\ Kept(code, longer)
    BY <1>3, <1>9
  <2>3. top \in Blanks(code)
    BY <1>4
  <2> HIDE DEF to
  <2>4. /\ Kept(code, Backfill(longer, top, to)) /\ Backfill(longer, top, to) \in Seq(Instructions)
        /\ Len(Backfill(longer, top, to)) = Len(longer) /\ Backfill(longer, top, to)[top + 1].a = to
        /\ \A b \in 0..(Len(longer) - 1) :
             /\ Backfill(longer, top, to)[b + 1].type = longer[b + 1].type
             /\ b # top => Backfill(longer, top, to)[b + 1] = longer[b + 1]
    BY ONLY <2>1, <2>2, <2>3, KeptByFilling
  <2>5. code' = Backfill(longer, top, to)
    BY <1>1 DEF to
  <2> QED BY <2>4, <2>5 DEF to
<1>11. code'[length + 1] = back
  <2>1. length \in 0..(Len(longer) - 1) /\ length # top
    BY <1>3, <1>4, <1>9
  <2> QED BY <1>3, <1>9, <1>10, <2>1
<1>12. code'[top + 1].type = "JPC"
  <2>1. top + 1 \in 1..Len(code)
    BY <1>3, <1>4
  <2> QED BY <1>7, <1>10, <2>1 DEF Kept
<1>13. JumpsLead(code')
  <2>1. ASSUME NEW j \in 0..(Len(code') - 1), j >= Len(code) \/ j \in Blanks(code), code'[j + 1].a # 0
        PROVE  Leads(code', j)
    <3>1. CASE j >= Len(code)
      <4>1. j = length
        BY <1>3, <1>9, <1>10, <3>1
      <4>2. top \in 0..(j - 1) /\ code'[j + 1].a <= top /\ code'[top + 1].a = j + 1
        BY <1>3, <1>4, <1>6, <1>8, <1>10, <1>11, <4>1
      <4> QED BY <1>12, <4>2 DEF Leads
    <3>2. CASE j \in Blanks(code)
      <4>1. j \in 0..(Len(code) - 1) /\ Blank(code[j + 1]) /\ code[j + 1].a = 0
        BY <3>2 DEF Blanks, Blank
      <4>2. ASSUME j # top PROVE FALSE
        <5>1. j \in 0..(Len(longer) - 1) /\ j + 1 \in 1..Len(code)
          BY <1>3, <1>9, <4>1
        <5>2. code'[j + 1] = longer[j + 1] /\ code'[j + 1].type = code[j + 1].type
          BY <1>10, <4>2, <5>1 DEF Kept
        <5>3. longer[j + 1] = code[j + 1]
          <6>1. longer = Append(code, back)
            BY DEF longer
          <6> QED BY <1>3, <1>6, <5>1, <6>1
        <5> QED BY <2>1, <4>1, <5>2, <5>3
      <4>3. j = top /\ code'[j + 1].a > j
        BY <1>3, <1>4, <1>10, <4>2
      <4> QED BY <4>3 DEF Leads
    <3> QED BY <2>1, <3>1, <3>2
  <2> QED BY <1>2, <1>3, <1>10, <2>1, JumpsStillLead
<1>14. /\ Typed(code', proc_int_backfill, "INT") /\ Typed(code', JmpsOf(proc_body_backfill), "JMP")
       /\ Typed(code', if_not_backfill, "JPC") /\ Typed(code', while_not_backfill, "JPC")
  BY <1>1, <1>2, <1>10, PatchesKept
<1>15. Typed(code', Front(while_not_backfill), "JPC")
  BY <1>3, <1>14, TypesPopped
<1>16. Patches'
  BY <1>1, <1>14, <1>15 DEF Patches
<1> QED BY <1>1, <1>2, <1>13, <1>16 DEF LoopsInv, BodiesBehind

\* The prologue of a procedure, or the one after a lexical error (Assembler.cpp:35, plc.cpp:31).
LEMMA PrologueKeepsLoops ==
  ASSUME IInv, LoopsInv, ProcedureHeader \/ LexicalError
  PROVE  LoopsInv'
<1> DEFINE int == inst_t("INT", 0, 0)
           jmp == inst_t("JMP", 0, 0)
           e == [jmp_inst |-> length + 1, proc_body |-> length + 2]
<1>1. /\ status = "parsing" /\ status' = status /\ code' = code \o Prologue
      /\ UNCHANGED <<if_not_backfill, while_not_backfill>>
      /\ proc_int_backfill' = Append(proc_int_backfill, length)
      /\ proc_body_backfill' = Append(proc_body_backfill, e)
  BY DEF ProcedureHeader, LexicalError, Reducing, Reading, insert, whileStacks, PushPrologue, Return,
     automaton
<1>2. Patches /\ BodiesBehind /\ JumpsLead(code)
  BY <1>1 DEF LoopsInv
<1>3. /\ code \in Seq(Instructions) /\ length = Len(code) /\ length \in Nat
      /\ proc_int_backfill \in Seq(Nat) /\ proc_body_backfill \in Seq(BodyEntries)
      /\ JmpsOf(proc_body_backfill) \in Seq(Nat)
  BY <1>1, BeforeReduction
<1>4. Prologue \in Seq(Instructions) /\ Len(Prologue) = 2 /\ Prologue[1] = int /\ Prologue[2] = jmp
  BY PrologueIsCode DEF Prologue
<1>5. Targetless(Prologue)
  <2>1. int.type = "INT" /\ int.a = 0 /\ jmp.a = 0
    BY DEF inst_t
  <2> HIDE DEF int, jmp
  <2> QED BY <1>4, <2>1 DEF Targetless
<1>6. int.type = "INT" /\ jmp.type = "JMP"
  BY DEF inst_t
<1>7. e \in BodyEntries /\ e.jmp_inst = length + 1 /\ e.jmp_inst < e.proc_body
  BY <1>3 DEF BodyEntries
<1> HIDE DEF int, jmp, e
<1>8. Kept(code, code') /\ JumpsLead(code')
  BY <1>1, <1>2, <1>3, <1>4, <1>5, TargetlessAdded
<1>9. code'[length + 1].type = "INT" /\ code'[(length + 1) + 1].type = "JMP"
  <2>1. \A k \in 1..Len(Prologue) : code'[Len(code) + k] = Prologue[k]
    BY <1>1, <1>3, <1>4, KeptByAdding
  <2>2. code'[Len(code) + 1] = int /\ code'[Len(code) + 2] = jmp
    BY <1>4, <2>1
  <2>3. (length + 1) + 1 = Len(code) + 2
    BY <1>3
  <2> QED BY <1>3, <1>6, <2>2, <2>3
<1>10. /\ Typed(code', proc_int_backfill, "INT") /\ Typed(code', JmpsOf(proc_body_backfill), "JMP")
       /\ Typed(code', if_not_backfill, "JPC") /\ Typed(code', while_not_backfill, "JPC")
  BY <1>1, <1>2, <1>8, PatchesKept
<1>11. Typed(code', Append(proc_int_backfill, length), "INT")
  BY <1>3, <1>9, <1>10, TypesPushed
<1>12. Typed(code', JmpsOf(Append(proc_body_backfill, e)), "JMP")
  <2>1. JmpsOf(Append(proc_body_backfill, e)) = Append(JmpsOf(proc_body_backfill), length + 1)
    BY <1>3, <1>7, JmpsPushed
  <2>2. length + 1 \in Nat
    BY <1>3
  <2> QED BY <1>3, <1>9, <1>10, <2>1, <2>2, TypesPushed
<1>13. Patches'
  BY <1>1, <1>10, <1>11, <1>12 DEF Patches
<1>14. BodiesBehind'
  <2>1. ToSet(Append(proc_body_backfill, e)) = ToSet(proc_body_backfill) \cup {e}
    BY <1>3, <1>7, Pushed
  <2> QED BY <1>1, <1>2, <1>7, <2>1 DEF BodiesBehind
<1> QED BY <1>1, <1>8, <1>13, <1>14 DEF LoopsInv

\* When a block is finished, everything but its prologue stays.
LEMMA FinishedRest ==
  ASSUME code \in Seq(Instructions), NEW a \in Blanks(code), NEW b \in Blanks(code),
         NEW x \in Int, NEW y \in Int,
         code' = Backfill(Backfill(code \o insert_opr(OPR_RET), a, x), b, y)
  PROVE  \A j \in 0..(Len(code) - 1) : j # a /\ j # b => code'[j + 1] = code[j + 1]
<1> DEFINE ret == insert_opr(OPR_RET)
           longer == code \o ret
           mid == Backfill(longer, a, x)
           c == Backfill(mid, b, y)
           i == inst_t("OPR", 0, OPR_RET)
<1>1. ret = <<i>> /\ i \in Instructions
  BY DEF inst_t, Instructions, InstTypes, OPR_RET, insert_opr, OPR_NOP
<1>2. a \in Blanks(code) /\ b \in Blanks(code) /\ Len(code) \in Nat
  OBVIOUS
<1> HIDE DEF ret, i
<1>3. /\ Kept(code, longer) /\ longer \in Seq(Instructions) /\ Len(longer) = Len(code) + 1
      /\ \A k \in 1..Len(code) : longer[k] = code[k]
  <2>1. <<i>> \in Seq(Instructions) /\ Len(<<i>>) = 1
    BY <1>1
  <2> QED BY <1>1, <2>1, KeptByAdding
<1> HIDE DEF longer
<1>4. /\ Kept(code, mid) /\ mid \in Seq(Instructions) /\ Len(mid) = Len(longer)
      /\ \A k \in 0..(Len(longer) - 1) : k # a => mid[k + 1] = longer[k + 1]
  BY SMTT(60), <1>2, <1>3, KeptByFilling
<1> HIDE DEF mid
<1>5. \A k \in 0..(Len(mid) - 1) : k # b => c[k + 1] = mid[k + 1]
  BY SMTT(60), <1>2, <1>4, KeptByFilling
<1> HIDE DEF c
<1>6. code' = c
  BY DEF c, mid, longer, ret
<1>7. ASSUME NEW j \in 0..(Len(code) - 1), j # a, j # b PROVE code'[j + 1] = code[j + 1]
  <2>1. j \in 0..(Len(longer) - 1) /\ j \in 0..(Len(mid) - 1) /\ j + 1 \in 1..Len(code)
    BY <1>2, <1>3, <1>4
  <2> QED BY <1>3, <1>4, <1>5, <1>6, <1>7, <2>1
<1> QED BY <1>7

\* The jumps then: only the block's JMP has got a target, and it leads on.
LEMMA FinishedJumps ==
  ASSUME code \in Seq(Instructions), NEW a \in Blanks(code), NEW b \in Blanks(code),
         NEW x \in Int, NEW y \in Int, y > b, code[a + 1].type = "INT", JumpsLead(code),
         code' = Backfill(Backfill(code \o insert_opr(OPR_RET), a, x), b, y)
  PROVE  /\ Kept(code, code') /\ JumpsLead(code') /\ code' \in Seq(Instructions)
         /\ \A j \in 0..(Len(code') - 1) :
              code'[j + 1].type \in JumpTypes /\ code'[j + 1].a = 0 => j \in Blanks(code) \ {a, b}
<1>1. /\ Kept(code, code') /\ code' \in Seq(Instructions) /\ Len(code') = Len(code) + 1
      /\ code'[Len(code) + 1].type = "OPR" /\ code'[b + 1].a = y
  BY FinishedCode
<1>2. \A j \in 0..(Len(code) - 1) : j # a /\ j # b => code'[j + 1] = code[j + 1]
  BY FinishedRest
<1>3. a \in 0..(Len(code) - 1) /\ b \in 0..(Len(code) - 1) /\ Len(code) \in Nat
  BY DEF Blanks
<1>4. code'[a + 1].type = "INT"
  <2>1. a + 1 \in 1..Len(code)
    BY <1>3
  <2> QED BY <1>1, <2>1 DEF Kept
<1>5. ASSUME NEW j \in 0..(Len(code') - 1), code'[j + 1].type \in JumpTypes
      PROVE  \/ j = b /\ code'[j + 1].a > j
             \/ j \in 0..(Len(code) - 1) \ {a, b} /\ code'[j + 1] = code[j + 1]
  <2>1. j # a /\ j # Len(code)
    BY <1>1, <1>4, <1>5 DEF JumpTypes
  <2>2. j = b \/ j \in 0..(Len(code) - 1) \ {a, b}
    BY <1>1, <1>3, <2>1
  <2> QED BY <1>1, <1>2, <2>2
<1>6. JumpsLead(code')
  <2>1. ASSUME NEW j \in 0..(Len(code') - 1), j >= Len(code) \/ j \in Blanks(code),
               code'[j + 1].type \in JumpTypes, code'[j + 1].a # 0
        PROVE  Leads(code', j)
    <3>1. CASE j = b /\ code'[j + 1].a > j
      BY <3>1 DEF Leads
    <3>2. CASE j \in 0..(Len(code) - 1) \ {a, b} /\ code'[j + 1] = code[j + 1]
      <4>1. j \in Blanks(code)
        BY <1>3, <2>1, <3>2
      <4> QED BY <2>1, <3>2, <4>1 DEF Blanks, Blank
    <3> QED BY <1>5, <2>1, <3>1, <3>2
  <2> QED BY <1>1, <2>1, JumpsStillLead
<1>7. ASSUME NEW j \in 0..(Len(code') - 1), code'[j + 1].type \in JumpTypes, code'[j + 1].a = 0
      PROVE  j \in Blanks(code) \ {a, b}
  <2>1. ~(j = b /\ code'[j + 1].a > j)
    BY <1>3, <1>7
  <2>2. j \in 0..(Len(code) - 1) \ {a, b} /\ code'[j + 1] = code[j + 1]
    BY <1>5, <1>7, <2>1
  <2> QED BY <1>7, <2>2 DEF Blanks, Blank, JumpTypes
<1> QED BY <1>1, <1>6, <1>7

\* A procedure ends (Assembler.cpp:44).
LEMMA ProcedureEndKeepsLoops ==
  ASSUME IInv, LoopsInv, ProcedureEnd
  PROVE  LoopsInv'
<1> DEFINE P == proc_int_backfill
           B == proc_body_backfill
           F == Front(B)
           e == [jmp_inst |-> Last(F).jmp_inst, proc_body |-> length + 1]
<1>1. /\ Complete /\ r = "PROC" /\ status = "parsing" /\ status' = status
      /\ UNCHANGED <<if_not_backfill, while_not_backfill>>
      /\ code' = Backfill(Backfill(code \o insert_opr(OPR_RET), Last(P), FrameSize),
                          Last(B).jmp_inst, Last(B).proc_body)
      /\ P' = Front(P) /\ B' = UpdateUpper(F)
  BY DEF ProcedureEnd, Reducing, Reading, Return, automaton, whileStacks
<1>2. Patches /\ BodiesBehind /\ JumpsLead(code)
  BY <1>1 DEF LoopsInv
<1>3. /\ StacksTyped /\ AllQueued /\ Table!IInv
      /\ P \in Seq(Nat) /\ B \in Seq(BodyEntries) /\ JmpsOf(B) \in Seq(Nat)
      /\ code \in Seq(Instructions) /\ length \in Nat /\ length = Len(code)
  BY <1>1, BeforeReduction
<1>4. P # <<>> /\ B # <<>> /\ Len(B) >= 2
  BY <1>1, <1>3, StacksNotEmpty
<1>5. /\ Last(P) \in Blanks(code) /\ Last(B).jmp_inst \in Blanks(code)
      /\ Last(B).proc_body \in Nat \ {0}
  BY <1>1, TopsAreBlank
<1>6. FrameSize \in Int
  BY <1>3, FrameSizes
<1>7. code[Last(P) + 1].type = "INT"
  BY <1>2, <1>3, <1>4, TypesPopped DEF Patches
<1>8. /\ Last(B) \in ToSet(B) /\ F \in Seq(BodyEntries) /\ Len(F) = Len(B) - 1
      /\ \A k \in 1..(Len(B) - 1) : F[k] = B[k]
  BY <1>3, <1>4, Popped
<1>9. Last(B).proc_body > Last(B).jmp_inst
  <2>1. Last(B).jmp_inst < Last(B).proc_body
    BY <1>2, <1>8 DEF BodiesBehind
  <2>2. Last(B).jmp_inst \in Int
    BY <1>5 DEF Blanks
  <2> QED BY <1>5, <2>1, <2>2
<1>10. Kept(code, code') /\ JumpsLead(code')
  BY <1>1, <1>2, <1>3, <1>5, <1>6, <1>7, <1>9, FinishedJumps
<1>11. /\ Typed(code', P, "INT") /\ Typed(code', JmpsOf(B), "JMP")
       /\ Typed(code', if_not_backfill, "JPC") /\ Typed(code', while_not_backfill, "JPC")
  BY <1>1, <1>2, <1>10, PatchesKept
<1>12. Typed(code', Front(P), "INT")
  BY <1>3, <1>4, <1>11, TypesPopped
<1> HIDE DEF F
<1>13. F # <<>>
  BY <1>4, <1>8
<1>14. JmpsOf(UpdateUpper(F)) = Front(JmpsOf(B)) /\ JmpsOf(B) # <<>>
  <2>1. JmpsOf(F) = Front(JmpsOf(B)) /\ JmpsOf(B) # <<>>
    BY <1>3, <1>4, JmpsPopped DEF F
  <2>2. JmpsOf(UpdateUpper(F)) = JmpsOf(F)
    BY <1>3, <1>8, <1>13, UpperUpdated
  <2> QED BY <2>1, <2>2
<1>15. Typed(code', JmpsOf(UpdateUpper(F)), "JMP")
  BY <1>3, <1>11, <1>14, TypesPopped
<1>16. Patches'
  BY <1>1, <1>11, <1>12, <1>15 DEF Patches
<1>17. ToSet(F) \subseteq ToSet(B)
  <2> SUFFICES ASSUME NEW k \in 1..(Len(B) - 1) PROVE B[k] \in ToSet(B)
    BY <1>8 DEF ToSet
  <2>1. k \in DOMAIN B
    BY <1>3
  <2> QED BY <2>1 DEF ToSet
<1>18. /\ Front(F) \in Seq(BodyEntries) /\ Last(F) \in BodyEntries /\ Last(F) \in ToSet(F)
       /\ Len(Front(F)) = Len(F) - 1 /\ \A k \in 1..(Len(F) - 1) : Front(F)[k] = F[k]
  BY <1>8, <1>13, Popped
<1>19. e \in BodyEntries /\ e.jmp_inst = Last(F).jmp_inst /\ e.proc_body = length + 1
  BY <1>3, <1>18 DEF BodyEntries
<1>20. UpdateUpper(F) = Append(Front(F), e)
  BY DEF UpdateUpper
<1> HIDE DEF e
<1>21. ToSet(UpdateUpper(F)) \subseteq ToSet(B) \cup {e}
  <2>1. ToSet(UpdateUpper(F)) = ToSet(Front(F)) \cup {e}
    BY <1>18, <1>19, <1>20, Pushed
  <2>2. ToSet(Front(F)) \subseteq ToSet(F)
    <3> SUFFICES ASSUME NEW k \in 1..(Len(F) - 1) PROVE F[k] \in ToSet(F)
      BY <1>18 DEF ToSet
    <3>1. k \in DOMAIN F
      BY <1>8
    <3> QED BY <3>1 DEF ToSet
  <2> QED BY <1>17, <2>1, <2>2
<1>22. e.jmp_inst < e.proc_body
  <2>1. ToSet(JmpsOf(B)) \subseteq 0..(length - 1)
    BY <1>3, QueuedAddresses
  <2>2. Last(F) \in ToSet(B)
    BY <1>17, <1>18
  <2>3. Last(F).jmp_inst \in ToSet(JmpsOf(B))
    BY <2>2 DEF ToSet, JmpsOf
  <2>4. Last(F).jmp_inst \in 0..(length - 1)
    BY <2>1, <2>3
  <2> QED BY <1>3, <1>19, <2>4
<1>23. BodiesBehind'
  BY <1>1, <1>2, <1>21, <1>22 DEF BodiesBehind
<1> QED BY <1>1, <1>10, <1>16, <1>23 DEF LoopsInv

\* The source is complete: nothing is left to fill in but the main program's
\* prologue (plc.cpp:45).
LEMMA OnlyMainIsBlank ==
  ASSUME IInv, MainAtBottom, status = "parsing", lexErrors = 0, ~Reading
  PROVE  /\ Blanks(code) = {0, 1}
         /\ proc_body_backfill # <<>> /\ Last(proc_body_backfill).jmp_inst = 1
         /\ code[0 + 1].type = code[Last(proc_int_backfill) + 1].type /\ proc_int_backfill # <<>>
<1> DEFINE P == proc_int_backfill
           B == proc_body_backfill
           J == JmpsOf(B)
<1>1. /\ OnTrack(items) /\ StacksTyped /\ StacksDeep /\ AllQueued
      /\ P \in Seq(Nat) /\ B \in Seq(BodyEntries) /\ if_not_backfill \in Seq(Nat)
      /\ while_not_backfill \in Seq(Nat)
  BY BeforeReduction
<1>2. Len(P) = 1 /\ Len(items) = 1 /\ Len(B) = 1
  BY OnlyMainIsLeft, StacksNotEmpty
<1>3. items[1].rule = "PL0"
  BY <1>1 DEF OnTrack
<1>4. ASSUME NEW p, p # "PL0" PROVE Depth(items, p) = 0
  <2>1. Begun(items, p) = {}
    BY <1>2, <1>3, <1>4 DEF Begun
  <2> QED BY <2>1, FS_EmptySet DEF Depth
<1>5. Len(if_not_backfill) = 0 /\ Len(while_not_backfill) = 0
  BY <1>1, <1>4 DEF StacksDeep
<1>6. ToSet(if_not_backfill) = {} /\ ToSet(while_not_backfill) = {}
  BY <1>1, <1>5 DEF ToSet
<1>7. P[1] = 0 /\ B[1].jmp_inst = 1 /\ Last(P) = 0 /\ Last(B) = B[1]
  BY <1>2 DEF MainAtBottom, Last
<1>8. ToSet(P) = {0}
  BY <1>1, <1>2, <1>7 DEF ToSet
<1>9. Len(J) = 1 /\ J[1] = 1 /\ J \in Seq(Nat)
  BY <1>1, <1>2, <1>7, JmpsAreStack
<1> HIDE DEF J
<1>10. ToSet(J) = {1}
  BY <1>9 DEF ToSet
<1>11. Blanks(code) = {0, 1}
  BY <1>1, <1>6, <1>8, <1>10 DEF AllQueued, Queues, J
<1> QED BY <1>2, <1>7, <1>11

\* The main program's prologue is filled in, and no jump is left without its target (plc.cpp:45).
LEMMA SucceedKeepsLoops ==
  ASSUME IInv, MainAtBottom, LoopsInv, Succeed
  PROVE  LoopsInv'
<1> DEFINE B == proc_body_backfill
<1>1. /\ status = "parsing" /\ ~Reading /\ status' = "succeeded" /\ lexErrors' = lexErrors
      /\ code' = Backfill(Backfill(code \o insert_opr(OPR_RET), 0, Symbol!countLayerSize),
                          1, Last(B).proc_body)
  BY DEF Succeed
<1> SUFFICES ASSUME lexErrors = 0
             PROVE  code' \in Seq(Instructions) /\ JumpsLead(code') /\ \A j \in Jumps' : At(j)'.a # 0
  BY <1>1 DEF LoopsInv
<1>2. Patches /\ BodiesBehind /\ JumpsLead(code)
  BY <1>1 DEF LoopsInv
<1>3. /\ code \in Seq(Instructions) /\ Table!IInv /\ B \in Seq(BodyEntries)
      /\ proc_int_backfill \in Seq(Nat)
  BY <1>1, BeforeReduction
<1>4. /\ Blanks(code) = {0, 1} /\ B # <<>> /\ Last(B).jmp_inst = 1
      /\ code[0 + 1].type = code[Last(proc_int_backfill) + 1].type /\ proc_int_backfill # <<>>
  BY <1>1, OnlyMainIsBlank
<1>5. code[0 + 1].type = "INT"
  BY <1>2, <1>3, <1>4, TypesPopped DEF Patches
<1>6. Symbol!countLayerSize \in Int
  BY <1>3, FrameSizes
<1>7. Last(B) \in ToSet(B) /\ Last(B).proc_body \in Int
  <2>1. Last(B) \in BodyEntries /\ Last(B) \in ToSet(B)
    BY <1>3, <1>4, Popped
  <2> QED BY <2>1 DEF BodyEntries
<1>8. Last(B).proc_body > 1
  <2>1. 1 < Last(B).proc_body
    BY <1>2, <1>4, <1>7 DEF BodiesBehind
  <2> QED BY <1>7, <2>1
<1>9. 0 \in Blanks(code) /\ 1 \in Blanks(code)
  BY <1>4
<1>10. /\ JumpsLead(code') /\ code' \in Seq(Instructions)
       /\ \A j \in 0..(Len(code') - 1) :
            code'[j + 1].type \in JumpTypes /\ code'[j + 1].a = 0 => j \in Blanks(code) \ {0, 1}
  BY ONLY <1>1, <1>2, <1>3, <1>5, <1>6, <1>7, <1>8, <1>9, FinishedJumps
<1>11. ASSUME NEW j \in Jumps' PROVE At(j)'.a # 0
  <2>1. j \in 0..(Len(code') - 1) /\ code'[j + 1].type \in JumpTypes
    BY DEF Jumps, Addresses, length, At, JumpTypes
  <2>2. code'[j + 1].a # 0
    BY <1>4, <1>10, <2>1
  <2> QED BY <2>2 DEF At
<1> QED BY <1>10, <1>11

\* Before anything is read there is the main program's prologue only.
LEMMA InitLoopsInv == Init => LoopsInv
<1> SUFFICES ASSUME Init PROVE Patches /\ BodiesBehind /\ JumpsLead(code)
  BY DEF LoopsInv, Init
<1> DEFINE e == [jmp_inst |-> 1, proc_body |-> 2]
<1>1. /\ code = <<inst_t("INT", 0, 0), inst_t("JMP", 0, 0)>>
      /\ proc_int_backfill = <<0>> /\ proc_body_backfill = <<e>>
      /\ if_not_backfill = <<>> /\ while_not_backfill = <<>>
  BY DEF Init, Prologue
<1>2. /\ Len(code) = 2 /\ code[1].type = "INT" /\ code[2].type = "JMP"
      /\ code[1].a = 0 /\ code[2].a = 0
  BY <1>1 DEF inst_t
<1>3. ToSet(proc_int_backfill) = {0} /\ ToSet(proc_body_backfill) = {e}
      /\ ToSet(if_not_backfill) = {} /\ ToSet(while_not_backfill) = {}
  BY <1>1 DEF ToSet
<1>4. e.jmp_inst = 1 /\ e.proc_body = 2 /\ e \in BodyEntries
  BY DEF BodyEntries
<1> HIDE DEF e
<1>5. JmpsOf(proc_body_backfill) = <<1>>
  BY <1>1, <1>4 DEF JmpsOf
<1>6. ToSet(JmpsOf(proc_body_backfill)) = {1}
  BY <1>5 DEF ToSet
<1>7. Patches
  BY <1>2, <1>3, <1>6 DEF Patches, Typed
<1>8. BodiesBehind
  BY <1>3, <1>4 DEF BodiesBehind
<1>9. JumpsLead(code)
  <2>1. \A j \in 0..(Len(code) - 1) : j + 1 = 1 \/ j + 1 = 2
    BY <1>2
  <2> QED BY <1>2, <2>1 DEF JumpsLead
<1> QED BY <1>7, <1>8, <1>9

\* Every action preserves it.
LEMMA NextKeepsLoops ==
  ASSUME IInv, IInv', MainAtBottom, MarksInv, LoopsInv, [Next]_vars
  PROVE  LoopsInv'
<1>1. CASE UNCHANGED vars
  BY <1>1 DEF vars, automaton, stacks, procStacks, whileStacks, LoopsInv, Patches, BodiesBehind,
     Jumps, Addresses, At, length
<1>2. CASE Steady /\ status' = "parsing"
  <2>1. status = "parsing"
    BY <1>2, SteadyStatus
  <2>2. length' >= length /\ length' \in Nat
    <3>1. code' \in Seq(Instructions)
      BY <1>2 DEF IInv, StacksTyped
    <3> QED BY <2>1, <3>1, CodeGrows DEF length
  <2>3. CASE ~ControlStep
    BY <1>2, <2>3, StraightKeepsLoops
  <2>4. CASE IfHeader \/ WhileHeader
    BY <1>2, <2>4, HeaderKeepsLoops
  <2>5. CASE WhileEntry
    BY <1>2, <2>5, WhileEntryKeepsLoops
  <2>6. CASE IfEnd
    <3>1. if_not_backfill # <<>>
      BY <1>2, <2>2, <2>6, IfEndMarks
    <3> QED BY <1>2, <2>6, <3>1, IfEndKeepsLoops
  <2>7. CASE WhileEnd
    <3>1. /\ while_not_backfill # <<>> /\ while_entry_backfill # <<>>
          /\ Last(while_entry_backfill) <= Last(while_not_backfill)
      BY <1>2, <2>2, <2>7, WhileEndMarks
    <3> QED BY <1>2, <2>7, <3>1, WhileEndKeepsLoops
  <2> QED BY <2>3, <2>4, <2>5, <2>6, <2>7 DEF ControlStep
<1>3. CASE Steady /\ status' # "parsing"
  BY <1>3, SteadyStatus DEF LoopsInv
<1>4. CASE ProcedureHeader \/ LexicalError
  BY <1>4, PrologueKeepsLoops
<1>5. CASE ProcedureEnd
  BY <1>5, ProcedureEndKeepsLoops
<1>6. CASE Succeed
  BY <1>6, SucceedKeepsLoops
<1>7. CASE SyntaxErrorFound
  BY <1>7 DEF SyntaxErrorFound, LoopsInv
<1>8. Next => Steady \/ ProcedureHeader \/ ProcedureEnd \/ Succeed \/ SyntaxErrorFound
              \/ LexicalError \/ UNCHANGED vars
  BY DEF Next, Steady, Quiet, Operating, Done
<1> QED BY <1>1, <1>2, <1>3, <1>4, <1>5, <1>6, <1>7, <1>8

\* Every program there can be: what is filled in is of the right type, and no
\* jump leads astray (Assembler.cpp:30-65, 156-185).
THEOREM LoopsInvariance == Spec => []LoopsInv
BY InitLoopsInv, NextKeepsLoops, MarksInvariance, MainStaysAtBottom, Invariance, PTL DEF Spec

\* In the finished code every jump back closes a loop, which the condition at
\* its head leaves to the instruction behind the jump (Assembler.cpp:168-185).
THEOREM LoopsLeaveHolds == Spec => []LoopsLeave
<1>1. LoopsInv => LoopsLeave
  <2> SUFFICES ASSUME LoopsInv, status = "succeeded", lexErrors = 0, NEW j \in Jumps, At(j).a <= j
               PROVE  \E c \in At(j).a..(j - 1) : At(c).type = "JPC" /\ At(c).a = j + 1
    BY DEF LoopsLeave, Plain
  <2>1. /\ j \in 0..(Len(code) - 1) /\ code[j + 1].type \in JumpTypes /\ code[j + 1].a <= j
    BY DEF Jumps, Addresses, length, At, JumpTypes
  <2>2. code[j + 1].a # 0 /\ JumpsLead(code) /\ code \in Seq(Instructions)
    BY DEF LoopsInv, At
  <2>3. Leads(code, j)
    BY <2>1, <2>2 DEF JumpsLead
  <2>4. code[j + 1].a \in Int
    <3>1. j + 1 \in 1..Len(code)
      BY <2>1, <2>2
    <3>2. code[j + 1] \in Instructions
      BY <2>2, <3>1
    <3> QED BY <3>2 DEF Instructions
  <2>5. PICK m \in 0..(j - 1) : code[j + 1].a <= m /\ code[m + 1].type = "JPC" /\ code[m + 1].a = j + 1
    BY <2>1, <2>3, <2>4 DEF Leads
  <2>6. m \in At(j).a..(j - 1)
    BY <2>4, <2>5 DEF At
  <2> QED BY <2>5, <2>6 DEF At
<1> QED BY <1>1, LoopsInvariance, PTL

----------------------------------------------------------------------------
(***************************************************************************)
(* The instructions a condition guards, in code that is still being        *)
(* emitted: those behind it up to the one it goes to when it is false, or  *)
(* all that are still to come.                                             *)
(***************************************************************************)

Conditions(p) == {c \in 0..(Len(p) - 1) : p[c + 1].type = "JPC"}
Targeted(p) == {j \in 0..(Len(p) - 1) : p[j + 1].type \in JumpTypes /\ p[j + 1].a # 0}
Exit(p, c) == IF Blank(p[c + 1]) THEN Len(p) ELSE p[c + 1].a
Guards(p, c, x) == c < x /\ (Blank(p[c + 1]) \/ x < p[c + 1].a)

\* A condition leads forward, and what it guards and the instruction behind
\* belong to one block; o are the blocks of the instructions.
Regions(p, o) == \A c \in Conditions(p) :
  /\ c < Exit(p, c) /\ Exit(p, c) <= Len(p)
  /\ \A a \in c..Exit(p, c) : a < Len(p) => o[a + 1] = o[c + 1]

\* If the next instruction is going to be one of these, the block is s.
OpenIn(p, o, s) == \A c \in Conditions(p) : Exit(p, c) = Len(p) => o[c + 1] = s
NoneOpen(p) == \A c \in Conditions(p) : Exit(p, c) # Len(p)

\* Jumps go to instructions, or the next, and from inside to what is guarded.
Contained(p) == \A j \in Targeted(p) :
  /\ p[j + 1].a <= Len(p)
  /\ \A c \in Conditions(p) : Guards(p, c, p[j + 1].a) => j = c \/ Guards(p, c, j)

\* A jump to these addresses from anywhere would do no harm; ...
Outside(p, X) == \A x \in X : x <= Len(p) /\ \A c \in Conditions(p) : ~Guards(p, c, x)
\* ... nor would one from the end of the code.
Reachable(p, X) == \A x \in X :
  x <= Len(p) /\ \A c \in Conditions(p) : Blank(p[c + 1]) \/ ~Guards(p, c, x)

\* The conditions when the code goes on from p to q: old ones, new ones without a
\* target, and old ones that get their target at the end of the code.
Onward(p, q) ==
  /\ Len(q) >= Len(p)
  /\ \A c \in Conditions(q) :
       \/ c \in Conditions(p) /\ q[c + 1] = p[c + 1]
       \/ c >= Len(p) /\ Blank(q[c + 1])
       \/ c \in Conditions(p) /\ Blank(p[c + 1]) /\ q[c + 1].a \in Len(p)..Len(q)

\* What a condition is like.
LEMMA ConditionAt ==
  ASSUME NEW p \in Seq(Instructions), NEW c \in Conditions(p)
  PROVE  c \in Nat /\ c < Len(p) /\ Len(p) \in Nat /\ p[c + 1].a \in Int
<1>1. c \in 0..(Len(p) - 1) /\ Len(p) \in Nat
  BY DEF Conditions
<1>2. c + 1 \in 1..Len(p)
  BY <1>1
<1>3. p[c + 1] \in Instructions
  BY <1>2
<1> QED BY <1>1, <1>3 DEF Instructions

\* What is guarded goes on to belong to one block when the code goes on in block s.
LEMMA RegionsGrow ==
  ASSUME NEW p \in Seq(Instructions), NEW q \in Seq(Instructions), Onward(p, q),
         NEW o, NEW oq, NEW s,
         \A k \in 1..Len(p) : oq[k] = o[k],
         \A k \in (Len(p) + 1)..Len(q) : oq[k] = s,
         Regions(p, o), OpenIn(p, o, s)
  PROVE  Regions(q, oq) /\ OpenIn(q, oq, s)
<1>1. Len(p) \in Nat /\ Len(q) \in Nat /\ Len(q) >= Len(p)
  BY DEF Onward
<1>2. ASSUME NEW c \in Conditions(q)
      PROVE  /\ c < Exit(q, c) /\ Exit(q, c) <= Len(q)
             /\ \A a \in c..Exit(q, c) : a < Len(q) => oq[a + 1] = oq[c + 1]
             /\ Exit(q, c) = Len(q) => oq[c + 1] = s
  <2>1. c \in Nat /\ c < Len(q) /\ q[c + 1].a \in Int
    BY ConditionAt
  <2>2. Exit(q, c) \in Int
    BY <1>1, <2>1 DEF Exit
  <2>3. ASSUME NEW a \in Nat, a >= Len(p), a < Len(q) PROVE oq[a + 1] = s
    <3>1. a + 1 \in (Len(p) + 1)..Len(q)
      BY <1>1, <2>3
    <3> QED BY <3>1
  <2>4. ASSUME c \in Conditions(p),
               \/ q[c + 1] = p[c + 1]
               \/ Blank(p[c + 1]) /\ q[c + 1].a \in Len(p)..Len(q)
        PROVE  /\ c < Exit(q, c) /\ Exit(q, c) <= Len(q)
               /\ \A a \in c..Exit(q, c) : a < Len(q) => oq[a + 1] = oq[c + 1]
               /\ Exit(q, c) = Len(q) => oq[c + 1] = s
    <3>1. c < Len(p) /\ p[c + 1].a \in Int
      BY <2>4, ConditionAt
    <3>2. /\ c < Exit(p, c) /\ Exit(p, c) <= Len(p)
          /\ \A a \in c..Exit(p, c) : a < Len(p) => o[a + 1] = o[c + 1]
      BY <2>4 DEF Regions
    <3>3. Exit(p, c) = Len(p) => o[c + 1] = s
      BY <2>4 DEF OpenIn
    <3>4. Exit(p, c) \in Int
      BY <1>1, <3>1 DEF Exit
    <3>5. \/ Exit(q, c) = Exit(p, c)
          \/ Exit(p, c) = Len(p) /\ Exit(q, c) >= Len(p) /\ Exit(q, c) <= Len(q)
      <4>1. CASE q[c + 1] = p[c + 1]
        BY <1>1, <4>1 DEF Exit
      <4>2. CASE Blank(p[c + 1]) /\ q[c + 1].a \in Len(p)..Len(q)
        BY <1>1, <4>2 DEF Exit
      <4> QED BY <2>4, <4>1, <4>2
    <3>6. oq[c + 1] = o[c + 1]
      <4>1. c + 1 \in 1..Len(p)
        BY <1>1, <2>1, <3>1
      <4> QED BY <4>1
    <3>7. c < Exit(q, c) /\ Exit(q, c) <= Len(q)
      <4>1. c < Exit(p, c) /\ Exit(p, c) <= Len(p)
        BY <3>2
      <4>2. c \in Nat
        BY <2>1
      <4>3. CASE Exit(q, c) = Exit(p, c)
        BY <1>1, <3>4, <4>1, <4>3
      <4>4. CASE Exit(p, c) = Len(p) /\ Exit(q, c) >= Len(p) /\ Exit(q, c) <= Len(q)
        BY <1>1, <2>2, <4>1, <4>2, <4>4
      <4> QED BY <3>5, <4>3, <4>4
    <3>8. ASSUME NEW a \in c..Exit(q, c), a < Len(q) PROVE oq[a + 1] = oq[c + 1]
      <4>1. a \in Nat
        BY <2>1, <2>2
      <4>2. CASE a < Len(p)
        <5>1. a \in c..Exit(p, c)
          BY <1>1, <2>1, <2>2, <3>4, <3>5, <4>1, <4>2
        <5>2. a + 1 \in 1..Len(p)
          BY <1>1, <4>1, <4>2
        <5> QED BY <3>2, <3>6, <4>2, <5>1, <5>2
      <4>3. CASE a >= Len(p)
        <5>1. Exit(p, c) = Len(p)
          BY <1>1, <2>2, <3>2, <3>4, <3>5, <4>1, <4>3
        <5>2. oq[a + 1] = s
          BY <2>3, <3>8, <4>1, <4>3
        <5> QED BY <3>3, <3>6, <5>1, <5>2
      <4> QED BY <1>1, <4>1, <4>2, <4>3
    <3>9. ASSUME Exit(q, c) = Len(q) PROVE oq[c + 1] = s
      <4>1. Exit(p, c) = Len(p)
        BY <1>1, <3>2, <3>4, <3>5, <3>9
      <4> QED BY <3>3, <3>6, <4>1
    <3> QED BY <3>7, <3>8, <3>9
  <2>5. CASE c >= Len(p) /\ Blank(q[c + 1])
    <3>1. Exit(q, c) = Len(q)
      BY <2>5 DEF Exit
    <3>2. oq[c + 1] = s
      BY <2>1, <2>3, <2>5
    <3>3. ASSUME NEW a \in c..Exit(q, c), a < Len(q) PROVE oq[a + 1] = s
      <4>1. a \in Nat /\ a >= Len(p)
        BY <1>1, <2>1, <2>5, <3>1
      <4> QED BY <2>3, <3>3, <4>1
    <3> QED BY <1>1, <2>1, <3>1, <3>2, <3>3
  <2> QED BY <2>4, <2>5 DEF Onward
<1> QED BY <1>2 DEF Regions, OpenIn

\* Where jumps may go, when the code goes on: only jumps with a new target are to be looked at.
LEMMA ContainedGrows ==
  ASSUME NEW p \in Seq(Instructions), NEW q \in Seq(Instructions), Onward(p, q), Contained(p),
         \A j \in Targeted(q) :
           \/ j \in Targeted(p) /\ q[j + 1] = p[j + 1]
           \/ /\ q[j + 1].a <= Len(q)
              /\ \A c \in Conditions(q) : Guards(q, c, q[j + 1].a) => j = c \/ Guards(q, c, j)
  PROVE  Contained(q)
<1>1. Len(p) \in Nat /\ Len(q) \in Nat /\ Len(q) >= Len(p)
  BY DEF Onward
<1>2. ASSUME NEW j \in Targeted(p), q[j + 1] = p[j + 1]
      PROVE  /\ q[j + 1].a <= Len(q)
             /\ \A c \in Conditions(q) : Guards(q, c, q[j + 1].a) => j = c \/ Guards(q, c, j)
  <2>1. j \in Nat /\ j < Len(p) /\ p[j + 1].a \in Int
    <3>1. j \in 0..(Len(p) - 1)
      BY DEF Targeted
    <3>2. j + 1 \in 1..Len(p)
      BY <1>1, <3>1
    <3>3. p[j + 1] \in Instructions
      BY <3>2
    <3> QED BY SMTT(60), <1>1, <3>1, <3>3 DEF Instructions
  <2>2. /\ p[j + 1].a <= Len(p)
        /\ \A c \in Conditions(p) : Guards(p, c, p[j + 1].a) => j = c \/ Guards(p, c, j)
    BY DEF Contained
  <2>3. q[j + 1].a <= Len(q)
    BY <1>1, <1>2, <2>1, <2>2
  <2>4. ASSUME NEW c \in Conditions(q), Guards(q, c, q[j + 1].a) PROVE j = c \/ Guards(q, c, j)
    <3>1. c \in Nat /\ q[c + 1].a \in Int
      BY ConditionAt
    <3>2. CASE c \in Conditions(p) /\ q[c + 1] = p[c + 1]
      BY <1>2, <2>2, <2>4, <3>2 DEF Guards
    <3>3. CASE c >= Len(p) /\ Blank(q[c + 1])
      <4>1. c < p[j + 1].a
        BY <1>2, <2>4 DEF Guards
      <4> QED BY <1>1, <2>1, <2>2, <3>1, <3>3, <4>1
    <3>4. CASE c \in Conditions(p) /\ Blank(p[c + 1]) /\ q[c + 1].a \in Len(p)..Len(q)
      <4>1. Guards(p, c, p[j + 1].a)
        BY <1>2, <2>4, <3>4 DEF Guards
      <4>2. j = c \/ c < j
        BY <2>2, <3>4, <4>1 DEF Guards
      <4>3. j < q[c + 1].a
        BY <1>1, <2>1, <3>1, <3>4
      <4> QED BY <4>2, <4>3 DEF Guards
    <3> QED BY <3>2, <3>3, <3>4 DEF Onward
  <2> QED BY <2>3, <2>4
<1> QED BY <1>2 DEF Contained

\* What is outside of all that is guarded stays so.
LEMMA OutsideGrows ==
  ASSUME NEW p \in Seq(Instructions), NEW q \in Seq(Instructions), Onward(p, q),
         NEW X \in SUBSET Nat, Outside(p, X)
  PROVE  Outside(q, X)
<1>1. Len(p) \in Nat /\ Len(q) \in Nat /\ Len(q) >= Len(p)
  BY DEF Onward
<1> SUFFICES ASSUME NEW x \in X, NEW c \in Conditions(q)
             PROVE  x <= Len(q) /\ ~Guards(q, c, x)
  <2>1. \A x \in X : x <= Len(q)
    BY <1>1 DEF Outside
  <2> QED BY <2>1 DEF Outside
<1>2. x \in Nat /\ x <= Len(p) /\ x <= Len(q)
  BY <1>1 DEF Outside
<1>3. c \in Nat
  BY ConditionAt
<1>4. CASE c \in Conditions(p) /\ q[c + 1] = p[c + 1]
  BY <1>2, <1>4 DEF Outside, Guards
<1>5. CASE c >= Len(p) /\ Blank(q[c + 1])
  BY <1>1, <1>2, <1>3, <1>5 DEF Guards
<1>6. CASE c \in Conditions(p) /\ Blank(p[c + 1]) /\ q[c + 1].a \in Len(p)..Len(q)
  BY <1>2, <1>6 DEF Outside, Guards
<1> QED BY <1>4, <1>5, <1>6 DEF Onward

\* So does what is reachable from the end of the code, if the conditions that get their
\* target come after it.
LEMMA ReachableGrows ==
  ASSUME NEW p \in Seq(Instructions), NEW q \in Seq(Instructions), Onward(p, q),
         NEW X \in SUBSET Nat, Reachable(p, X),
         \A c \in Conditions(p) : Blank(p[c + 1]) /\ ~Blank(q[c + 1]) => \A x \in X : x <= c
  PROVE  Reachable(q, X)
<1>1. Len(p) \in Nat /\ Len(q) \in Nat /\ Len(q) >= Len(p)
  BY DEF Onward
<1> SUFFICES ASSUME NEW x \in X, NEW c \in Conditions(q)
             PROVE  x <= Len(q) /\ (Blank(q[c + 1]) \/ ~Guards(q, c, x))
  <2>1. \A x \in X : x <= Len(q)
    BY <1>1 DEF Reachable
  <2> QED BY <2>1 DEF Reachable
<1>2. x \in Nat /\ x <= Len(p) /\ x <= Len(q)
  BY <1>1 DEF Reachable
<1>3. c \in Nat
  BY ConditionAt
<1>4. CASE c \in Conditions(p) /\ q[c + 1] = p[c + 1]
  BY <1>2, <1>4 DEF Reachable, Guards
<1>5. CASE c >= Len(p) /\ Blank(q[c + 1])
  BY <1>2, <1>5
<1>6. CASE c \in Conditions(p) /\ Blank(p[c + 1]) /\ q[c + 1].a \in Len(p)..Len(q)
  <2>1. ASSUME ~Blank(q[c + 1]) PROVE ~Guards(q, c, x)
    <3>1. x <= c
      BY <1>6, <2>1
    <3> QED BY <1>2, <1>3, <3>1 DEF Guards
  <2> QED BY <1>2, <2>1
<1> QED BY <1>4, <1>5, <1>6 DEF Onward

\* When no condition lacks its target and something else is emitted, what follows is not guarded.
LEMMA NoneOpenAfter ==
  ASSUME NEW p \in Seq(Instructions), NEW q \in Seq(Instructions), Len(q) > Len(p), NEW o,
         Regions(p, o), \A c \in Conditions(p) : ~Blank(p[c + 1]),
         \A c \in Conditions(q) : c \in Conditions(p) /\ q[c + 1] = p[c + 1]
  PROVE  NoneOpen(q)
<1> SUFFICES ASSUME NEW c \in Conditions(q) PROVE Exit(q, c) # Len(q)
  BY DEF NoneOpen
<1>1. c \in Conditions(p) /\ q[c + 1] = p[c + 1] /\ ~Blank(p[c + 1])
  OBVIOUS
<1>2. p[c + 1].a \in Int /\ Len(p) \in Nat /\ Len(q) \in Nat
  BY <1>1, ConditionAt
<1>3. Exit(q, c) = p[c + 1].a
  BY <1>1 DEF Exit
<1>4. p[c + 1].a <= Len(p)
  BY <1>1 DEF Regions, Exit
<1> QED BY <1>2, <1>3, <1>4

\* The code goes on by e, in which no jump has a target: ...
LEMMA OnwardByAdding ==
  ASSUME NEW p \in Seq(Instructions), NEW e \in Seq(Instructions), Targetless(e)
  PROVE  LET q == p \o e
         IN  /\ q \in Seq(Instructions) /\ Len(q) = Len(p) + Len(e)
             /\ Onward(p, q)
             /\ \A j \in Targeted(q) : j \in Targeted(p) /\ q[j + 1] = p[j + 1]
             /\ \A c \in Conditions(p) : q[c + 1] = p[c + 1]
             /\ (\A k \in 1..Len(e) : e[k].type # "JPC") =>
                  \A c \in Conditions(q) : c \in Conditions(p) /\ q[c + 1] = p[c + 1]
<1> DEFINE q == p \o e
<1>1. /\ q \in Seq(Instructions) /\ Len(q) = Len(p) + Len(e)
      /\ \A k \in 1..Len(p) : q[k] = p[k]
      /\ \A k \in 1..Len(e) : q[Len(p) + k] = e[k]
  BY KeptByAdding
<1>2. Len(p) \in Nat /\ Len(e) \in Nat
  OBVIOUS
<1> HIDE DEF q
<1>3. ASSUME NEW j \in 0..(Len(q) - 1)
      PROVE  \/ j \in 0..(Len(p) - 1) /\ q[j + 1] = p[j + 1]
             \/ j >= Len(p) /\ \E k \in 1..Len(e) : q[j + 1] = e[k]
  <2>1. CASE j < Len(p)
    <3>1. j \in 0..(Len(p) - 1) /\ j + 1 \in 1..Len(p)
      BY <1>2, <2>1
    <3> QED BY <1>1, <3>1
  <2>2. CASE j >= Len(p)
    <3> DEFINE k == (j - Len(p)) + 1
    <3>1. k \in 1..Len(e) /\ Len(p) + k = j + 1
      BY <1>1, <1>2, <2>2
    <3> HIDE DEF k
    <3>2. q[Len(p) + k] = e[k]
      BY <1>1, <3>1
    <3> QED BY <2>2, <3>1, <3>2
  <2> QED BY <1>2, <2>1, <2>2
<1>4. ASSUME NEW c \in Conditions(q)
      PROVE  \/ c \in Conditions(p) /\ q[c + 1] = p[c + 1]
             \/ c >= Len(p) /\ Blank(q[c + 1]) /\ \E k \in 1..Len(e) : e[k].type = "JPC"
  <2>1. c \in 0..(Len(q) - 1) /\ q[c + 1].type = "JPC"
    BY DEF Conditions
  <2>2. CASE c \in 0..(Len(p) - 1) /\ q[c + 1] = p[c + 1]
    BY <2>1, <2>2 DEF Conditions
  <2>3. CASE c >= Len(p) /\ \E k \in 1..Len(e) : q[c + 1] = e[k]
    BY <2>1, <2>3 DEF Targetless, Blank, JumpTypes
  <2> QED BY <1>3, <2>1, <2>2, <2>3
<1>5. Onward(p, q)
  BY <1>1, <1>2, <1>4 DEF Onward
<1>6. ASSUME NEW j \in Targeted(q) PROVE j \in Targeted(p) /\ q[j + 1] = p[j + 1]
  <2>1. j \in 0..(Len(q) - 1) /\ q[j + 1].type \in JumpTypes /\ q[j + 1].a # 0
    BY DEF Targeted
  <2>2. ~(\E k \in 1..Len(e) : q[j + 1] = e[k])
    BY <2>1 DEF Targetless
  <2> QED BY <1>3, <2>1, <2>2 DEF Targeted
<1>7. ASSUME NEW c \in Conditions(p) PROVE q[c + 1] = p[c + 1]
  <2>1. c + 1 \in 1..Len(p)
    BY <1>2 DEF Conditions
  <2> QED BY <1>1, <2>1
<1> QED BY <1>1, <1>4, <1>5, <1>6, <1>7 DEF q

\* A condition that gets its target at the end of the code: ...
LEMMA OnwardByFilling ==
  ASSUME NEW p \in Seq(Instructions), NEW q \in Seq(Instructions), Len(q) >= Len(p),
         NEW t \in Conditions(p), Blank(p[t + 1]), q[t + 1].a \in Len(p)..Len(q),
         \A b \in 0..(Len(p) - 1) : b # t => q[b + 1] = p[b + 1],
         \A b \in Len(p)..(Len(q) - 1) : q[b + 1].type # "JPC"
  PROVE  /\ Onward(p, q)
         /\ \A j \in Targeted(q) : \/ j \in Targeted(p) /\ q[j + 1] = p[j + 1]
                                   \/ j = t \/ j >= Len(p)
         /\ \A c \in Conditions(q) : c = t \/ (c \in Conditions(p) /\ q[c + 1] = p[c + 1])
<1>1. Len(p) \in Nat /\ Len(q) \in Nat
  OBVIOUS
<1>2. ASSUME NEW j \in 0..(Len(q) - 1), j # t
      PROVE  \/ j \in 0..(Len(p) - 1) /\ q[j + 1] = p[j + 1]
             \/ j \in Len(p)..(Len(q) - 1)
  <2>1. j \in 0..(Len(p) - 1) \/ j \in Len(p)..(Len(q) - 1)
    BY <1>1
  <2> QED BY <1>2, <2>1
<1>3. \A c \in Conditions(q) : c = t \/ (c \in Conditions(p) /\ q[c + 1] = p[c + 1])
  BY <1>2 DEF Conditions
<1>4. \A j \in Targeted(q) : \/ j \in Targeted(p) /\ q[j + 1] = p[j + 1]
                             \/ j = t \/ j >= Len(p)
  BY <1>1, <1>2 DEF Targeted
<1> QED BY <1>1, <1>3, <1>4 DEF Onward

\* ... or the prologue of a block that is finished: no condition changes, and only the
\* block's JMP gets a target.
LEMMA OnwardByFinishing ==
  ASSUME code \in Seq(Instructions), NEW a \in Blanks(code), NEW b \in Blanks(code),
         NEW x \in Int, NEW y \in Int, code[a + 1].type = "INT", code[b + 1].type = "JMP",
         code' = Backfill(Backfill(code \o insert_opr(OPR_RET), a, x), b, y)
  PROVE  /\ code' \in Seq(Instructions) /\ Len(code') = Len(code) + 1 /\ Onward(code, code')
         /\ \A c \in Conditions(code') : c \in Conditions(code) /\ code'[c + 1] = code[c + 1]
         /\ \A j \in Targeted(code') : \/ j \in Targeted(code) /\ code'[j + 1] = code[j + 1]
                                       \/ j = b /\ code'[j + 1].a = y
<1>1. /\ Kept(code, code') /\ code' \in Seq(Instructions) /\ Len(code') = Len(code) + 1
      /\ code'[Len(code) + 1].type = "OPR" /\ code'[b + 1].a = y
  BY FinishedCode
<1>2. \A j \in 0..(Len(code) - 1) : j # a /\ j # b => code'[j + 1] = code[j + 1]
  BY FinishedRest
<1>3. a \in 0..(Len(code) - 1) /\ b \in 0..(Len(code) - 1) /\ Len(code) \in Nat
  BY DEF Blanks
<1>4. code'[a + 1].type = "INT" /\ code'[b + 1].type = "JMP"
  <2>1. a + 1 \in 1..Len(code) /\ b + 1 \in 1..Len(code)
    BY <1>3
  <2> QED BY <1>1, <2>1 DEF Kept
<1>5. ASSUME NEW j \in 0..(Len(code') - 1), code'[j + 1].type \in JumpTypes
      PROVE  \/ j = b /\ code'[j + 1].a = y
             \/ j # b /\ j \in 0..(Len(code) - 1) /\ code'[j + 1] = code[j + 1]
  <2>1. j # a /\ j # Len(code)
    BY <1>1, <1>4, <1>5 DEF JumpTypes
  <2>2. j = b \/ (j # b /\ j \in 0..(Len(code) - 1))
    BY <1>1, <1>3, <2>1
  <2> QED BY <1>1, <1>2, <2>1, <2>2
<1>6. \A j \in Targeted(code') : \/ j \in Targeted(code) /\ code'[j + 1] = code[j + 1]
                                 \/ j = b /\ code'[j + 1].a = y
  BY <1>5 DEF Targeted
<1>7. \A c \in Conditions(code') : c \in Conditions(code) /\ code'[c + 1] = code[c + 1]
  <2> SUFFICES ASSUME NEW c \in Conditions(code')
               PROVE  c \in Conditions(code) /\ code'[c + 1] = code[c + 1]
    OBVIOUS
  <2>1. c \in 0..(Len(code') - 1) /\ code'[c + 1].type = "JPC"
    BY DEF Conditions
  <2>2. c # b
    BY <1>4, <2>1
  <2>3. c \in 0..(Len(code) - 1) /\ code'[c + 1] = code[c + 1]
    BY <1>5, <2>1, <2>2 DEF JumpTypes
  <2> QED BY <2>1, <2>3 DEF Conditions
<1>8. Onward(code, code')
  BY <1>1, <1>3, <1>7 DEF Onward
<1> QED BY <1>1, <1>6, <1>7, <1>8

----------------------------------------------------------------------------
(***************************************************************************)
(* The inductive invariant: what conditions guard is entered through them  *)
(* only, while no lexical error has been found.                            *)
(***************************************************************************)

\* Where the JMPs on the stack are going to lead.
Bodies == {e.proc_body : e \in ToSet(proc_body_backfill)}

GuardInv == lexErrors = 0 =>
  /\ status = "parsing" =>
       /\ Regions(code, owner) /\ Contained(code)
       /\ Phase(items) = 4 => OpenIn(code, owner, proc_int_backfill)
       /\ Phase(items) # 4 => NoneOpen(code)
       /\ Outside(code, Bodies)
       /\ Reachable(code, ToSet(while_entry_backfill))
  /\ status = "succeeded" =>
       code \in Seq(Instructions) /\ Regions(code, owner) /\ Contained(code) /\ NoneOpen(code)

\* A condition without a target is on one of the two stacks of conditions.
LEMMA BlankConditions ==
  ASSUME IInv, status = "parsing", Patches, NEW c \in Conditions(code), Blank(code[c + 1])
  PROVE  c \in ToSet(if_not_backfill) \cup ToSet(while_not_backfill)
<1>1. AllQueued
  BY BeforeReduction
<1>2. c \in Blanks(code) /\ code[c + 1].type = "JPC"
  BY DEF Conditions, Blanks
<1>3. c \notin ToSet(proc_int_backfill) /\ c \notin ToSet(JmpsOf(proc_body_backfill))
  BY <1>2 DEF Patches, Typed
<1> QED BY <1>1, <1>2, <1>3 DEF AllQueued, Queues

\* Instructions are emitted by statements, whose block is the innermost one.
LEMMA BlockOfStatement ==
  ASSUME IInv, SInv, BlocksInv, status = "parsing", lexErrors = 0, r \notin Declarations
  PROVE  Phase(items) = 4 /\ open = proc_int_backfill
<1>1. OnTrack(items) /\ proc_int_backfill \in Seq(Nat)
  BY BeforeReduction
<1>2. BlocksOpen /\ open \in Seq(Nat)
  BY DEF BlocksInv, SInv, Owned
<1>3. r = items[Len(items)].rule
  BY <1>1, Innermost
<1>4. ~Ended(items) /\ ~Leaving(items)
  BY <1>3 DEF Ended, Leaving, HasLeft, Declarations
<1>5. Phase(items) = 4
  <2> DEFINE it == items[Len(items)]
  <2>1. it = items[Len(items)] /\ it.rule = r
    BY <1>3
  <2> HIDE DEF it
  <2> QED BY <1>1, <2>1, PhaseOfItem
<1>6. /\ Len(open) = Len(proc_int_backfill) /\ Len(open) \in Nat
      /\ \A d \in 1..Len(open) : open[d] = proc_int_backfill[d]
  BY <1>1, <1>2, <1>4 DEF BlocksOpen, Gap
<1> QED BY SMTT(60), <1>1, <1>2, <1>5, <1>6


\* What is left to show when a statement adds instructions or fills one in.
LEMMA GuardsGrow ==
  ASSUME IInv, SInv, GuardInv, lexErrors = 0, status = "parsing", lexErrors' = 0,
         status' = "parsing", Onward(code, code'), OwnersKept, code' \in Seq(Instructions),
         \A k \in (Len(code) + 1)..Len(code') : owner'[k] = proc_int_backfill,
         UNCHANGED <<proc_int_backfill, proc_body_backfill>>,
         Phase(items) = 4, Phase(items') = 4,
         Contained(code'), Reachable(code', ToSet(while_entry_backfill'))
  PROVE  GuardInv'
<1>1. /\ Regions(code, owner) /\ OpenIn(code, owner, proc_int_backfill)
      /\ Outside(code, Bodies)
  BY DEF GuardInv
<1>2. code \in Seq(Instructions) /\ proc_body_backfill \in Seq(BodyEntries)
  BY BeforeReduction
<1>3. Regions(code', owner') /\ OpenIn(code', owner', proc_int_backfill)
  <2>1. \A k \in 1..Len(code) : owner'[k] = owner[k]
    BY DEF OwnersKept
  <2> QED BY <1>1, <1>2, <2>1, RegionsGrow
<1>4. Bodies' = Bodies
  BY DEF Bodies
<1>5. Bodies \in SUBSET Nat
  <2> SUFFICES ASSUME NEW k \in DOMAIN proc_body_backfill PROVE proc_body_backfill[k].proc_body \in Nat
    BY DEF Bodies, ToSet
  <2>1. proc_body_backfill[k] \in BodyEntries
    BY <1>2
  <2> QED BY <2>1 DEF BodyEntries
<1>6. Outside(code', Bodies)
  BY <1>1, <1>2, <1>5, OutsideGrows
<1> QED BY <1>3, <1>4, <1>6 DEF GuardInv

\* A statement adds instructions, of which no jump has a target.
LEMMA AddingKeepsGuards ==
  ASSUME ~Siblings, IInv, SInv, BlocksInv, GuardInv, lexErrors = 0, Steady, status' = "parsing",
         NEW e \in Seq(Instructions), Targetless(e), insert(e), r \notin Declarations,
         UNCHANGED <<proc_body_backfill, while_entry_backfill>>
  PROVE  GuardInv'
<1>1. /\ status = "parsing" /\ UNCHANGED <<proc_int_backfill, lexErrors>>
      /\ Phase(items) <= Phase(items') /\ Phase(items) \in {1, 2, 3, 4} /\ Phase(items') \in {1, 2, 3, 4}
  BY SteadyOrLeft
<1>2. Contained(code) /\ Reachable(code, ToSet(while_entry_backfill))
  BY <1>1 DEF GuardInv
<1>3. Phase(items) = 4 /\ open = proc_int_backfill
  BY <1>1, BlockOfStatement
<1>4. Phase(items') = 4
  BY <1>1, <1>3
<1>5. code \in Seq(Instructions) /\ while_entry_backfill \in Seq(Nat \ {0})
  BY <1>1, BeforeReduction
<1>6. code' = code \o e
  BY DEF insert
<1>7. /\ code' \in Seq(Instructions) /\ Len(code') = Len(code) + Len(e)
      /\ Onward(code, code')
      /\ \A j \in Targeted(code') : j \in Targeted(code) /\ code'[j + 1] = code[j + 1]
      /\ \A c \in Conditions(code) : code'[c + 1] = code[c + 1]
  BY <1>5, <1>6, OnwardByAdding
<1>8. OwnersKept /\ \A k \in 1..Len(e) : owner'[Len(code) + k] = open
  BY <1>5, OwnersAdded
<1>9. ASSUME NEW k \in (Len(code) + 1)..Len(code') PROVE owner'[k] = proc_int_backfill
  <2>1. k - Len(code) \in 1..Len(e) /\ Len(code) + (k - Len(code)) = k
    BY <1>5, <1>7
  <2> QED BY <1>3, <1>8, <2>1
<1>10. Contained(code')
  BY <1>2, <1>5, <1>7, ContainedGrows
<1>11. Reachable(code', ToSet(while_entry_backfill'))
  <2> DEFINE X == ToSet(while_entry_backfill)
  <2>1. X \in SUBSET Nat
    BY <1>5 DEF ToSet
  <2>2. \A c \in Conditions(code) : Blank(code[c + 1]) /\ ~Blank(code'[c + 1]) => \A x \in X : x <= c
    BY <1>7
  <2>3. Reachable(code, X)
    BY <1>2
  <2> HIDE DEF X
  <2>4. Reachable(code', X)
    BY <1>5, <1>7, <2>1, <2>2, <2>3, ReachableGrows
  <2> QED BY <2>4 DEF X
<1> QED BY <1>1, <1>3, <1>4, <1>7, <1>8, <1>9, <1>10, <1>11, GuardsGrow

\* The statements and expressions that are neither if nor loop, and declarations.
LEMMA StraightKeepsGuards ==
  ASSUME ~Siblings, IInv, SInv, BlocksInv, GuardInv, lexErrors = 0, Steady, ~ControlStep,
         status' = "parsing"
  PROVE  GuardInv'
<1>1. /\ status = "parsing" /\ Phase(items) <= Phase(items')
      /\ Phase(items) \in {1, 2, 3, 4} /\ Phase(items') \in {1, 2, 3, 4}
  BY SteadyOrLeft
<1>2. UNCHANGED stacks
  BY DEF Steady, Quiet, Operating, ControlStep, Expand, Shift, Default, Declare, ReadOperator,
     ApplyOperator, Assertion, EmitSimple, Assign, stacks
<1>3. UNCHANGED <<proc_int_backfill, proc_body_backfill, while_entry_backfill>>
  BY <1>2 DEF stacks, procStacks, whileStacks
<1>4. PICK e \in Seq(Instructions) :
        /\ JumpFree(e) /\ code' = code \o e
        /\ (insert(e) /\ r \notin Declarations) \/ UNCHANGED <<code, owner>>
  BY StraightCode
<1>5. CASE UNCHANGED <<code, owner>>
  <2>1. /\ Regions(code, owner) /\ Contained(code)
        /\ Phase(items) = 4 => OpenIn(code, owner, proc_int_backfill)
        /\ Phase(items) # 4 => NoneOpen(code)
        /\ Outside(code, Bodies)
        /\ Reachable(code, ToSet(while_entry_backfill))
    BY <1>1 DEF GuardInv
  <2>2. Bodies' = Bodies
    BY <1>3 DEF Bodies
  <2>3. Phase(items') = 4 => OpenIn(code, owner, proc_int_backfill)
    BY <2>1 DEF OpenIn, NoneOpen
  <2>4. Phase(items') # 4 => Phase(items) # 4
    BY <1>1
  <2> QED BY <1>3, <1>5, <2>1, <2>2, <2>3, <2>4 DEF GuardInv
<1>6. CASE insert(e) /\ r \notin Declarations
  <2>1. Targetless(e)
    BY <1>4 DEF JumpFree, Targetless
  <2> QED BY <1>3, <1>6, <2>1, AddingKeepsGuards
<1> QED BY <1>4, <1>5, <1>6

\* A condition is emitted (Assembler.cpp:156, 173).
LEMMA HeaderKeepsGuards ==
  ASSUME ~Siblings, IInv, SInv, BlocksInv, GuardInv, lexErrors = 0, IfHeader \/ WhileHeader,
         status' = "parsing"
  PROVE  GuardInv'
<1> DEFINE e == <<inst_t("JPC", 0, 0)>>
<1>1. /\ r \in {"CONDHEADER", "WHILEHEADER"} /\ insert(e)
      /\ UNCHANGED <<proc_body_backfill, while_entry_backfill>>
  BY DEF IfHeader, WhileHeader, Reducing, procStacks, whileStacks
<1>2. Steady
  BY DEF Steady, Quiet, Operating
<1>3. e \in Seq(Instructions) /\ Targetless(e)
  <2> DEFINE i == inst_t("JPC", 0, 0)
  <2>1. i \in Instructions /\ i.a = 0
    BY DEF inst_t, Instructions, InstTypes
  <2> HIDE DEF i
  <2>2. <<i>> \in Seq(Instructions) /\ Targetless(<<i>>)
    BY <2>1 DEF Targetless
  <2> QED BY <2>2 DEF i
<1>4. r \notin Declarations
  BY <1>1 DEF Declarations
<1> HIDE DEF e
<1> QED BY <1>1, <1>2, <1>3, <1>4, AddingKeepsGuards

\* A loop begins: a jump to its first instruction, the next there will be, does no
\* harm (Assembler.cpp:168).
LEMMA WhileEntryKeepsGuards ==
  ASSUME ~Siblings, IInv, SInv, BlocksInv, GuardInv, lexErrors = 0, WhileEntry, status' = "parsing"
  PROVE  GuardInv'
<1>1. /\ UNCHANGED <<code, owner, proc_int_backfill, proc_body_backfill>>
      /\ while_entry_backfill' = Append(while_entry_backfill, length) /\ r = "WHILEFLAG"
  BY DEF WhileEntry, Reducing, procStacks
<1>2. Steady
  BY DEF Steady, Quiet
<1>3. /\ status = "parsing" /\ Phase(items) <= Phase(items')
      /\ Phase(items) \in {1, 2, 3, 4} /\ Phase(items') \in {1, 2, 3, 4}
  BY <1>2, SteadyOrLeft
<1>4. /\ Regions(code, owner) /\ Contained(code)
      /\ Phase(items) = 4 => OpenIn(code, owner, proc_int_backfill)
      /\ Outside(code, Bodies)
      /\ Reachable(code, ToSet(while_entry_backfill))
  BY <1>3 DEF GuardInv
<1>5. r \notin Declarations
  BY <1>1 DEF Declarations
<1>6. Phase(items) = 4 /\ Phase(items') = 4
  BY <1>3, <1>5, BlockOfStatement
<1>7. /\ code \in Seq(Instructions) /\ while_entry_backfill \in Seq(Nat \ {0})
      /\ length = Len(code) /\ length \in Nat /\ length >= 2
  BY <1>3, BeforeReduction
<1>8. ToSet(while_entry_backfill') = ToSet(while_entry_backfill) \cup {length}
  BY <1>1, <1>7, Pushed
<1>9. ASSUME NEW c \in Conditions(code) PROVE Blank(code[c + 1]) \/ ~Guards(code, c, length)
  <2>1. code[c + 1].a \in Int
    BY <1>7, ConditionAt
  <2>2. ~Blank(code[c + 1]) => code[c + 1].a <= length
    BY <1>4, <1>7 DEF Regions, Exit
  <2> QED BY <1>7, <2>1, <2>2 DEF Guards
<1>10. Reachable(code, ToSet(while_entry_backfill'))
  BY <1>4, <1>7, <1>8, <1>9 DEF Reachable
<1>11. Bodies' = Bodies
  BY <1>1 DEF Bodies
<1> QED BY <1>1, <1>4, <1>6, <1>10, <1>11 DEF GuardInv

\* The innermost condition gets its target, the end of the code; a jump that is emitted
\* with it goes back to where a loop began.
LEMMA FillingKeepsGuards ==
  ASSUME ~Siblings, IInv, SInv, BlocksInv, Patches, GuardInv, lexErrors = 0, Steady,
         status' = "parsing", r \notin Declarations, UNCHANGED proc_body_backfill,
         code' \in Seq(Instructions), Len(code') >= Len(code),
         NEW t \in Conditions(code), Blank(code[t + 1]), code'[t + 1].a = Len(code'),
         \A b \in 0..(Len(code) - 1) : b # t => code'[b + 1] = code[b + 1],
         \A b \in Len(code)..(Len(code') - 1) :
           code'[b + 1].type # "JPC" /\ code'[b + 1].a \in ToSet(while_entry_backfill),
         OwnersKept, \A k \in (Len(code) + 1)..Len(code') : owner'[k] = open,
         \A c \in ToSet(if_not_backfill) \cup ToSet(while_not_backfill)
                    \cup ToSet(while_entry_backfill) : c <= t,
         ToSet(while_entry_backfill') \subseteq ToSet(while_entry_backfill)
  PROVE  GuardInv'
<1> DEFINE X == ToSet(while_entry_backfill)
<1>1. /\ status = "parsing" /\ UNCHANGED <<proc_int_backfill, lexErrors>>
      /\ Phase(items) <= Phase(items') /\ Phase(items) \in {1, 2, 3, 4} /\ Phase(items') \in {1, 2, 3, 4}
  BY SteadyOrLeft
<1>2. Regions(code, owner) /\ Contained(code) /\ Reachable(code, X)
  BY <1>1 DEF GuardInv
<1>3. Phase(items) = 4 /\ open = proc_int_backfill
  BY <1>1, BlockOfStatement
<1>4. Phase(items') = 4
  BY <1>1, <1>3
<1>5. /\ code \in Seq(Instructions) /\ while_entry_backfill \in Seq(Nat \ {0})
      /\ Len(code) \in Nat /\ Len(code') \in Nat
  BY <1>1, BeforeReduction
<1>6. X \in SUBSET Nat
  BY <1>5 DEF ToSet
<1>7. t \in Nat /\ t < Len(code)
  BY <1>5, ConditionAt
<1> HIDE DEF X
<1>8. /\ Onward(code, code')
      /\ \A j \in Targeted(code') : \/ j \in Targeted(code) /\ code'[j + 1] = code[j + 1]
                                    \/ j = t \/ j >= Len(code)
      /\ \A c \in Conditions(code') : c = t \/ (c \in Conditions(code) /\ code'[c + 1] = code[c + 1])
  <2>1. code'[t + 1].a \in Len(code)..Len(code')
    BY <1>5
  <2>2. \A b \in Len(code)..(Len(code') - 1) : code'[b + 1].type # "JPC"
    OBVIOUS
  <2> QED BY SMTT(60), <1>5, <2>1, <2>2, OnwardByFilling
<1>9. ASSUME NEW c \in Conditions(code), c # t
      PROVE  \/ c < t /\ Blank(code[c + 1])
             \/ ~Blank(code[c + 1]) /\ code[c + 1].a <= Len(code)
  <2>1. c \in Nat
    BY <1>5, ConditionAt
  <2>2. CASE Blank(code[c + 1])
    <3>1. c \in ToSet(if_not_backfill) \cup ToSet(while_not_backfill)
      BY <1>1, <2>2, BlankConditions
    <3>2. c <= t
      BY <3>1
    <3> QED BY <1>7, <1>9, <2>1, <2>2, <3>2
  <2>3. CASE ~Blank(code[c + 1])
    BY <1>2, <2>3 DEF Regions, Exit
  <2> QED BY <2>2, <2>3
<1>10. ASSUME NEW j \in Targeted(code'), j = t \/ j >= Len(code)
       PROVE  /\ code'[j + 1].a <= Len(code')
              /\ \A c \in Conditions(code') : Guards(code', c, code'[j + 1].a) => j = c \/ Guards(code', c, j)
  <2>1. CASE j = t
    <3>1. code'[j + 1].a = Len(code')
      BY <2>1
    <3>2. ASSUME NEW c \in Conditions(code'), Guards(code', c, Len(code')), c # t PROVE Guards(code', c, t)
      <4>1. c \in Conditions(code) /\ code'[c + 1] = code[c + 1]
        BY <1>8, <3>2
      <4>2. code[c + 1].a \in Int
        BY <1>5, <4>1, ConditionAt
      <4>3. c < t /\ Blank(code[c + 1])
        BY <1>5, <1>9, <3>2, <4>1, <4>2 DEF Guards
      <4> QED BY <4>1, <4>3 DEF Guards
    <3> QED BY <1>5, <2>1, <3>1, <3>2
  <2>2. CASE j >= Len(code)
    <3>1. j \in Len(code)..(Len(code') - 1)
      BY <1>5, <2>2 DEF Targeted
    <3>2. PICK x \in X : x = code'[j + 1].a
      BY <3>1 DEF X
    <3>3. x \in Nat /\ x <= t
      BY <1>6 DEF X
    <3>4. ASSUME NEW c \in Conditions(code'), Guards(code', c, x) PROVE Guards(code', c, j)
      <4>1. c < x /\ c # t
        BY <1>7, <3>3, <3>4 DEF Guards
      <4>2. c \in Conditions(code) /\ code'[c + 1] = code[c + 1] /\ Guards(code, c, x)
        BY <1>8, <3>4, <4>1 DEF Guards
      <4>3. Blank(code[c + 1])
        BY <1>2, <4>2 DEF Reachable
      <4>4. c < j
        <5>1. c < Len(code) /\ c \in Nat
          BY <1>5, <4>2, ConditionAt
        <5> QED BY <1>5, <3>1, <5>1
      <4> QED BY <4>2, <4>3, <4>4 DEF Guards
    <3> QED BY <1>5, <1>7, <3>2, <3>3, <3>4
  <2> QED BY <1>10, <2>1, <2>2
<1>11. Contained(code')
  BY <1>2, <1>5, <1>8, <1>10, ContainedGrows
<1>12. Reachable(code', X)
  <2>1. ASSUME NEW c \in Conditions(code), Blank(code[c + 1]), ~Blank(code'[c + 1])
        PROVE  \A x \in X : x <= c
    <3>1. c = t
      <4>1. c \in 0..(Len(code) - 1)
        BY DEF Conditions
      <4> QED BY <2>1, <4>1
    <3> QED BY <3>1 DEF X
  <2> QED BY <1>2, <1>5, <1>6, <1>8, <2>1, ReachableGrows
<1>13. Reachable(code', ToSet(while_entry_backfill'))
  BY <1>12 DEF X, Reachable
<1>14. \A k \in (Len(code) + 1)..Len(code') : owner'[k] = proc_int_backfill
  BY <1>3
<1> QED BY <1>1, <1>3, <1>4, <1>8, <1>11, <1>13, <1>14, GuardsGrow

\* An if is complete (Assembler.cpp:162).
LEMMA IfEndKeepsGuards ==
  ASSUME ~Siblings, IInv, SInv, BlocksInv, MarksInv, Patches, GuardInv, lexErrors = 0, IfEnd,
         status' = "parsing", length' >= length, length' \in Nat
  PROVE  GuardInv'
<1> DEFINE F == if_not_backfill
           N == while_not_backfill
           W == while_entry_backfill
           t == Last(F)
<1>1. /\ status = "parsing" /\ code' = Backfill(code, t, length) /\ r = "CONDITION"
      /\ UNCHANGED <<proc_body_backfill, while_entry_backfill, owner>>
  BY DEF IfEnd, Reducing, Reading, procStacks, whileStacks, InnermostIf
<1>2. /\ F # <<>>
      /\ \A a \in 1..Len(F) : F[a] <= Last(F)
      /\ \A a \in 1..Len(N) : N[a] <= Last(F)
      /\ \A a \in 1..Len(W) : W[a] <= Last(F)
  BY IfEndMarks
<1>3. /\ code \in Seq(Instructions) /\ F \in Seq(Nat) /\ N \in Seq(Nat) /\ W \in Seq(Nat \ {0})
      /\ length = Len(code) /\ length \in Nat
  BY <1>1, BeforeReduction
<1>4. t \in Blanks(code) /\ t \in 0..(length - 1) /\ Blank(code[t + 1])
  BY <1>1, <1>2, <1>3, TopsAreBlank DEF Blanks
<1>5. code[t + 1].type = "JPC"
  BY <1>2, <1>3, TypesPopped DEF Patches
<1>6. \A c \in ToSet(F) \cup ToSet(N) \cup ToSet(W) : c <= t
  <2>1. \A c \in ToSet(F) : c <= t
    BY <1>2, <1>3 DEF ToSet
  <2>2. \A c \in ToSet(N) : c <= t
    BY <1>2, <1>3 DEF ToSet
  <2>3. \A c \in ToSet(W) : c <= t
    BY <1>2, <1>3 DEF ToSet
  <2> QED BY <2>1, <2>2, <2>3
<1>7. Steady /\ r \notin Declarations
  BY <1>1 DEF Steady, Quiet, Declarations
<1>8. Kept(code, code)
  BY <1>3, KeptAsIs
<1> HIDE DEF t
<1>9. /\ code' \in Seq(Instructions) /\ Len(code') = Len(code) /\ code'[t + 1].a = length
      /\ \A b \in 0..(Len(code) - 1) : b # t => code'[b + 1] = code[b + 1]
  BY <1>1, <1>3, <1>4, <1>8, KeptByFilling
<1>10. t \in Conditions(code)
  BY <1>3, <1>4, <1>5 DEF Conditions
<1>11. /\ Len(code') >= Len(code) /\ code'[t + 1].a = Len(code')
       /\ Len(code)..(Len(code') - 1) = {} /\ (Len(code) + 1)..Len(code') = {}
  BY <1>3, <1>9
<1>12. OwnersKept
  BY <1>1 DEF OwnersKept
<1>13. ToSet(while_entry_backfill') \subseteq ToSet(while_entry_backfill)
  BY <1>1
<1> QED BY <1>1, <1>4, <1>6, <1>7, <1>9, <1>10, <1>11, <1>12, <1>13, FillingKeepsGuards

\* A loop is complete: its condition gets its target behind the jump back (Assembler.cpp:179).
LEMMA WhileEndKeepsGuards ==
  ASSUME ~Siblings, IInv, SInv, BlocksInv, MarksInv, Patches, GuardInv, lexErrors = 0, WhileEnd,
         status' = "parsing", length' >= length, length' \in Nat
  PROVE  GuardInv'
<1> DEFINE F == if_not_backfill
           N == while_not_backfill
           W == while_entry_backfill
           t == Last(N)
           entry == Last(W)
           back == inst_t("JMP", 0, entry)
           longer == Append(code, back)
           to == length + 1
<1>1. /\ status = "parsing" /\ code' = Backfill(longer, t, to) /\ r = "WHILE"
      /\ UNCHANGED proc_body_backfill /\ W' = Front(W) /\ owner' = Append(owner, open)
  BY DEF WhileEnd, Reducing, Reading, procStacks, LoopExit
<1>2. /\ N # <<>> /\ W # <<>>
      /\ \A a \in 1..Len(F) : F[a] <= Last(N)
      /\ \A a \in 1..Len(N) : N[a] <= Last(N)
      /\ \A a \in 1..Len(W) : W[a] <= Last(N)
  BY WhileEndMarks
<1>3. /\ code \in Seq(Instructions) /\ F \in Seq(Nat) /\ N \in Seq(Nat) /\ W \in Seq(Nat \ {0})
      /\ length = Len(code) /\ length \in Nat
  BY <1>1, BeforeReduction
<1>4. t \in Blanks(code) /\ t \in 0..(length - 1) /\ Blank(code[t + 1])
  BY <1>1, <1>2, <1>3, TopsAreBlank DEF Blanks
<1>5. code[t + 1].type = "JPC"
  BY <1>2, <1>3, TypesPopped DEF Patches
<1>6. \A c \in ToSet(F) \cup ToSet(N) \cup ToSet(W) : c <= t
  <2>1. \A c \in ToSet(F) : c <= t
    BY <1>2, <1>3 DEF ToSet
  <2>2. \A c \in ToSet(N) : c <= t
    BY <1>2, <1>3 DEF ToSet
  <2>3. \A c \in ToSet(W) : c <= t
    BY <1>2, <1>3 DEF ToSet
  <2> QED BY <2>1, <2>2, <2>3
<1>7. Steady /\ r \notin Declarations
  BY <1>1 DEF Steady, Quiet, Declarations
<1>8. /\ entry \in Nat \ {0} /\ entry \in ToSet(W) /\ Front(W) \in Seq(Nat \ {0})
      /\ Len(Front(W)) = Len(W) - 1 /\ \A k \in 1..(Len(W) - 1) : Front(W)[k] = W[k]
  BY <1>2, <1>3, Popped
<1> HIDE DEF t, entry
<1>9. back \in Instructions /\ back.a = entry /\ back.type = "JMP"
  BY <1>8 DEF inst_t, Instructions, InstTypes
<1> HIDE DEF back
<1>10. /\ Kept(code, longer) /\ longer \in Seq(Instructions) /\ Len(longer) = Len(code) + 1
       /\ longer[Len(code) + 1] = back
  BY <1>3, <1>9, KeptByOne
<1>11. \A b \in 0..(Len(code) - 1) : longer[b + 1] = code[b + 1]
  BY <1>3, <1>9
<1>12. to \in Int /\ to = Len(longer)
  BY <1>3, <1>10
<1> HIDE DEF longer, to
<1>13. /\ code' \in Seq(Instructions) /\ Len(code') = Len(longer) /\ code'[t + 1].a = to
       /\ \A b \in 0..(Len(longer) - 1) : b # t => code'[b + 1] = longer[b + 1]
  BY SMTT(60), <1>1, <1>3, <1>4, <1>10, <1>12, KeptByFilling
<1>14. \A b \in 0..(Len(code) - 1) : b # t => code'[b + 1] = code[b + 1]
  BY <1>3, <1>10, <1>11, <1>13
<1>15. \A b \in Len(code)..(Len(code') - 1) :
         code'[b + 1].type # "JPC" /\ code'[b + 1].a \in ToSet(W)
  <2> SUFFICES ASSUME NEW b \in Len(code)..(Len(code') - 1)
               PROVE  code'[b + 1].type # "JPC" /\ code'[b + 1].a \in ToSet(W)
    OBVIOUS
  <2>1. b = Len(code) /\ b # t /\ b \in 0..(Len(longer) - 1)
    BY <1>3, <1>4, <1>10, <1>13
  <2>2. code'[b + 1] = back
    BY <1>10, <1>13, <2>1
  <2> QED BY <1>8, <1>9, <2>2
<1>16. t \in Conditions(code)
  BY <1>3, <1>4, <1>5 DEF Conditions
<1>17. Len(code') >= Len(code) /\ code'[t + 1].a = Len(code') /\ Len(code') = Len(code) + 1
  BY <1>3, <1>10, <1>12, <1>13
<1>18. OwnersKept
  <2>1. open \in Seq(Nat)
    BY DEF SInv, Owned
  <2> QED BY <1>1, <1>3, <2>1, FinishedOwners
<1>19. \A k \in (Len(code) + 1)..Len(code') : owner'[k] = open
  <2>1. owner \in Seq(Seq(Nat)) /\ Len(owner) = Len(code)
    BY DEF SInv, Owned
  <2>2. \A k \in (Len(code) + 1)..Len(code') : k = Len(owner) + 1
    BY <1>3, <1>17, <2>1
  <2> QED BY <1>1, <2>1, <2>2
<1>20. ToSet(W') \subseteq ToSet(W)
  <2> SUFFICES ASSUME NEW k \in 1..(Len(W) - 1) PROVE W[k] \in ToSet(W)
    BY SMTT(60), <1>1, <1>8 DEF ToSet
  <2>1. k \in DOMAIN W
    BY <1>3
  <2> QED BY <2>1 DEF ToSet
<1> QED BY <1>1, <1>4, <1>6, <1>7, <1>13, <1>14, <1>15, <1>16, <1>17, <1>18, <1>19, <1>20, FillingKeepsGuards

\* A procedure is declared in blocks only: no if and no loop is around one.
LEMMA OnlyBlocksAround ==
  ASSUME OnTrack(items), r = "PROC"
  PROVE  \A p \in {"CONDITION", "WHILE"} : Begun(items, p) = {}
<1> DEFINE n == Len(items)
           B == {"PL0", "PROG", "SUBPROG", "PROC"}
           S == {k \in Nat : k >= 1 => items[k].rule \in B}
<1>1. n \in Nat /\ n >= 1 /\ items[n].rule = "PROC" /\ items \in Seq(Items)
  BY Innermost DEF OnTrack
<1> HIDE DEF n
<1>2. ASSUME NEW m \in 1..(n - 1), items[m + 1].rule \in B PROVE items[m].rule \in B
  <2> DEFINE it == items[m]
             q == items[m + 1].rule
  <2>1. m \in 1..Len(items)
    BY <1>1 DEF n
  <2>2. it \in Items
    BY <1>1, <2>1
  <2>3. Awaits(it, lhs(q))
    BY DEF OnTrack, n
  <2>4. lhs(q) \in {"Spl0", "Sprog", "Ssubprog", "Sproc"}
    BY <1>2, BlockShapes
  <2> HIDE DEF it, q
  <2>5. it.rule \in DOMAIN Rules /\ Len(it.vals) \in Nat
    BY <2>2 DEF Items
  <2>6. BlocksInPlace(it.rule) /\ PartsInPlace(it.rule) /\ RhsIsSequence(it.rule)
    BY <2>5, BlocksInPlaceEverywhere, PartsInPlaceEverywhere, RhsAreSequences
  <2>7. Len(it.vals) + 1 \in DOMAIN rhs(it.rule) /\ rhs(it.rule)[Len(it.vals) + 1] = lhs(q)
    BY <2>3, <2>5, <2>6 DEF Awaits, RhsIsSequence
  <2>8. rhs(it.rule)[Len(it.vals) + 1] # "Spl0"
    BY <2>6, <2>7 DEF PartsInPlace
  <2>9. it.rule \in B
    BY <2>4, <2>6, <2>7, <2>8 DEF BlocksInPlace
  <2> QED BY <2>9 DEF it
<1> HIDE DEF B
<1>3. ASSUME NEW m \in 0..n, \A k \in (m + 1)..n : k \in S PROVE m \in S
  <2>1. CASE m = 0
    BY <2>1
  <2>2. CASE m = n
    BY <1>1, <2>2 DEF B
  <2>3. CASE m \in 1..(n - 1)
    <3>1. m + 1 \in (m + 1)..n /\ m + 1 >= 1 /\ m \in Nat
      BY <1>1, <2>3
    <3>2. m + 1 \in S
      BY <1>3, <3>1
    <3>3. items[m + 1].rule \in B
      BY <3>1, <3>2
    <3> QED BY <1>2, <2>3, <3>1, <3>3
  <2> QED BY <1>1, <2>1, <2>2, <2>3
<1> HIDE DEF S
<1>4. \A m \in 0..n : m \in S
  BY <1>1, <1>3, Downwards
<1>5. \A m \in 1..n : items[m].rule \in B
  <2> SUFFICES ASSUME NEW m \in 1..n PROVE items[m].rule \in B
    OBVIOUS
  <2>1. m \in 0..n /\ m >= 1
    BY <1>1
  <2>2. m \in S
    BY <1>4, <2>1
  <2> QED BY <2>1, <2>2 DEF S
<1> QED BY <1>5 DEF Begun, B, n

\* So no condition lacks its target when a procedure ends.
LEMMA NoneBlankAtEnd ==
  ASSUME IInv, status = "parsing", Patches, r = "PROC"
  PROVE  \A c \in Conditions(code) : ~Blank(code[c + 1])
<1>1. OnTrack(items) /\ StacksDeep /\ if_not_backfill \in Seq(Nat) /\ while_not_backfill \in Seq(Nat)
  BY BeforeReduction
<1>2. Depth(items, "CONDITION") = 0 /\ Depth(items, "WHILE") = 0
  BY <1>1, OnlyBlocksAround, FS_EmptySet DEF Depth
<1>3. ToSet(if_not_backfill) = {} /\ ToSet(while_not_backfill) = {}
  BY <1>1, <1>2 DEF StacksDeep, ToSet
<1> QED BY <1>3, BlankConditions

\* A block is finished, and no condition lacks its target.
LEMMA FinishingKeepsGuards ==
  ASSUME IInv, SInv, GuardInv, lexErrors = 0, status = "parsing", Phase(items) = 4,
         \A c \in Conditions(code) : ~Blank(code[c + 1]),
         NEW a \in Blanks(code), NEW b \in Blanks(code), NEW x \in Int, NEW y \in Bodies,
         code[a + 1].type = "INT", code[b + 1].type = "JMP",
         code' = Backfill(Backfill(code \o insert_opr(OPR_RET), a, x), b, y),
         owner' = Append(owner, proc_int_backfill)
  PROVE  /\ code' \in Seq(Instructions) /\ Len(code') = Len(code) + 1
         /\ Regions(code', owner') /\ Contained(code') /\ NoneOpen(code')
         /\ Outside(code', Bodies \cup {Len(code')})
         /\ Reachable(code', ToSet(while_entry_backfill))
<1> DEFINE X == ToSet(while_entry_backfill)
<1>1. /\ Regions(code, owner) /\ Contained(code)
      /\ OpenIn(code, owner, proc_int_backfill)
      /\ Outside(code, Bodies)
      /\ Reachable(code, X)
  BY DEF GuardInv
<1>2. /\ code \in Seq(Instructions) /\ Len(code) \in Nat /\ proc_int_backfill \in Seq(Nat)
      /\ proc_body_backfill \in Seq(BodyEntries) /\ while_entry_backfill \in Seq(Nat \ {0})
  BY BeforeReduction
<1>3. Bodies \in SUBSET Nat
  <2> SUFFICES ASSUME NEW k \in DOMAIN proc_body_backfill PROVE proc_body_backfill[k].proc_body \in Nat
    BY DEF Bodies, ToSet
  <2>1. proc_body_backfill[k] \in BodyEntries
    BY <1>2
  <2> QED BY <2>1 DEF BodyEntries
<1>4. X \in SUBSET Nat
  BY <1>2 DEF ToSet
<1> HIDE DEF X
<1>5. y \in Int /\ y \in Nat /\ y <= Len(code) /\ \A c \in Conditions(code) : ~Guards(code, c, y)
  BY <1>1, <1>3 DEF Outside
<1>6. /\ code' \in Seq(Instructions) /\ Len(code') = Len(code) + 1 /\ Onward(code, code')
      /\ \A c \in Conditions(code') : c \in Conditions(code) /\ code'[c + 1] = code[c + 1]
      /\ \A j \in Targeted(code') : \/ j \in Targeted(code) /\ code'[j + 1] = code[j + 1]
                                    \/ j = b /\ code'[j + 1].a = y
  <2>1. code \in Seq(Instructions) /\ x \in Int /\ y \in Int
    BY <1>2, <1>5
  <2>2. a \in Blanks(code) /\ b \in Blanks(code)
    OBVIOUS
  <2>3. code[a + 1].type = "INT" /\ code[b + 1].type = "JMP"
    OBVIOUS
  <2>4. code' = Backfill(Backfill(code \o insert_opr(OPR_RET), a, x), b, y)
    OBVIOUS
  <2> QED BY ONLY <2>1, <2>2, <2>3, <2>4, OnwardByFinishing
<1>7. Regions(code', owner')
  <2>1. OwnersKept
    BY <1>2, FinishedOwners
  <2>2. \A k \in 1..Len(code) : owner'[k] = owner[k]
    BY <2>1 DEF OwnersKept
  <2>3. owner \in Seq(Seq(Nat)) /\ Len(owner) = Len(code)
    BY DEF SInv, Owned
  <2>4. \A k \in (Len(code) + 1)..Len(code') : owner'[k] = proc_int_backfill
    <3>1. \A k \in (Len(code) + 1)..Len(code') : k = Len(owner) + 1
      BY <1>2, <1>6, <2>3
    <3> QED BY <1>2, <2>3, <3>1
  <2>5. code \in Seq(Instructions) /\ code' \in Seq(Instructions) /\ Onward(code, code')
    BY <1>2, <1>6
  <2>6. Regions(code, owner) /\ OpenIn(code, owner, proc_int_backfill)
    BY <1>1
  <2>7. Regions(code', owner') /\ OpenIn(code', owner', proc_int_backfill)
    BY ONLY <2>2, <2>4, <2>5, <2>6, RegionsGrow
  <2> QED BY <2>7
<1>8. Contained(code')
  <2>1. \A c \in Conditions(code') : ~Guards(code', c, y)
    BY <1>5, <1>6 DEF Guards
  <2>2. y <= Len(code')
    BY <1>2, <1>5, <1>6
  <2>3. \A j \in Targeted(code') :
           \/ j \in Targeted(code) /\ code'[j + 1] = code[j + 1]
           \/ /\ code'[j + 1].a <= Len(code')
              /\ \A c \in Conditions(code') : Guards(code', c, code'[j + 1].a) => j = c \/ Guards(code', c, j)
    BY <1>6, <2>1, <2>2
  <2> QED BY <1>1, <1>2, <1>6, <2>3, ContainedGrows
<1>9. NoneOpen(code')
  <2>1. Len(code') > Len(code)
    BY <1>2, <1>6
  <2> QED BY <1>1, <1>2, <1>6, <2>1, NoneOpenAfter
<1>10. Outside(code', Bodies \cup {Len(code')})
  <2>1. Outside(code', Bodies)
    BY <1>1, <1>2, <1>3, <1>6, OutsideGrows
  <2>2. ASSUME NEW c \in Conditions(code') PROVE ~Guards(code', c, Len(code'))
    <3>1. c \in Conditions(code) /\ code'[c + 1] = code[c + 1] /\ ~Blank(code[c + 1])
      BY <1>6
    <3>2. code[c + 1].a \in Int /\ code[c + 1].a <= Len(code)
      BY <1>1, <1>2, <3>1, ConditionAt DEF Regions, Exit
    <3> QED BY <1>2, <1>6, <3>1, <3>2 DEF Guards
  <2>3. Len(code') <= Len(code')
    BY <1>2, <1>6
  <2> QED BY <2>1, <2>2, <2>3 DEF Outside
<1>11. Reachable(code', X)
  <2>1. ASSUME NEW c \in Conditions(code), Blank(code[c + 1]), ~Blank(code'[c + 1])
        PROVE  \A z \in X : z <= c
    BY <2>1
  <2> QED BY <1>1, <1>2, <1>4, <1>6, <2>1, ReachableGrows
<1> QED BY <1>6, <1>7, <1>8, <1>9, <1>10, <1>11 DEF X

\* When a procedure begins no condition leads behind the code, and the prologue adds none
\* (Assembler.cpp:35).
LEMMA ProcedureHeaderKeepsGuards ==
  ASSUME IInv, SInv, GuardInv, lexErrors = 0, ProcedureHeader
  PROVE  GuardInv'
<1> DEFINE B == proc_body_backfill
           X == ToSet(while_entry_backfill)
           e == [jmp_inst |-> length + 1, proc_body |-> length + 2]
<1>1. /\ Return(nullptr) /\ Complete /\ r = "PROCH" /\ status = "parsing" /\ status' = status
      /\ UNCHANGED <<lexErrors, while_entry_backfill>> /\ code' = code \o Prologue
      /\ B' = Append(B, e) /\ owner' = owner \o <<open', open'>> /\ open' = Append(open, length)
  BY DEF ProcedureHeader, Reducing, Reading, Return, automaton, PushPrologue, whileStacks
<1>2. /\ OnTrack(items) /\ OneProcedure(items) /\ B \in Seq(BodyEntries)
      /\ while_entry_backfill \in Seq(Nat \ {0})
      /\ code \in Seq(Instructions) /\ length \in Nat /\ length = Len(code)
  BY <1>1, BeforeReduction DEF SInv, Scoped
<1>3. nullptr \in ValuesOf(lhs(r)) /\ r # "PL0"
  BY <1>1, <1>2, ValuesComplete, NothingReturned DEF oprOf
<1>4. Phase(items) = 3 /\ Phase(items') = 1
  BY <1>1, <1>2, <1>3, PhaseAfterReduction DEF Return
<1>5. /\ Regions(code, owner) /\ Contained(code) /\ NoneOpen(code)
      /\ Outside(code, Bodies) /\ Reachable(code, X)
  BY <1>1, <1>4 DEF GuardInv
<1>6. \A c \in Conditions(code) : ~Blank(code[c + 1])
  BY <1>5 DEF NoneOpen, Exit
<1>7. e \in BodyEntries /\ e.proc_body = length + 2
  BY <1>2 DEF BodyEntries
<1> HIDE DEF e
<1>8. /\ Prologue \in Seq(Instructions) /\ Len(Prologue) = 2 /\ Targetless(Prologue)
      /\ \A k \in 1..Len(Prologue) : Prologue[k].type # "JPC"
  BY PrologueIsCode DEF Prologue, inst_t, Targetless
<1>9. /\ code' \in Seq(Instructions) /\ Len(code') = Len(code) + 2 /\ Onward(code, code')
      /\ \A j \in Targeted(code') : j \in Targeted(code) /\ code'[j + 1] = code[j + 1]
      /\ \A c \in Conditions(code) : code'[c + 1] = code[c + 1]
      /\ \A c \in Conditions(code') : c \in Conditions(code) /\ code'[c + 1] = code[c + 1]
  <2> DEFINE E == Prologue
             q == code \o E
  <2>1. E \in Seq(Instructions) /\ Len(E) = 2 /\ Targetless(E)
        /\ \A k \in 1..Len(E) : E[k].type # "JPC"
    BY <1>8
  <2>2. code' = q /\ code \in Seq(Instructions)
    BY <1>1, <1>2
  <2> HIDE DEF E
  <2>3. /\ q \in Seq(Instructions) /\ Len(q) = Len(code) + Len(E)
        /\ Onward(code, q)
        /\ \A j \in Targeted(q) : j \in Targeted(code) /\ q[j + 1] = code[j + 1]
        /\ \A c \in Conditions(code) : q[c + 1] = code[c + 1]
        /\ (\A k \in 1..Len(E) : E[k].type # "JPC") =>
             \A c \in Conditions(q) : c \in Conditions(code) /\ q[c + 1] = code[c + 1]
    BY <2>1, <2>2, OnwardByAdding
  <2> HIDE DEF q
  <2> QED BY <2>1, <2>2, <2>3
<1>10. Regions(code', owner')
  <2> DEFINE S == Seq(Nat)
             q == <<open', open'>>
  <2>1. owner \in Seq(S) /\ Len(owner) = Len(code) /\ open \in Seq(Nat)
    BY DEF SInv, Owned
  <2>2. open' \in S
    BY <1>1, <1>2, <2>1
  <2> HIDE DEF S
  <2>3. q \in Seq(S) /\ Len(q) = 2 /\ q[1] = open' /\ q[2] = open'
    BY <2>2
  <2> HIDE DEF q
  <2>4. owner \in Seq(Seq(Nat)) /\ q \in Seq(Seq(Nat)) /\ owner' = owner \o q
    BY <1>1, <2>1, <2>3 DEF S, q
  <2>5. /\ \A k \in 1..Len(owner) : owner'[k] = owner[k]
        /\ \A k \in 1..Len(q) : owner'[Len(owner) + k] = q[k]
    BY <2>4, OwnersJoined
  <2>6. ASSUME NEW k \in (Len(code) + 1)..Len(code') PROVE owner'[k] = open'
    <3>1. \E d \in 1..2 : k = Len(owner) + d
      <4>1. k - Len(owner) \in 1..2 /\ k = Len(owner) + (k - Len(owner))
        BY <1>2, <1>9, <2>1
      <4> QED BY <4>1
    <3> QED BY <2>3, <2>5, <3>1
  <2>7. OpenIn(code, owner, open')
    BY <1>5 DEF OpenIn, NoneOpen
  <2>8. \A k \in 1..Len(code) : owner'[k] = owner[k]
    BY <2>1, <2>5
  <2>9. code \in Seq(Instructions) /\ code' \in Seq(Instructions) /\ Onward(code, code')
    BY <1>2, <1>9
  <2>10. Regions(code, owner)
    BY <1>5
  <2>11. \A k \in (Len(code) + 1)..Len(code') : owner'[k] = open'
    BY <2>6
  <2>12. Regions(code', owner') /\ OpenIn(code', owner', open')
    BY ONLY <2>7, <2>8, <2>9, <2>10, <2>11, RegionsGrow
  <2> QED BY <2>12
<1>11. Contained(code')
  BY <1>2, <1>5, <1>9, ContainedGrows
<1>12. NoneOpen(code')
  <2>1. Len(code') > Len(code)
    BY <1>2, <1>9
  <2> QED BY <1>2, <1>5, <1>6, <1>9, <2>1, NoneOpenAfter
<1>13. Outside(code', Bodies')
  <2>1. Bodies \in SUBSET Nat
    <3> SUFFICES ASSUME NEW k \in DOMAIN B PROVE B[k].proc_body \in Nat
      BY DEF Bodies, ToSet
    <3>1. B[k] \in BodyEntries
      BY <1>2
    <3> QED BY <3>1 DEF BodyEntries
  <2>2. Outside(code', Bodies)
    BY <1>2, <1>5, <1>9, <2>1, OutsideGrows
  <2>3. ToSet(B') = ToSet(B) \cup {e}
    BY <1>1, <1>2, <1>7, Pushed
  <2>4. Bodies' = Bodies \cup {Len(code')}
    BY <1>2, <1>7, <1>9, <2>3 DEF Bodies
  <2>5. ASSUME NEW c \in Conditions(code') PROVE ~Guards(code', c, Len(code'))
    <3>1. c \in Conditions(code) /\ code'[c + 1] = code[c + 1] /\ ~Blank(code[c + 1])
      BY <1>6, <1>9
    <3>2. code[c + 1].a \in Int /\ code[c + 1].a <= Len(code)
      BY <1>2, <1>5, <3>1, ConditionAt DEF Regions, Exit
    <3> QED BY <1>2, <1>9, <3>1, <3>2 DEF Guards
  <2>6. Len(code') <= Len(code')
    BY <1>2, <1>9
  <2> QED BY <2>2, <2>4, <2>5, <2>6 DEF Outside
<1>14. Reachable(code', X)
  <2>1. X \in SUBSET Nat
    BY <1>2 DEF ToSet
  <2>2. \A c \in Conditions(code) : Blank(code[c + 1]) /\ ~Blank(code'[c + 1]) => \A z \in X : z <= c
    BY <1>6
  <2>3. Reachable(code, X)
    BY <1>5
  <2> HIDE DEF X
  <2> QED BY <1>2, <1>9, <2>1, <2>2, <2>3, ReachableGrows
<1>15. Reachable(code', ToSet(while_entry_backfill'))
  BY <1>1, <1>14 DEF X
<1>16. status' # "succeeded" /\ Phase(items') # 4
  BY <1>1, <1>4
<1> QED BY ONLY <1>10, <1>11, <1>12, <1>13, <1>15, <1>16 DEF GuardInv

\* A procedure ends (Assembler.cpp:44).
LEMMA ProcedureEndKeepsGuards ==
  ASSUME ~Siblings, IInv, SInv, BlocksInv, Patches, GuardInv, lexErrors = 0, ProcedureEnd
  PROVE  GuardInv'
<1> DEFINE P == proc_int_backfill
           B == proc_body_backfill
           F == Front(B)
           n == Len(P)
           e == [jmp_inst |-> Last(F).jmp_inst, proc_body |-> length + 1]
           y == Last(B).proc_body
           a == Last(P)
           b == Last(B).jmp_inst
<1>1. /\ Return(nullptr) /\ Complete /\ r = "PROC" /\ status = "parsing" /\ status' = status
      /\ UNCHANGED <<lexErrors, while_entry_backfill>>
      /\ code' = Backfill(Backfill(code \o insert_opr(OPR_RET), a, FrameSize), b, y)
      /\ owner' = Append(owner, Append(open, Last(P))) /\ B' = UpdateUpper(F)
  BY DEF ProcedureEnd, Reducing, Reading, Return, automaton, whileStacks
<1>2. /\ OnTrack(items) /\ OneProcedure(items) /\ Table!IInv
      /\ n \in Nat /\ n >= 2 /\ P \in Seq(Nat) /\ B \in Seq(BodyEntries) /\ Len(B) = n
      /\ JmpsOf(B) \in Seq(Nat) /\ code \in Seq(Instructions) /\ length \in Nat /\ length = Len(code)
  BY <1>1, BeforeReduction, StacksNotEmpty DEF SInv, Scoped
<1>3. nullptr \in ValuesOf(lhs(r)) /\ r # "PL0"
  BY <1>1, <1>2, ValuesComplete, NothingReturned DEF oprOf
<1>4. Leaving(items) /\ ~Ended(items) /\ Phase(items) = 4 /\ Phase(items') = 3
  BY <1>1, <1>2, <1>3, Innermost, AfterReduction, PhaseAfterReduction DEF Return, Ended
<1>5. \A c \in Conditions(code) : ~Blank(code[c + 1])
  BY <1>1, NoneBlankAtEnd
<1>6. P # <<>> /\ B # <<>>
  BY <1>2
<1>7. a \in Blanks(code) /\ b \in Blanks(code)
  BY <1>1, TopsAreBlank
<1>8. FrameSize \in Int
  BY <1>2, FrameSizes
<1>9. code[a + 1].type = "INT" /\ code[b + 1].type = "JMP"
  <2>1. code[a + 1].type = "INT"
    BY <1>2, <1>6, TypesPopped DEF Patches
  <2>2. JmpsOf(B) # <<>> /\ b = Last(JmpsOf(B))
    BY <1>2, <1>6, JmpsPopped
  <2>3. code[Last(JmpsOf(B)) + 1].type = "JMP"
    BY <1>2, <2>2, TypesPopped DEF Patches
  <2> QED BY <2>1, <2>2, <2>3
<1>10. y \in Bodies
  <2>1. Last(B) \in ToSet(B)
    BY <1>2, <1>6, Popped
  <2> QED BY <2>1 DEF Bodies
<1>11. owner' = Append(owner, P)
  <2>1. BlocksOpen /\ open \in Seq(Nat) /\ Len(open) \in Nat
    BY <1>1 DEF BlocksInv, SInv, Owned
  <2>2. Len(open) = n - 1 /\ \A d \in 1..Len(open) : open[d] = P[d]
    BY <1>2, <1>4, <2>1 DEF BlocksOpen, Gap
  <2> DEFINE s == Append(open, Last(P))
  <2>3. Last(P) \in Nat /\ Last(P) = P[n]
    BY <1>2, <1>6, Popped DEF Last
  <2>4. s \in Seq(Nat) /\ Len(s) = n /\ s[n] = P[n] /\ \A d \in 1..(n - 1) : s[d] = open[d]
    BY <1>2, <2>1, <2>2, <2>3
  <2> HIDE DEF s, n
  <2>5. \A d \in 1..n : s[d] = P[d]
    <3>1. \A d \in 1..n : d = n \/ d \in 1..(n - 1)
      BY <1>2
    <3> QED BY <2>2, <2>4, <3>1
  <2>6. s = P
    <3>1. s \in Seq(Nat) /\ P \in Seq(Nat) /\ Len(s) = Len(P)
      BY <1>2, <2>4 DEF n
    <3>2. \A d \in 1..Len(P) : s[d] = P[d]
      BY <2>5 DEF n
    <3> HIDE DEF P
    <3> QED BY ONLY <3>1, <3>2
  <2> QED BY <1>1, <2>6 DEF s
<1> HIDE DEF a, b, y
<1>12. /\ code' \in Seq(Instructions) /\ Len(code') = Len(code) + 1
       /\ Regions(code', owner') /\ Contained(code') /\ NoneOpen(code')
       /\ Outside(code', Bodies \cup {Len(code')})
       /\ Reachable(code', ToSet(while_entry_backfill))
  BY <1>1, <1>4, <1>5, <1>7, <1>8, <1>9, <1>10, <1>11, FinishingKeepsGuards
<1>13. Bodies' \subseteq Bodies \cup {Len(code')}
  <2>1. F \in Seq(BodyEntries) /\ Len(F) = n - 1 /\ \A k \in 1..(Len(B) - 1) : F[k] = B[k]
    BY <1>2, <1>6, Popped
  <2> HIDE DEF F
  <2>2. ToSet(F) \subseteq ToSet(B)
    <3>1. Len(F) = Len(B) - 1 /\ Len(B) \in Nat
      BY <1>2, <2>1
    <3> HIDE DEF B, n
    <3> SUFFICES ASSUME NEW k \in 1..(Len(B) - 1) PROVE B[k] \in ToSet(B)
      BY <2>1, <3>1 DEF ToSet
    <3>2. k \in DOMAIN B
      BY <1>2, <3>1
    <3> QED BY <3>2 DEF ToSet
  <2>3. F # <<>>
    BY <1>2, <2>1
  <2>4. /\ Front(F) \in Seq(BodyEntries) /\ Last(F) \in BodyEntries
        /\ Len(Front(F)) = Len(F) - 1 /\ \A k \in 1..(Len(F) - 1) : Front(F)[k] = F[k]
    BY <2>1, <2>3, Popped
  <2>5. e \in BodyEntries /\ e.proc_body = length + 1
    BY SMTT(60), <1>2, <2>4 DEF BodyEntries
  <2>6. UpdateUpper(F) = Append(Front(F), e)
    BY DEF UpdateUpper
  <2> HIDE DEF e
  <2>7. ToSet(UpdateUpper(F)) = ToSet(Front(F)) \cup {e}
    BY <2>4, <2>5, <2>6, Pushed
  <2>8. ToSet(Front(F)) \subseteq ToSet(F)
    <3> SUFFICES ASSUME NEW k \in 1..(Len(F) - 1) PROVE F[k] \in ToSet(F)
      BY <2>4 DEF ToSet
    <3>1. k \in DOMAIN F
      BY <2>1
    <3> QED BY <3>1 DEF ToSet
  <2>9. ToSet(B') \subseteq ToSet(B) \cup {e} /\ e.proc_body = Len(code')
    BY <1>1, <1>2, <1>12, <2>2, <2>5, <2>7, <2>8
  <2> QED BY <2>9 DEF Bodies
<1>14. Outside(code', Bodies')
  BY <1>12, <1>13 DEF Outside
<1> QED BY <1>1, <1>4, <1>12, <1>14 DEF GuardInv

\* The source is complete (plc.cpp:45).
LEMMA SucceedKeepsGuards ==
  ASSUME IInv, SInv, MainAtBottom, Patches, GuardInv, lexErrors = 0, Succeed
  PROVE  GuardInv'
<1> DEFINE P == proc_int_backfill
           B == proc_body_backfill
           y == Last(B).proc_body
           x == Symbol!countLayerSize
<1>1. /\ status = "parsing" /\ ~Reading /\ status' = "succeeded" /\ lexErrors' = lexErrors
      /\ code' = Backfill(Backfill(code \o insert_opr(OPR_RET), 0, x), 1, y)
      /\ owner' = Append(owner, <<0>>)
  BY DEF Succeed
<1>2. /\ code \in Seq(Instructions) /\ Table!IInv /\ B \in Seq(BodyEntries) /\ P \in Seq(Nat)
      /\ OnTrack(items)
  BY <1>1, BeforeReduction
<1>3. Blanks(code) = {0, 1} /\ B # <<>>
  BY <1>1, OnlyMainIsBlank
<1>4. code[0 + 1].type = "INT" /\ code[1 + 1].type = "JMP"
  BY DEF SInv, Owned
<1>5. \A c \in Conditions(code) : ~Blank(code[c + 1])
  <2> SUFFICES ASSUME NEW c \in Conditions(code), Blank(code[c + 1]) PROVE FALSE
    OBVIOUS
  <2>1. c \in Blanks(code) /\ code[c + 1].type = "JPC"
    BY DEF Conditions, Blanks
  <2> QED BY <1>3, <1>4, <2>1
<1>6. Len(P) = 1 /\ P[1] = 0 /\ Len(items) = 1
  BY <1>1, OnlyMainIsLeft DEF MainAtBottom
<1>7. P = <<0>>
  BY <1>2, <1>6
<1>8. Phase(items) = 4
  <2> DEFINE it == items[Len(items)]
  <2>1. r = "PL0" /\ Complete
    BY <1>1 DEF Reading
  <2>2. it.rule = "PL0" /\ Len(it.vals) = 1
    BY <1>2, <2>1, Innermost, BlockShapes
  <2>3. it.vals # <<>>
    <3>1. Len(<<>>) = 0
      OBVIOUS
    <3> QED BY SMTT(60), <2>2, <3>1
  <2>4. Ended(items)
    BY <2>2, <2>3 DEF Ended
  <2>5. it = items[Len(items)]
    OBVIOUS
  <2> HIDE DEF it
  <2> QED BY <1>2, <2>4, <2>5, PhaseOfItem
<1>9. x \in Int
  BY <1>2, FrameSizes
<1>10. y \in Bodies
  <2>1. Last(B) \in ToSet(B)
    BY <1>2, <1>3, Popped
  <2> QED BY <2>1 DEF Bodies
<1> HIDE DEF x, y
<1>11. 0 \in Blanks(code) /\ 1 \in Blanks(code) /\ owner' = Append(owner, P)
  BY <1>1, <1>3, <1>7
<1>12. /\ code' \in Seq(Instructions)
       /\ Regions(code', owner') /\ Contained(code') /\ NoneOpen(code')
  BY <1>1, <1>4, <1>5, <1>8, <1>9, <1>10, <1>11, FinishingKeepsGuards
<1> QED BY <1>1, <1>12 DEF GuardInv

\* Before anything is read there is no condition.
LEMMA InitGuards == Init => GuardInv
<1> SUFFICES ASSUME Init PROVE GuardInv
  OBVIOUS
<1> DEFINE e == [jmp_inst |-> 1, proc_body |-> 2]
<1>1. /\ code = Prologue /\ proc_body_backfill = <<e>> /\ while_entry_backfill = <<>>
      /\ status = "parsing"
  BY DEF Init
<1>2. /\ Len(code) = 2 /\ code[1].type = "INT" /\ code[2].type = "JMP" /\ code[2].a = 0
  BY <1>1 DEF inst_t, Prologue
<1>3. e.proc_body = 2
  OBVIOUS
<1> HIDE DEF e
<1>4. ToSet(while_entry_backfill) = {} /\ ToSet(proc_body_backfill) = {e}
  BY <1>1 DEF ToSet
<1>5. Bodies = {2}
  BY <1>3, <1>4 DEF Bodies
<1>6. \A j \in 0..(Len(code) - 1) : j + 1 = 1 \/ j + 1 = 2
  BY <1>2
<1>7. Conditions(code) = {}
  BY <1>2, <1>6 DEF Conditions
<1>8. Targeted(code) = {}
  BY <1>2, <1>6 DEF Targeted, JumpTypes
<1>9. 2 <= Len(code)
  BY <1>2
<1> QED BY <1>1, <1>4, <1>5, <1>7, <1>8, <1>9
        DEF GuardInv, Regions, Contained, OpenIn, NoneOpen, Outside, Reachable

\* A step keeps the instructions that conditions guard together.
LEMMA NextKeepsGuards ==
  ASSUME ~Siblings, IInv, IInv', SInv, MainAtBottom, BlocksInv, MarksInv, LoopsInv, GuardInv,
         [Next]_vars
  PROVE  GuardInv'
<1> SUFFICES ASSUME lexErrors' = 0 PROVE GuardInv'
  BY DEF GuardInv
<1>1. CASE UNCHANGED vars
  BY <1>1 DEF vars, automaton, stacks, procStacks, whileStacks, GuardInv, Bodies
<1>2. CASE Steady /\ status' = "parsing"
  <2>1. status = "parsing" /\ lexErrors = 0
    BY <1>2, SteadyStatus DEF Steady, Quiet, Operating
  <2>2. length' >= length /\ length' \in Nat
    <3>1. code' \in Seq(Instructions)
      BY <1>2 DEF IInv, StacksTyped
    <3> QED BY <1>2, <2>1, <3>1, CodeGrows DEF length
  <2>3. Patches
    BY <2>1 DEF LoopsInv
  <2>4. CASE ~ControlStep
    BY <1>2, <2>1, <2>4, StraightKeepsGuards
  <2>5. CASE IfHeader \/ WhileHeader
    BY <1>2, <2>1, <2>5, HeaderKeepsGuards
  <2>6. CASE WhileEntry
    BY <1>2, <2>1, <2>6, WhileEntryKeepsGuards
  <2>7. CASE IfEnd
    BY <1>2, <2>1, <2>2, <2>3, <2>7, IfEndKeepsGuards
  <2>8. CASE WhileEnd
    BY <1>2, <2>1, <2>2, <2>3, <2>8, WhileEndKeepsGuards
  <2> QED BY <2>4, <2>5, <2>6, <2>7, <2>8 DEF ControlStep
<1>3. CASE Steady /\ status' # "parsing"
  BY <1>3, SteadyStatus DEF GuardInv
<1>4. CASE ProcedureHeader
  <2>1. lexErrors = 0
    BY <1>4 DEF ProcedureHeader, Reducing, Return, automaton
  <2> QED BY <1>4, <2>1, ProcedureHeaderKeepsGuards
<1>5. CASE ProcedureEnd
  <2>1. lexErrors = 0 /\ status = "parsing"
    BY <1>5 DEF ProcedureEnd, Reducing, Reading, Return, automaton
  <2>2. Patches
    BY <2>1 DEF LoopsInv
  <2> QED BY <1>5, <2>1, <2>2, ProcedureEndKeepsGuards
<1>6. CASE Succeed
  <2>1. lexErrors = 0 /\ status = "parsing"
    BY <1>6 DEF Succeed
  <2>2. Patches
    BY <2>1 DEF LoopsInv
  <2> QED BY <1>6, <2>1, <2>2, SucceedKeepsGuards
<1>7. CASE SyntaxErrorFound
  BY <1>7 DEF SyntaxErrorFound, GuardInv
<1>8. CASE LexicalError
  <2>1. lexErrors \in Nat /\ lexErrors' = lexErrors + 1
    BY <1>8 DEF LexicalError, Reading, IInv, StacksDeep
  <2> QED BY <2>1
<1>9. Next => Steady \/ ProcedureHeader \/ ProcedureEnd \/ Succeed \/ SyntaxErrorFound
              \/ LexicalError \/ UNCHANGED vars
  BY DEF Next, Steady, Quiet, Operating, Done
<1> QED BY <1>1, <1>2, <1>3, <1>4, <1>5, <1>6, <1>7, <1>8, <1>9

\* Every program there can be, without repeated names: what a condition guards is
\* in one block and is entered through the condition (Assembler.cpp:30-65, 156-185).
THEOREM GuardInvariance ==
  ASSUME ~Siblings
  PROVE  Spec => []GuardInv
<1>1. GuardInv /\ IInv /\ IInv' /\ SInv /\ MainAtBottom /\ BlocksInv /\ MarksInv /\ LoopsInv /\ [Next]_vars
      => GuardInv'
  BY NextKeepsGuards
<1> QED BY <1>1, InitGuards, LoopsInvariance, MarksInvariance, BlocksInvariance, ScopeInvariance,
           MainStaysAtBottom, Invariance, PTL DEF Spec

\* In finished code a condition goes on forward, what it guards lies in its block, and
\* nothing from elsewhere jumps there (Assembler.cpp:160-185).
THEOREM ConditionsGuardHolds ==
  ASSUME ~Siblings
  PROVE  Spec => []ConditionsGuard
<1>1. GuardInv /\ LoopsInv => ConditionsGuard
  <2> SUFFICES ASSUME GuardInv, LoopsInv, status = "succeeded", lexErrors = 0,
                      NEW c \in Jumps, At(c).type = "JPC"
               PROVE  /\ c < At(c).a /\ At(c).a \in Addresses
                      /\ \A a \in c..At(c).a : owner[a + 1] = owner[c + 1]
                      /\ \A j \in Jumps : At(j).a \in (c + 1)..(At(c).a - 1) => j \in c..(At(c).a - 1)
    BY DEF ConditionsGuard, Plain
  <2>1. /\ code \in Seq(Instructions) /\ Regions(code, owner) /\ Contained(code) /\ NoneOpen(code)
    BY DEF GuardInv
  <2>2. \A j \in Jumps : j \in 0..(Len(code) - 1) /\ At(j).type \in JumpTypes /\ At(j) = code[j + 1]
    BY DEF Jumps, Addresses, At, JumpTypes, length
  <2>3. \A j \in Jumps : At(j).a # 0
    BY DEF LoopsInv
  <2>4. c \in Conditions(code) /\ code[c + 1].a # 0
    BY <2>2, <2>3 DEF Conditions
  <2>5. ~Blank(code[c + 1]) /\ Exit(code, c) = code[c + 1].a
    BY <2>4 DEF Blank, Exit
  <2>6. c \in Nat /\ c < Len(code) /\ Len(code) \in Nat /\ code[c + 1].a \in Int
    BY <2>1, <2>4, ConditionAt
  <2>7. /\ c < code[c + 1].a /\ code[c + 1].a < Len(code)
        /\ \A a \in c..code[c + 1].a : a < Len(code) => owner[a + 1] = owner[c + 1]
    <3>1. code[c + 1].a <= Len(code) /\ code[c + 1].a # Len(code)
      BY <2>1, <2>4, <2>5 DEF Regions, NoneOpen
    <3> QED BY <2>1, <2>4, <2>5, <2>6, <3>1 DEF Regions
  <2>8. At(c).a \in Addresses /\ At(c).a = code[c + 1].a
    BY <2>6, <2>7 DEF Addresses, At, length
  <2>9. \A a \in c..code[c + 1].a : owner[a + 1] = owner[c + 1]
    BY <2>6, <2>7
  <2>10. ASSUME NEW j \in Jumps, At(j).a \in (c + 1)..(At(c).a - 1)
         PROVE  j \in c..(At(c).a - 1)
    <3>1. j \in Targeted(code) /\ At(j) = code[j + 1]
      BY <2>2, <2>3 DEF Targeted
    <3>2. Guards(code, c, code[j + 1].a)
      BY <2>6, <2>8, <2>10, <3>1 DEF Guards
    <3>3. j = c \/ Guards(code, c, j)
      BY <2>1, <2>4, <3>1, <3>2 DEF Contained
    <3>4. j \in Nat
      BY <2>2
    <3> QED BY <2>5, <2>6, <2>7, <2>8, <3>3, <3>4 DEF Guards
  <2> QED BY <2>7, <2>8, <2>9, <2>10
<1> QED BY <1>1, GuardInvariance, LoopsInvariance, PTL
=============================================================================
