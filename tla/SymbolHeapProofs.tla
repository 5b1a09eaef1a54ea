-------------------------- MODULE SymbolHeapProofs --------------------------
(***************************************************************************)
(* Proofs about SymbolHeap, for every set of names, values and addresses,  *)
(* every content of uninitialized memory and every bound: the pointers are *)
(* sound, layers are lists, and what the operations and queries of the     *)
(* code do to them is what SymbolManager says of the lists.                *)
(***************************************************************************)
EXTENDS SymbolHeap, RecursionLemmas, SequenceTheorems, FiniteSetTheorems

-----------------------------------------------------------------------------
(***************************************************************************)
(* What is said of a heap h here.  The definitions have the heap as a      *)
(* parameter, so that they can speak of the one before a step and the one  *)
(* after it.                                                               *)
(***************************************************************************)
EntryTypes == {"PROCEDURE", "VARIABLE", "CONSTANT"}

Nameless == ""

HeapEntries ==
  [name : Names \cup {Nameless}, type : EntryTypes, value : Int, address : Int,
   parent : Nat, next : Nat, child : Nat]

\* LinksSound.
Sound(h, c) ==
  /\ c \in 1..Len(h)
  /\ \A p \in 1..Len(h) :
       /\ {h[p].parent, h[p].next, h[p].child} \subseteq NULL..Len(h)
       /\ h[p].parent < p
       /\ h[p].parent # NULL =>
            /\ h[h[p].parent].type = "PROCEDURE"
            /\ h[h[p].parent].child # NULL

\* Entries can be ranked in such a way that next leads down: no chain runs in a
\* circle.
Ranked(h) ==
  \E rank \in [1..Len(h) -> 0..(Len(h) - 1)] :
    \A p \in 1..Len(h) : h[p].next # NULL => rank[h[p].next] < rank[p]

\* No entry is the next of two.
Unshared(h) ==
  \A p, q \in 1..Len(h) : h[p].next # NULL /\ h[p].next = h[q].next => p = q

\* The i-th entry of a list, or the NULL behind its end.
At(s, i) == IF i \in 1..Len(s) THEN s[i] ELSE NULL

\* The pointers in s are those met by following next from p.
IsChain(h, p, s) ==
  /\ s \in Seq(1..Len(h))
  /\ p = At(s, 1)
  /\ \A i \in 1..Len(s) : h[s[i]].next = At(s, i + 1)

NextsInRange(h) == \A p \in 1..Len(h) : h[p].next \in NULL..Len(h)
-----------------------------------------------------------------------------
(***************************************************************************)
(* Chains: there is exactly one from every pointer, and it is what Chain   *)
(* computes.                                                               *)
(***************************************************************************)
LEMMA ChainOfNull ==
  ASSUME NEW h
  PROVE  IsChain(h, NULL, <<>>) /\ \A s : IsChain(h, NULL, s) => s = <<>>
<1>1. IsChain(h, NULL, <<>>)
  BY DEF IsChain, At
<1>2. ASSUME NEW s, IsChain(h, NULL, s) PROVE s = <<>>
  <2>1. s \in Seq(1..Len(h)) /\ 0 = At(s, 1)
    BY <1>2 DEF IsChain, NULL
  <2>2. SUFFICES ASSUME Len(s) # 0 PROVE FALSE
    BY <2>1
  <2>3. 1 \in 1..Len(s) /\ s[1] \in 1..Len(h)
    BY <2>1, <2>2
  <2>4. At(s, 1) = s[1]
    BY <2>3 DEF At
  <2>5. s[1] # 0
    BY <2>3
  <2> QED BY <2>1, <2>4, <2>5
<1> QED BY <1>1, <1>2

LEMMA ChainInFront ==
  ASSUME NEW h, NEW p \in 1..Len(h), NEW s, IsChain(h, h[p].next, s)
  PROVE  IsChain(h, p, <<p>> \o s)
<1> DEFINE t == <<p>> \o s
<1>1. s \in Seq(1..Len(h)) /\ h[p].next = At(s, 1)
  BY DEF IsChain
<1>2. /\ t \in Seq(1..Len(h)) /\ Len(t) = Len(s) + 1 /\ t[1] = p /\ Len(s) \in Nat
      /\ \A i \in 1..Len(s) : t[i + 1] = s[i]
  BY <1>1
<1> HIDE DEF t
<1>3. \A i \in 1..(Len(s) + 1) : At(t, i + 1) = At(s, i)
  <2> TAKE i \in 1..(Len(s) + 1)
  <2>1. CASE i \in 1..Len(s)
    BY <1>2, <2>1 DEF At
  <2>2. CASE i = Len(s) + 1
    BY <1>2, <2>2 DEF At
  <2> QED BY <1>2, <2>1, <2>2
<1>4. \A i \in 1..Len(t) : h[t[i]].next = At(t, i + 1)
  <2> TAKE i \in 1..Len(t)
  <2>1. CASE i = 1
    BY <1>1, <1>2, <1>3, <2>1
  <2>2. CASE i # 1
    <3>1. i - 1 \in 1..Len(s) /\ (i - 1) + 1 = i /\ i \in 1..(Len(s) + 1)
      BY <1>2, <2>2
    <3>2. t[i] = s[i - 1]
      BY <1>2, <3>1
    <3>3. h[s[i - 1]].next = At(s, i)
      BY <3>1 DEF IsChain
    <3> QED BY <1>3, <3>1, <3>2, <3>3
  <2> QED BY <2>1, <2>2
<1>5. At(t, 1) = p
  BY <1>2 DEF At
<1>6. IsChain(h, p, t)
  BY <1>2, <1>4, <1>5 DEF IsChain
<1> QED BY <1>6 DEF t

LEMMA ChainBehind ==
  ASSUME NEW h, NEW p, p # NULL, NEW s, IsChain(h, p, s)
  PROVE  p \in 1..Len(h) /\ s = <<p>> \o Tail(s) /\ IsChain(h, h[p].next, Tail(s))
<1>1. s \in Seq(1..Len(h)) /\ p = At(s, 1)
  BY DEF IsChain
<1>2. s # <<>>
  BY <1>1 DEF At
<1>3. 1 \in 1..Len(s) /\ s[1] = p /\ Len(s) \in Nat
  BY <1>1, <1>2 DEF At
<1>4. s = <<p>> \o Tail(s)
  BY <1>1, <1>2, <1>3
<1> DEFINE t == Tail(s)
<1>5. /\ t \in Seq(1..Len(h)) /\ Len(t) = Len(s) - 1
      /\ \A i \in 1..Len(t) : t[i] = s[i + 1]
  BY <1>1, <1>2
<1> HIDE DEF t
<1>6. \A i \in 1..Len(s) : At(t, i) = At(s, i + 1)
  <2> TAKE i \in 1..Len(s)
  <2>1. CASE i \in 1..Len(t)
    BY <1>3, <1>5, <2>1 DEF At
  <2>2. CASE i \notin 1..Len(t)
    BY <1>3, <1>5, <2>2 DEF At
  <2> QED BY <2>1, <2>2
<1>7. \A i \in 1..Len(s) : h[s[i]].next = At(s, i + 1)
  BY DEF IsChain
<1>8. h[p].next = At(t, 1)
  BY <1>3, <1>6, <1>7
<1>9. \A i \in 1..Len(t) : h[t[i]].next = At(t, i + 1)
  <2> TAKE i \in 1..Len(t)
  <2>1. i + 1 \in 1..Len(s)
    BY <1>3, <1>5
  <2> QED BY <1>5, <1>6, <1>7, <2>1
<1>10. IsChain(h, h[p].next, t)
  BY <1>5, <1>8, <1>9 DEF IsChain
<1>11. p \in 1..Len(h)
  BY <1>1, <1>3
<1> QED BY <1>4, <1>10, <1>11 DEF t

\* From each pointer there is one chain.
LEMMA OneChain ==
  ASSUME NEW h, Len(h) \in Nat, Ranked(h), NextsInRange(h)
  PROVE  \A p \in NULL..Len(h) : \E s : IsChain(h, p, s) /\ \A t : IsChain(h, p, t) => t = s
<1> DEFINE One(p) == \E s : IsChain(h, p, s) /\ \A t : IsChain(h, p, t) => t = s
<1>1. PICK rank \in [1..Len(h) -> 0..(Len(h) - 1)] :
        \A p \in 1..Len(h) : h[p].next # NULL => rank[h[p].next] < rank[p]
  BY DEF Ranked
<1> DEFINE S == {m \in 0..(Len(h) - 1) : \A p \in 1..Len(h) : rank[p] = m => One(p)}
<1>2. One(NULL)
  BY ChainOfNull
<1>3. \A m \in 0..(Len(h) - 1) : (\A k \in 0..(m - 1) : k \in S) => m \in S
  <2> TAKE m \in 0..(Len(h) - 1)
  <2> HAVE \A k \in 0..(m - 1) : k \in S
  <2> SUFFICES ASSUME NEW p \in 1..Len(h), rank[p] = m PROVE One(p)
    OBVIOUS
  <2>1. One(h[p].next)
    <3>1. CASE h[p].next = NULL
      BY <1>2, <3>1
    <3>2. CASE h[p].next # NULL
      <4>1. h[p].next \in 1..Len(h)
        BY <3>2 DEF NextsInRange, NULL
      <4>2. rank[h[p].next] \in 0..(m - 1)
        <5>1. rank[h[p].next] < m /\ rank[h[p].next] \in 0..(Len(h) - 1)
          BY <1>1, <3>2, <4>1
        <5> QED BY <5>1
      <4>3. rank[h[p].next] \in S
        BY <4>2
      <4> QED BY <4>1, <4>3
    <3> QED BY <3>1, <3>2
  <2>2. PICK s : IsChain(h, h[p].next, s) /\ \A t : IsChain(h, h[p].next, t) => t = s
    BY <2>1
  <2>3. IsChain(h, p, <<p>> \o s)
    BY <2>2, ChainInFront
  <2>4. ASSUME NEW t, IsChain(h, p, t) PROVE t = <<p>> \o s
    <3>1. p # NULL
      BY DEF NULL
    <3>2. t = <<p>> \o Tail(t) /\ IsChain(h, h[p].next, Tail(t))
      BY <2>4, <3>1, ChainBehind
    <3>3. Tail(t) = s
      BY <2>2, <3>2
    <3> QED BY <3>2, <3>3
  <2> QED BY <2>3, <2>4
<1> HIDE DEF S
<1>4. \A m \in 0..(Len(h) - 1) : m \in S
  <2>1. /\ 0 \in Nat /\ Len(h) - 1 \in Int
        /\ \A m \in 0..(Len(h) - 1) : (\A k \in 0..(m - 1) : k \in S) => m \in S
    BY <1>3
  <2> QED BY ONLY ZenonT(60), <2>1, Upwards
<1>5. \A p \in 1..Len(h) : One(p)
  <2> TAKE p \in 1..Len(h)
  <2>1. rank[p] \in S
    BY <1>4
  <2> QED BY <2>1 DEF S
<1> SUFFICES ASSUME NEW p \in NULL..Len(h) PROVE One(p)
  OBVIOUS
<1>6. p = NULL \/ p \in 1..Len(h)
  BY DEF NULL
<1> QED BY <1>2, <1>5, <1>6

\* Chain has one function to be, and its values are the chains.
LEMMA ChainIs ==
  ASSUME Len(heap) \in Nat, Ranked(heap), NextsInRange(heap)
  PROVE  \A p, s : IsChain(heap, p, s) => Chain[p] = s
<1> DEFINE body(f, p) == IF p = NULL THEN <<>> ELSE <<p>> \o f[heap[p].next]
           chain == [p \in Pointers |-> CHOOSE s : IsChain(heap, p, s)]
<1>1. \A p \in NULL..Len(heap) : \E s : IsChain(heap, p, s) /\ \A t : IsChain(heap, p, t) => t = s
  BY OneChain
<1>2. \A p \in Pointers : \A s : IsChain(heap, p, s) => chain[p] = s
  BY <1>1 DEF Pointers
<1>3. \A p \in Pointers : IsChain(heap, p, chain[p])
  BY <1>1, <1>2 DEF Pointers
<1> HIDE DEF chain
<1>4. \A p \in Pointers : chain[p] = body(chain, p)
  <2> TAKE p \in Pointers
  <2>1. CASE p = NULL
    BY <1>2, <2>1, ChainOfNull
  <2>2. CASE p # NULL
    <3>1. p \in 1..Len(heap) /\ chain[p] = <<p>> \o Tail(chain[p])
          /\ IsChain(heap, heap[p].next, Tail(chain[p]))
      BY <1>3, <2>2, ChainBehind
    <3>2. heap[p].next \in Pointers
      BY <3>1 DEF NextsInRange, Pointers
    <3>3. chain[heap[p].next] = Tail(chain[p])
      BY <1>2, <3>1, <3>2
    <3> QED BY <2>2, <3>1, <3>3
  <2> QED BY <2>1, <2>2
<1>5. chain = [p \in Pointers |-> body(chain, p)]
  <2>1. chain = [p \in Pointers |-> chain[p]]
    BY DEF chain
  <2> QED BY <1>4, <2>1
<1>6. Chain = CHOOSE f : f = [p \in Pointers |-> body(f, p)]
  BY DEF Chain
<1>7. Chain = [p \in Pointers |-> body(Chain, p)]
  BY <1>5, <1>6
<1>8. \A p \in Pointers : Chain[p] = body(Chain, p)
  BY <1>7
<1>9. PICK rank \in [1..Len(heap) -> 0..(Len(heap) - 1)] :
        \A p \in 1..Len(heap) : heap[p].next # NULL => rank[heap[p].next] < rank[p]
  BY DEF Ranked
<1> DEFINE S == {m \in 0..(Len(heap) - 1) : \A p \in 1..Len(heap) : rank[p] = m =>
                   \A s : IsChain(heap, p, s) => Chain[p] = s}
<1>10. \A s : IsChain(heap, NULL, s) => Chain[NULL] = s
  <2>1. NULL \in Pointers
    BY DEF Pointers, NULL
  <2>2. Chain[NULL] = <<>>
    BY <1>8, <2>1
  <2> QED BY <2>2, ChainOfNull
<1>11. \A m \in 0..(Len(heap) - 1) : (\A k \in 0..(m - 1) : k \in S) => m \in S
  <2> TAKE m \in 0..(Len(heap) - 1)
  <2> HAVE \A k \in 0..(m - 1) : k \in S
  <2> SUFFICES ASSUME NEW p \in 1..Len(heap), rank[p] = m, NEW s, IsChain(heap, p, s)
               PROVE  Chain[p] = s
    OBVIOUS
  <2>1. p # NULL /\ p \in Pointers
    BY DEF NULL, Pointers
  <2>2. s = <<p>> \o Tail(s) /\ IsChain(heap, heap[p].next, Tail(s))
    BY <2>1, ChainBehind
  <2>3. Chain[heap[p].next] = Tail(s)
    <3>1. CASE heap[p].next = NULL
      BY <1>10, <2>2, <3>1
    <3>2. CASE heap[p].next # NULL
      <4>1. heap[p].next \in 1..Len(heap)
        BY <3>2 DEF NextsInRange, NULL
      <4>2. rank[heap[p].next] < m /\ rank[heap[p].next] \in 0..(Len(heap) - 1)
        BY <1>9, <3>2, <4>1
      <4>3. rank[heap[p].next] \in 0..(m - 1)
        BY <4>2
      <4>4. rank[heap[p].next] \in S
        BY <4>3
      <4> QED BY <2>2, <4>1, <4>4
    <3> QED BY <3>1, <3>2
  <2>4. Chain[p] = <<p>> \o Chain[heap[p].next]
    BY <1>8, <2>1
  <2> QED BY <2>2, <2>3, <2>4
<1> HIDE DEF S
<1>12. \A m \in 0..(Len(heap) - 1) : m \in S
  <2>1. /\ 0 \in Nat /\ Len(heap) - 1 \in Int
        /\ \A m \in 0..(Len(heap) - 1) : (\A k \in 0..(m - 1) : k \in S) => m \in S
    BY <1>11
  <2> QED BY ONLY ZenonT(60), <2>1, Upwards
<1> SUFFICES ASSUME NEW p, NEW s, IsChain(heap, p, s) PROVE Chain[p] = s
  OBVIOUS
<1>13. CASE p = NULL
  BY <1>10, <1>13
<1>14. CASE p # NULL
  <2>1. p \in 1..Len(heap)
    BY <1>14, ChainBehind
  <2>2. rank[p] \in S
    BY <1>12, <2>1
  <2> QED BY <2>1, <2>2 DEF S
<1> QED BY <1>13, <1>14

\* An entry does not come in the chain behind it, nor twice in a chain.
LEMMA ChainDescends ==
  ASSUME NEW h, Len(h) \in Nat, Ranked(h), NEW a \in 1..Len(h), NEW s, IsChain(h, h[a].next, s)
  PROVE  /\ \A i \in 1..Len(s) : s[i] # a
         /\ \A i, j \in 1..Len(s) : s[i] = s[j] => i = j
         /\ Len(s) < Len(h)
<1> DEFINE t == <<a>> \o s
<1>1. IsChain(h, a, t)
  BY ChainInFront
<1>2. /\ s \in Seq(1..Len(h)) /\ t \in Seq(1..Len(h)) /\ Len(t) = Len(s) + 1 /\ t[1] = a
      /\ Len(s) \in Nat /\ \A i \in 1..Len(s) : t[i + 1] = s[i]
  BY DEF IsChain
<1> HIDE DEF t
<1>3. PICK rank \in [1..Len(h) -> 0..(Len(h) - 1)] :
        \A p \in 1..Len(h) : h[p].next # NULL => rank[h[p].next] < rank[p]
  BY DEF Ranked
<1>4. \A i \in 1..Len(t) : t[i] \in 1..Len(h) /\ rank[t[i]] \in 0..(Len(h) - 1)
  BY <1>2
<1>5. \A j \in 1..Len(s) : rank[t[j + 1]] < rank[t[j]]
  <2> TAKE j \in 1..Len(s)
  <2>1. j \in 1..Len(t) /\ j + 1 \in 1..Len(t)
    BY <1>2
  <2>2. h[t[j]].next = t[j + 1]
    BY <1>1, <2>1 DEF IsChain, At
  <2>3. t[j + 1] # NULL
    BY <1>4, <2>1 DEF NULL
  <2> QED BY <1>3, <1>4, <2>1, <2>2, <2>3
<1> DEFINE S == {j \in 1..Len(t) : \A i \in 1..j : rank[t[j]] + j <= rank[t[i]] + i}
<1>6. \A j \in 1..Len(t) : (\A k \in 1..(j - 1) : k \in S) => j \in S
  <2> TAKE j \in 1..Len(t)
  <2> HAVE \A k \in 1..(j - 1) : k \in S
  <2> SUFFICES ASSUME NEW i \in 1..j PROVE rank[t[j]] + j <= rank[t[i]] + i
    OBVIOUS
  <2>1. CASE i = j
    BY <1>4, <2>1
  <2>2. CASE i # j
    <3> DEFINE k == j - 1
    <3>1. k \in 1..(j - 1) /\ i \in 1..k /\ k + 1 = j /\ k \in 1..Len(s) /\ k \in 1..Len(t)
          /\ i \in 1..Len(t)
      BY <1>2, <2>2
    <3> HIDE DEF k
    <3>2. rank[t[k]] + k <= rank[t[i]] + i
      BY <3>1
    <3>3. rank[t[j]] < rank[t[k]]
      BY <1>5, <3>1
    <3>4. rank[t[k]] \in Int /\ rank[t[j]] \in Int /\ rank[t[i]] \in Int
      BY <1>4, <3>1
    <3>5. k \in Int /\ i \in Int /\ j = k + 1
      BY <3>1
    <3>6. \A x, y, z, u, v \in Int : x < y /\ y + u <= z + v => x + (u + 1) <= z + v
      OBVIOUS
    <3>7. rank[t[j]] + (k + 1) <= rank[t[i]] + i
      BY ONLY <3>2, <3>3, <3>4, <3>5, <3>6
    <3> QED BY <3>5, <3>7
  <2> QED BY <2>1, <2>2
<1> HIDE DEF S
<1>7. \A j \in 1..Len(t) : j \in S
  <2>1. /\ 1 \in Nat /\ Len(t) \in Int
        /\ \A j \in 1..Len(t) : (\A k \in 1..(j - 1) : k \in S) => j \in S
    BY <1>2, <1>6
  <2> QED BY ONLY <2>1, Upwards
<1>8. \A j \in 1..Len(t) : \A i \in 1..j : rank[t[j]] + j <= rank[t[i]] + i
  BY <1>7 DEF S
<1>9. \A i, j \in 1..Len(t) : i < j => t[i] # t[j]
  <2> SUFFICES ASSUME NEW i \in 1..Len(t), NEW j \in 1..Len(t), i < j, t[i] = t[j] PROVE FALSE
    OBVIOUS
  <2>1. rank[t[j]] + j <= rank[t[i]] + i
    BY <1>8
  <2>2. rank[t[i]] \in Int
    BY <1>4
  <2> QED BY <2>1, <2>2
<1>10. \A i \in 1..Len(s) : s[i] # a
  <2> TAKE i \in 1..Len(s)
  <2>1. 1 \in 1..Len(t) /\ i + 1 \in 1..Len(t) /\ 1 < i + 1
    BY <1>2
  <2>2. t[1] # t[i + 1]
    BY <1>9, <2>1
  <2> QED BY <1>2, <2>2
<1>11. \A i, j \in 1..Len(s) : s[i] = s[j] => i = j
  <2> SUFFICES ASSUME NEW i \in 1..Len(s), NEW j \in 1..Len(s), s[i] = s[j], i # j PROVE FALSE
    OBVIOUS
  <2>1. i + 1 \in 1..Len(t) /\ j + 1 \in 1..Len(t) /\ (i + 1 < j + 1 \/ j + 1 < i + 1)
    BY <1>2
  <2>2. t[i + 1] # t[j + 1]
    BY <1>9, <2>1
  <2> QED BY <1>2, <2>2
<1>12. Len(s) < Len(h)
  <2>1. Len(t) \in 1..Len(t) /\ 1 \in 1..Len(t)
    BY <1>2
  <2>2. rank[t[Len(t)]] + Len(t) <= rank[t[1]] + 1
    BY <1>8, <2>1
  <2>3. rank[t[Len(t)]] \in 0..(Len(h) - 1) /\ rank[t[1]] \in 0..(Len(h) - 1)
    BY <1>4, <2>1
  <2>4. \A x, y, l, m \in Int : 0 <= x /\ x + (l + 1) <= y + 1 /\ y <= m - 1 => l < m
    OBVIOUS
  <2>5. 0 <= rank[t[Len(t)]] /\ rank[t[Len(t)]] \in Int /\ rank[t[1]] \in Int /\ rank[t[1]] <= Len(h) - 1
    BY <2>3
  <2>6. Len(s) \in Int /\ Len(h) \in Int /\ rank[t[Len(t)]] + (Len(s) + 1) <= rank[t[1]] + 1
    BY <1>2, <2>2
  <2> QED BY ONLY <2>4, <2>5, <2>6
<1> QED BY <1>10, <1>11, <1>12
-----------------------------------------------------------------------------
(***************************************************************************)
(* The layers a heap represents: n of them are open, with the head entries *)
(* hs, outermost first, and the lists ls behind these.                     *)
(***************************************************************************)
Represents(h, c, n, hs, ls) ==
  /\ n \in Nat \ {0}
  /\ hs \in [1..n -> 1..Len(h)] /\ ls \in [1..n -> Seq(1..Len(h))]
  /\ hs[1] = root /\ h[root].parent = NULL
  /\ \A d \in 1..n :
       /\ IsChain(h, h[hs[d]].next, ls[d])
       /\ \A i \in 1..Len(ls[d]) : h[ls[d][i]].parent = h[hs[d]].parent
       /\ [type |-> h[hs[d]].type, address |-> h[hs[d]].address] \in Garbage
  /\ \A d \in 1..(n - 1) :
       /\ ls[d] # <<>>
       /\ h[hs[d + 1]].parent = ls[d][1]
       /\ h[ls[d][1]].child = hs[d + 1]
  /\ \A d, e \in 1..n : d < e => h[hs[d]].parent < h[hs[e]].parent
  /\ c = hs[n] \/ \E i \in 1..Len(ls[n]) : c = ls[n][i]

\* What is true of every heap, whatever layers are open.
Linked(h, c) ==
  h \in Seq(HeapEntries) /\ Sound(h, c) /\ Ranked(h) /\ Unshared(h)

LEMMA LinkedFacts ==
  ASSUME NEW h, NEW c, Linked(h, c)
  PROVE  /\ Len(h) \in Nat /\ c \in 1..Len(h) /\ 1 \in 1..Len(h)
         /\ Ranked(h) /\ NextsInRange(h)
         /\ \A p \in 1..Len(h) : h[p] \in HeapEntries
         /\ \A p \in 1..Len(h) : h[p].parent \in NULL..Len(h) /\ h[p].parent < p
<1>1. h \in Seq(HeapEntries) /\ Sound(h, c) /\ Ranked(h)
  BY DEF Linked
<1>2. Len(h) \in Nat /\ c \in 1..Len(h)
  BY <1>1 DEF Sound
<1>3. \A p \in 1..Len(h) : h[p] \in HeapEntries
  BY <1>1
<1>4. \A p \in 1..Len(h) : {h[p].parent, h[p].next, h[p].child} \subseteq NULL..Len(h) /\ h[p].parent < p
  BY <1>1 DEF Sound
<1> QED BY SMTT(60), <1>1, <1>2, <1>3, <1>4 DEF NextsInRange

\* A function that follows the parents outward, which are older.
GoesOutward(N, up, R, r, join) ==
  /\ N \in Nat /\ up \in [1..N -> Nat] /\ \A p \in 1..N : up[p] < p
  /\ r \in R /\ join \in [1..N -> [R -> R]]

LEMMA Outwards ==
  ASSUME NEW N, NEW up, NEW R, NEW r, NEW join, GoesOutward(N, up, R, r, join)
  PROVE  \E f \in [0..N -> R] : f[0] = r /\ \A p \in 1..N : f[p] = join[p][f[up[p]]]
<1> USE DEF GoesOutward
<1> DEFINE step == [p \in 0..N |-> [f \in [0..N -> R] |->
                     IF p = 0 THEN r ELSE join[p][f[up[p]]]]]
<1>1. \A p \in 0..N : p # 0 => p \in 1..N /\ up[p] \in 0..(p - 1) /\ up[p] \in 0..N
  OBVIOUS
<1>2. \A p \in 0..N : \A f \in [0..N -> R] : (IF p = 0 THEN r ELSE join[p][f[up[p]]]) \in R
  BY <1>1
<1>3. step \in [0..N -> [[0..N -> R] -> R]]
  BY <1>2
<1>4. \A p \in 0..N : \A f \in [0..N -> R] :
        step[p][f] = IF p = 0 THEN r ELSE join[p][f[up[p]]]
  OBVIOUS
<1> HIDE DEF step
<1>5. \A p \in 0..N : \A f, g \in [0..N -> R] :
        (\A k \in 0..(p - 1) : f[k] = g[k]) => step[p][f] = step[p][g]
  <2> TAKE p \in 0..N
  <2> TAKE f, g \in [0..N -> R]
  <2> HAVE \A k \in 0..(p - 1) : f[k] = g[k]
  <2>1. p # 0 => f[up[p]] = g[up[p]]
    BY <1>1
  <2> QED BY <1>4, <2>1
<1>6. \E f \in [0..N -> R] : \A p \in 0..N : f[p] = step[p][f]
  <2>1. 0 \in Nat /\ 0 <= N /\ N \in Nat /\ r \in R
    OBVIOUS
  <2>2. LooksBack(step, 0, N, R)
    BY <1>3, <1>5 DEF LooksBack
  <2> QED BY ONLY <2>1, <2>2, RecursionUpwards
<1>7. PICK f \in [0..N -> R] : \A p \in 0..N : f[p] = step[p][f]
  BY <1>6
<1>8. f[0] = r /\ \A p \in 1..N : f[p] = join[p][f[up[p]]]
  BY <1>4, <1>7
<1> QED BY <1>8
-----------------------------------------------------------------------------
(***************************************************************************)
(* What an insertion does to a heap: new entries are allocated, the first  *)
(* of them becomes the next of a, and has itself what a had for its next,  *)
(* or nothing.                                                             *)
(***************************************************************************)
Grown(h, g, a) ==
  /\ g \in Seq(HeapEntries) /\ Len(h) < Len(g) /\ a \in 1..Len(h)
  /\ \A p \in 1..Len(h) : g[p] = IF p = a THEN [h[p] EXCEPT !.next = Len(h) + 1] ELSE h[p]
  /\ g[Len(h) + 1].next \in {NULL, h[a].next}
  /\ \A p \in (Len(h) + 2)..Len(g) : g[p].next = NULL

LEMMA Widened ==
  ASSUME NEW S, NEW T, S \subseteq T, NEW s \in Seq(S)
  PROVE  s \in Seq(T)
OBVIOUS

LEMMA GrownFields ==
  ASSUME NEW h, NEW c, Linked(h, c), NEW g, NEW a, Grown(h, g, a)
  PROVE  /\ Len(h) \in Nat /\ Len(g) \in Nat /\ Len(h) < Len(g)
         /\ 1..Len(h) \subseteq 1..Len(g) /\ Len(h) + 1 \in 1..Len(g)
         /\ \A p \in 1..Len(h) :
              /\ g[p].parent = h[p].parent /\ g[p].child = h[p].child /\ g[p].name = h[p].name
              /\ g[p].type = h[p].type /\ g[p].value = h[p].value /\ g[p].address = h[p].address
              /\ p # a => g[p].next = h[p].next
              /\ h[p].next \in NULL..Len(h)
         /\ g[a].next = Len(h) + 1
<1>1. /\ Len(h) \in Nat /\ NextsInRange(h) /\ \A p \in 1..Len(h) : h[p] \in HeapEntries
  BY LinkedFacts
<1>2. Len(g) \in Nat /\ Len(h) < Len(g) /\ a \in 1..Len(h)
  BY DEF Grown
<1>3. \A p \in 1..Len(h) : g[p] = IF p = a THEN [h[p] EXCEPT !.next = Len(h) + 1] ELSE h[p]
  BY DEF Grown
<1>4. \A p \in 1..Len(h) :
        /\ g[p].parent = h[p].parent /\ g[p].child = h[p].child /\ g[p].name = h[p].name
        /\ g[p].type = h[p].type /\ g[p].value = h[p].value /\ g[p].address = h[p].address
        /\ p # a => g[p].next = h[p].next
        /\ p = a => g[p].next = Len(h) + 1
  <2> TAKE p \in 1..Len(h)
  <2>1. h[p] \in HeapEntries
    BY <1>1
  <2>2. CASE p = a
    <3>1. g[p] = [h[p] EXCEPT !.next = Len(h) + 1]
      BY <1>3, <2>2
    <3> QED BY <2>1, <2>2, <3>1 DEF HeapEntries
  <2>3. CASE p # a
    BY <1>3, <2>3
  <2> QED BY <2>2, <2>3
<1> QED BY <1>1, <1>2, <1>4 DEF NextsInRange

LEMMA GrownRanked ==
  ASSUME NEW h, NEW c, Linked(h, c), NEW g, NEW a, Grown(h, g, a)
  PROVE  Ranked(g)
<1>1. /\ Len(h) \in Nat /\ Len(g) \in Nat /\ Len(h) < Len(g)
      /\ \A p \in 1..Len(h) : p # a => g[p].next = h[p].next
      /\ \A p \in 1..Len(h) : h[p].next \in NULL..Len(h)
      /\ g[a].next = Len(h) + 1
  BY GrownFields
<1>2. a \in 1..Len(h) /\ g[Len(h) + 1].next \in {NULL, h[a].next}
      /\ \A p \in (Len(h) + 2)..Len(g) : g[p].next = NULL
  BY DEF Grown
<1>3. PICK rank \in [1..Len(h) -> 0..(Len(h) - 1)] :
        \A p \in 1..Len(h) : h[p].next # NULL => rank[h[p].next] < rank[p]
  BY DEF Linked, Ranked
\* The entries from a upwards make room.
<1> DEFINE up(p) == IF rank[a] <= rank[p] THEN rank[p] + 1 ELSE rank[p]
           new == [p \in 1..Len(g) |-> IF p \in 1..Len(h) THEN up(p)
                                       ELSE IF p = Len(h) + 1 THEN rank[a] ELSE 0]
<1>4. \A p \in 1..Len(h) : rank[p] \in Nat /\ rank[p] <= Len(h) - 1 /\ up(p) \in Nat /\ up(p) <= Len(h)
  <2> TAKE p \in 1..Len(h)
  <2>1. rank[p] \in 0..(Len(h) - 1) /\ rank[a] \in 0..(Len(h) - 1)
    BY <1>2, <1>3
  <2> QED BY <1>1, <2>1
<1>5. new \in [1..Len(g) -> 0..(Len(g) - 1)]
  <2>1. ASSUME NEW p \in 1..Len(g)
        PROVE  (IF p \in 1..Len(h) THEN up(p) ELSE IF p = Len(h) + 1 THEN rank[a] ELSE 0) \in 0..(Len(g) - 1)
    <3> HIDE DEF up, new
    <3>1. CASE p \in 1..Len(h)
      <4>1. up(p) \in Nat /\ up(p) <= Len(h)
        BY <1>4, <3>1
      <4> QED BY <1>1, <3>1, <4>1
    <3>2. CASE p \notin 1..Len(h)
      <4>1. rank[a] \in Nat /\ rank[a] <= Len(h) - 1
        BY <1>2, <1>4
      <4> QED BY <1>1, <3>2, <4>1
    <3> QED BY <3>1, <3>2
  <2> QED BY <2>1
<1>6. /\ \A p \in 1..Len(h) : new[p] = up(p)
      /\ new[Len(h) + 1] = rank[a]
  BY <1>1
<1> HIDE DEF new
<1>7. ASSUME NEW p \in 1..Len(g), g[p].next # NULL PROVE new[g[p].next] < new[p]
  <2>1. CASE p \in 1..Len(h) /\ p # a
    <3> DEFINE q == h[p].next
    <3>1. g[p].next = q /\ q # NULL /\ q \in 1..Len(h)
      BY <1>1, <1>7, <2>1 DEF NULL
    <3> HIDE DEF q
    <3>2. rank[q] < rank[p]
      BY <1>3, <2>1, <3>1 DEF q
    <3>3. rank[q] \in Nat /\ rank[p] \in Nat /\ rank[a] \in Nat
      BY <1>2, <1>4, <2>1, <3>1
    <3>4. up(q) < up(p)
      BY <3>2, <3>3
    <3> HIDE DEF up
    <3> QED BY <1>6, <2>1, <3>1, <3>4
  <2>2. CASE p = a
    <3>1. rank[a] \in Nat
      BY <1>2, <1>4
    <3>2. new[p] = rank[a] + 1
      BY <1>2, <1>6, <2>2, <3>1
    <3>3. new[g[p].next] = rank[a]
      BY <1>1, <1>6, <2>2
    <3> QED BY <3>1, <3>2, <3>3
  <2>3. CASE p = Len(h) + 1
    <3> DEFINE q == h[a].next
    <3>1. g[p].next = q /\ q # NULL /\ q \in 1..Len(h)
      BY <1>1, <1>2, <1>7, <2>3 DEF NULL
    <3> HIDE DEF q
    <3>2. rank[q] < rank[a]
      BY <1>2, <1>3, <3>1 DEF q
    <3>3. rank[q] \in Nat /\ rank[a] \in Nat
      BY <1>2, <1>4, <3>1
    <3>4. up(q) = rank[q]
      BY <3>2, <3>3
    <3> HIDE DEF up
    <3> QED BY <1>6, <2>3, <3>1, <3>2, <3>4
  <2>4. CASE p \in (Len(h) + 2)..Len(g)
    BY <1>2, <1>7, <2>4
  <2>5. p \in 1..Len(h) \/ p = Len(h) + 1 \/ p \in (Len(h) + 2)..Len(g)
    BY <1>1
  <2> QED BY <2>1, <2>2, <2>3, <2>4, <2>5
<1> QED BY <1>5, <1>7 DEF Ranked

LEMMA GrownUnshared ==
  ASSUME NEW h, NEW c, Linked(h, c), NEW g, NEW a, Grown(h, g, a)
  PROVE  Unshared(g)
<1>1. /\ Len(h) \in Nat /\ Len(g) \in Nat /\ Len(h) < Len(g)
      /\ \A p \in 1..Len(h) : p # a => g[p].next = h[p].next
      /\ \A p \in 1..Len(h) : h[p].next \in NULL..Len(h)
      /\ g[a].next = Len(h) + 1
  BY GrownFields
<1>2. a \in 1..Len(h) /\ g[Len(h) + 1].next \in {NULL, h[a].next}
      /\ \A p \in (Len(h) + 2)..Len(g) : g[p].next = NULL
  BY DEF Grown
<1>3. \A p, q \in 1..Len(h) : h[p].next # NULL /\ h[p].next = h[q].next => p = q
  BY DEF Linked, Unshared
\* The new entry stands for a among the entries that had a next.
<1> DEFINE old(p) == IF p = Len(h) + 1 THEN a ELSE p
<1>4. ASSUME NEW p \in 1..Len(g), g[p].next # NULL, p # a
      PROVE  old(p) \in 1..Len(h) /\ g[p].next = h[old(p)].next /\ (p = Len(h) + 1 <=> old(p) = a)
             /\ g[p].next # Len(h) + 1
  <2>1. p \in 1..Len(h) \/ p = Len(h) + 1
    <3>1. p \notin (Len(h) + 2)..Len(g)
      BY <1>2, <1>4
    <3> QED BY <1>1, <3>1
  <2>2. CASE p \in 1..Len(h)
    BY <1>1, <1>4, <2>2
  <2>3. CASE p = Len(h) + 1
    BY <1>1, <1>2, <1>4, <2>3
  <2> QED BY <2>1, <2>2, <2>3
<1>5. ASSUME NEW p \in 1..Len(g), NEW q \in 1..Len(g), g[p].next # NULL, g[p].next = g[q].next
      PROVE  p = q
  <2>1. CASE p = a
    BY <1>1, <1>4, <1>5, <2>1
  <2>2. CASE p # a /\ q = a
    BY <1>1, <1>4, <1>5, <2>2
  <2>3. CASE p # a /\ q # a
    <3>1. /\ old(p) \in 1..Len(h) /\ g[p].next = h[old(p)].next /\ (p = Len(h) + 1 <=> old(p) = a)
          /\ old(q) \in 1..Len(h) /\ g[q].next = h[old(q)].next /\ (q = Len(h) + 1 <=> old(q) = a)
      <4> HIDE DEF old
      <4> QED BY <1>4, <1>5, <2>3
    <3>2. old(p) = old(q)
      <4> HIDE DEF old
      <4> QED BY <1>3, <1>5, <3>1
    <3> QED BY <3>1, <3>2
  <2> QED BY <2>1, <2>2, <2>3
<1> QED BY <1>5 DEF Unshared

\* A chain that does not come by a is as it was.
LEMMA GrownChain ==
  ASSUME NEW h, NEW c, Linked(h, c), NEW g, NEW a, Grown(h, g, a),
         NEW p, NEW s, IsChain(h, p, s), \A i \in 1..Len(s) : s[i] # a
  PROVE  IsChain(g, p, s)
<1>1. /\ 1..Len(h) \subseteq 1..Len(g)
      /\ \A q \in 1..Len(h) : q # a => g[q].next = h[q].next
  BY GrownFields
<1>2. s \in Seq(1..Len(h)) /\ p = At(s, 1) /\ \A i \in 1..Len(s) : h[s[i]].next = At(s, i + 1)
  BY DEF IsChain
<1>3. s \in Seq(1..Len(g)) /\ \A i \in 1..Len(s) : s[i] \in 1..Len(h)
  BY SMTT(60), <1>1, <1>2
<1>4. \A i \in 1..Len(s) : g[s[i]].next = At(s, i + 1)
  BY <1>1, <1>2, <1>3
<1> QED BY <1>2, <1>3, <1>4 DEF IsChain
-----------------------------------------------------------------------------
(***************************************************************************)
(* The layers after an insertion, and after the return to the outer layer. *)
(***************************************************************************)
\* a is the head of the innermost layer or an entry of it.
Innermost(a, n, hs, ls) == a = hs[n] \/ \E i \in 1..Len(ls[n]) : a = ls[n][i]

LayerFacts(h, c, n, hs, ls) ==
  /\ n \in Nat \ {0} /\ n \in 1..n /\ hs[1] = root /\ Innermost(c, n, hs, ls)
  /\ h[root].parent = NULL
  /\ \A d \in 1..n :
       /\ hs[d] \in 1..Len(h) /\ ls[d] \in Seq(1..Len(h)) /\ Len(ls[d]) \in Nat
       /\ IsChain(h, h[hs[d]].next, ls[d])
       /\ \A i \in 1..Len(ls[d]) : ls[d][i] \in 1..Len(h) /\ h[ls[d][i]].parent = h[hs[d]].parent
  /\ \A d \in 1..(n - 1) :
       /\ d \in 1..n /\ d + 1 \in 1..n /\ 1 \in 1..Len(ls[d])
       /\ h[hs[d + 1]].parent = ls[d][1] /\ h[ls[d][1]].child = hs[d + 1]

LEMMA RepresentsFacts ==
  ASSUME NEW h, NEW c, Linked(h, c), NEW n, NEW hs, NEW ls, Represents(h, c, n, hs, ls)
  PROVE  LayerFacts(h, c, n, hs, ls)
<1>1. /\ n \in Nat \ {0} /\ hs[1] = root /\ Innermost(c, n, hs, ls) /\ h[root].parent = NULL
      /\ hs \in [1..n -> 1..Len(h)] /\ ls \in [1..n -> Seq(1..Len(h))]
  BY DEF Represents, Innermost
<1>2. \A d \in 1..n :
        /\ IsChain(h, h[hs[d]].next, ls[d])
        /\ \A i \in 1..Len(ls[d]) : h[ls[d][i]].parent = h[hs[d]].parent
  BY DEF Represents
<1>3. \A d \in 1..n :
        /\ hs[d] \in 1..Len(h) /\ ls[d] \in Seq(1..Len(h)) /\ Len(ls[d]) \in Nat
        /\ \A i \in 1..Len(ls[d]) : ls[d][i] \in 1..Len(h)
  BY <1>1
<1>4. \A d \in 1..(n - 1) :
        ls[d] # <<>> /\ h[hs[d + 1]].parent = ls[d][1] /\ h[ls[d][1]].child = hs[d + 1]
  BY DEF Represents
<1>5. \A d \in 1..(n - 1) : d \in 1..n /\ d + 1 \in 1..n
  BY <1>1
<1>6. \A d \in 1..(n - 1) : 1 \in 1..Len(ls[d])
  <2> TAKE d \in 1..(n - 1)
  <2>1. ls[d] \in Seq(1..Len(h)) /\ ls[d] # <<>>
    BY <1>3, <1>4, <1>5
  <2> QED BY <2>1
<1>7. n \in 1..n
  BY <1>1
<1> QED BY <1>1, <1>2, <1>3, <1>4, <1>5, <1>6, <1>7 DEF LayerFacts

\* Its entries have one parent, and no other layer's entries have it.
LEMMA InnermostApart ==
  ASSUME NEW h, NEW c, Linked(h, c), NEW n, NEW hs, NEW ls, Represents(h, c, n, hs, ls),
         NEW a, Innermost(a, n, hs, ls)
  PROVE  /\ a \in 1..Len(h) /\ h[a].parent = h[hs[n]].parent
         /\ \A d \in 1..n : d # n => hs[d] # a /\ \A i \in 1..Len(ls[d]) : ls[d][i] # a
<1>1. /\ n \in Nat \ {0} /\ n \in 1..n
      /\ \A d \in 1..n :
           /\ hs[d] \in 1..Len(h)
           /\ \A i \in 1..Len(ls[d]) : ls[d][i] \in 1..Len(h) /\ h[ls[d][i]].parent = h[hs[d]].parent
  <2>1. LayerFacts(h, c, n, hs, ls)
    BY RepresentsFacts
  <2> QED BY <2>1 DEF LayerFacts
<1>2. a \in 1..Len(h) /\ h[a].parent = h[hs[n]].parent
  BY <1>1 DEF Innermost
<1>3. \A d, e \in 1..n : d < e => h[hs[d]].parent < h[hs[e]].parent
  BY DEF Represents
<1>4. \A p \in 1..Len(h) : h[p].parent \in NULL..Len(h)
  BY LinkedFacts
<1>5. ASSUME NEW d \in 1..n, d # n PROVE h[hs[d]].parent # h[hs[n]].parent
  <2>1. d < n
    BY <1>1, <1>5
  <2>2. h[hs[d]].parent < h[hs[n]].parent
    BY <1>1, <1>3, <2>1
  <2>3. h[hs[d]].parent \in Int /\ h[hs[n]].parent \in Int
    BY <1>1, <1>4 DEF NULL
  <2> QED BY <2>2, <2>3
<1>6. ASSUME NEW d \in 1..n, d # n PROVE hs[d] # a /\ \A i \in 1..Len(ls[d]) : ls[d][i] # a
  BY <1>1, <1>2, <1>5, <1>6
<1> QED BY <1>2, <1>6

\* When an entry of the innermost layer gets a new one for its next, this
\* layer has another list and the others stay.
LEMMA LayerRelisted ==
  ASSUME NEW h, NEW c, Linked(h, c), NEW n, NEW hs, NEW ls, Represents(h, c, n, hs, ls),
         NEW g, NEW a, Grown(h, g, a), Innermost(a, n, hs, ls),
         NEW s, IsChain(g, g[hs[n]].next, s),
         \A i \in 1..Len(s) : g[s[i]].parent = h[hs[n]].parent,
         NEW b, b = hs[n] \/ \E i \in 1..Len(s) : b = s[i]
  PROVE  Represents(g, b, n, hs, [ls EXCEPT ![n] = s])
<1> DEFINE new == [ls EXCEPT ![n] = s]
<1>1. /\ n \in Nat \ {0} /\ n \in 1..n /\ hs[1] = root /\ h[root].parent = NULL
      /\ \A d \in 1..n :
           /\ hs[d] \in 1..Len(h) /\ ls[d] \in Seq(1..Len(h))
           /\ IsChain(h, h[hs[d]].next, ls[d])
           /\ \A i \in 1..Len(ls[d]) : ls[d][i] \in 1..Len(h) /\ h[ls[d][i]].parent = h[hs[d]].parent
      /\ \A d \in 1..(n - 1) :
           /\ d \in 1..n /\ d + 1 \in 1..n /\ 1 \in 1..Len(ls[d])
           /\ h[hs[d + 1]].parent = ls[d][1] /\ h[ls[d][1]].child = hs[d + 1]
  <2>1. LayerFacts(h, c, n, hs, ls)
    BY RepresentsFacts
  <2> QED BY <2>1 DEF LayerFacts
<1>2. /\ hs \in [1..n -> 1..Len(h)] /\ ls \in [1..n -> Seq(1..Len(h))]
      /\ \A d \in 1..n : [type |-> h[hs[d]].type, address |-> h[hs[d]].address] \in Garbage
      /\ \A d \in 1..(n - 1) : ls[d] # <<>>
      /\ \A d, e \in 1..n : d < e => h[hs[d]].parent < h[hs[e]].parent
  BY DEF Represents
<1>3. /\ 1..Len(h) \subseteq 1..Len(g)
      /\ \A p \in 1..Len(h) :
           /\ g[p].parent = h[p].parent /\ g[p].child = h[p].child
           /\ g[p].type = h[p].type /\ g[p].address = h[p].address
           /\ p # a => g[p].next = h[p].next
  BY GrownFields
<1>4. \A d \in 1..n : d # n => hs[d] # a /\ \A i \in 1..Len(ls[d]) : ls[d][i] # a
  BY InnermostApart
<1>5. s \in Seq(1..Len(g))
  BY DEF IsChain
<1>6. \A d \in 1..n : d # n => ls[d] \in Seq(1..Len(g))
  BY <1>1, <1>3, Widened
<1>7. new \in [1..n -> Seq(1..Len(g))] /\ new[n] = s /\ \A d \in 1..n : d # n => new[d] = ls[d]
  BY <1>1, <1>2, <1>5, <1>6
<1> HIDE DEF new
<1>8. hs \in [1..n -> 1..Len(g)] /\ root \in 1..Len(h)
  BY <1>1, <1>2, <1>3
<1>9. ASSUME NEW d \in 1..n
      PROVE  /\ IsChain(g, g[hs[d]].next, new[d])
             /\ \A i \in 1..Len(new[d]) : g[new[d][i]].parent = g[hs[d]].parent
             /\ [type |-> g[hs[d]].type, address |-> g[hs[d]].address] \in Garbage
  <2>1. CASE d = n
    <3>1. g[hs[n]].parent = h[hs[n]].parent /\ g[hs[n]].type = h[hs[n]].type
          /\ g[hs[n]].address = h[hs[n]].address
      BY <1>1, <1>3
    <3>2. [type |-> g[hs[n]].type, address |-> g[hs[n]].address] \in Garbage
      BY <1>1, <1>2, <3>1
    <3>3. IsChain(g, g[hs[n]].next, new[n])
      BY <1>7
    <3>4. \A i \in 1..Len(new[n]) : g[new[n][i]].parent = g[hs[n]].parent
      BY <1>7, <3>1
    <3> QED BY <2>1, <3>2, <3>3, <3>4
  <2>2. CASE d # n
    <3>1. g[hs[d]].next = h[hs[d]].next
      BY <1>1, <1>3, <1>4, <2>2
    <3>2. IsChain(g, h[hs[d]].next, ls[d])
      <4>1. IsChain(h, h[hs[d]].next, ls[d]) /\ \A i \in 1..Len(ls[d]) : ls[d][i] # a
        BY <1>1, <1>4, <2>2
      <4>2. \A p, s2 : IsChain(h, p, s2) /\ (\A i \in 1..Len(s2) : s2[i] # a) => IsChain(g, p, s2)
        BY GrownChain
      <4> QED BY <4>1, <4>2
    <3>3. hs[d] \in 1..Len(h) /\ \A i \in 1..Len(ls[d]) : ls[d][i] \in 1..Len(h)
                                  /\ h[ls[d][i]].parent = h[hs[d]].parent
      BY <1>1
    <3>4. \A i \in 1..Len(ls[d]) : g[ls[d][i]].parent = g[hs[d]].parent
      BY <1>3, <3>3
    <3>5. [type |-> g[hs[d]].type, address |-> g[hs[d]].address] \in Garbage
      BY <1>2, <1>3, <3>3
    <3> QED BY <1>7, <2>2, <3>1, <3>2, <3>4, <3>5
  <2> QED BY <2>1, <2>2
<1>10. ASSUME NEW d \in 1..(n - 1)
       PROVE  /\ new[d] # <<>>
              /\ g[hs[d + 1]].parent = new[d][1]
              /\ g[new[d][1]].child = hs[d + 1]
  <2>1. d \in 1..n /\ d # n /\ d + 1 \in 1..n
    BY <1>1
  <2>2. new[d] = ls[d] /\ ls[d] # <<>>
    BY <1>2, <1>7, <2>1
  <2>3. hs[d + 1] \in 1..Len(h) /\ ls[d][1] \in 1..Len(h)
    BY <1>1, <2>1
  <2> QED BY ZenonT(60), <1>1, <1>3, <2>2, <2>3
<1>11. \A d, e \in 1..n : d < e => g[hs[d]].parent < g[hs[e]].parent
  BY ZenonT(60), <1>1, <1>2, <1>3
<1>12. b = hs[n] \/ \E i \in 1..Len(new[n]) : b = new[n][i]
  BY <1>7
<1>13. hs[1] = root /\ g[root].parent = NULL
  BY <1>1, <1>3, <1>8
<1> QED BY <1>1, <1>7, <1>8, <1>9, <1>10, <1>11, <1>12, <1>13 DEF Represents, new

\* An entry linked in behind the head of the layer.
LEMMA LinkedAtHead ==
  ASSUME NEW h, NEW c, Linked(h, c), NEW n, NEW hs, NEW ls, Represents(h, c, n, hs, ls),
         NEW g, Grown(h, g, hs[n]), g[Len(h) + 1].next = h[hs[n]].next,
         g[Len(h) + 1].parent = h[hs[n]].parent
  PROVE  Represents(g, Len(h) + 1, n, hs, [ls EXCEPT ![n] = <<Len(h) + 1>> \o ls[n]])
<1> DEFINE s == <<Len(h) + 1>> \o ls[n]
<1>1. /\ n \in 1..n /\ hs[n] \in 1..Len(h) /\ ls[n] \in Seq(1..Len(h)) /\ Len(ls[n]) \in Nat
      /\ IsChain(h, h[hs[n]].next, ls[n])
      /\ \A i \in 1..Len(ls[n]) : ls[n][i] \in 1..Len(h) /\ h[ls[n][i]].parent = h[hs[n]].parent
  <2>1. LayerFacts(h, c, n, hs, ls)
    BY RepresentsFacts
  <2> QED BY <2>1 DEF LayerFacts
<1>2. Len(h) \in Nat /\ Ranked(h)
  BY LinkedFacts
<1>3. \A i \in 1..Len(ls[n]) : ls[n][i] # hs[n]
  BY SMTT(60), <1>1, <1>2, ChainDescends
<1>4. IsChain(g, h[hs[n]].next, ls[n])
  BY SMTT(60), <1>1, <1>3, GrownChain
<1>5. Len(h) + 1 \in 1..Len(g) /\ g[hs[n]].next = Len(h) + 1
      /\ \A p \in 1..Len(h) : g[p].parent = h[p].parent
  BY GrownFields
<1>6. IsChain(g, g[hs[n]].next, s)
  <2> DEFINE f == Len(h) + 1
  <2>1. f \in 1..Len(g) /\ IsChain(g, g[f].next, ls[n])
    BY <1>4, <1>5
  <2> HIDE DEF f
  <2>2. IsChain(g, f, <<f>> \o ls[n])
    BY <2>1, ChainInFront
  <2> QED BY <1>5, <2>2 DEF f
<1>7. /\ Len(s) = Len(ls[n]) + 1 /\ s[1] = Len(h) + 1
      /\ \A i \in 1..Len(s) : i # 1 => i - 1 \in 1..Len(ls[n]) /\ s[i] = ls[n][i - 1]
  BY <1>1
<1> HIDE DEF s
<1>8. \A i \in 1..Len(s) : g[s[i]].parent = h[hs[n]].parent
  BY <1>1, <1>5, <1>7
<1>9. 1 \in 1..Len(s)
  BY <1>1, <1>7
<1>10. Innermost(hs[n], n, hs, ls) /\ \E i \in 1..Len(s) : Len(h) + 1 = s[i]
  BY <1>7, <1>9 DEF Innermost
<1>11. Represents(g, Len(h) + 1, n, hs, [ls EXCEPT ![n] = s])
  BY <1>6, <1>8, <1>10, LayerRelisted
<1> QED BY <1>11 DEF s

\* An entry linked in behind cur, which is at the k-th place of its layer: what
\* followed it is cut off.
LEMMA LinkedBehind ==
  ASSUME NEW h, NEW c, Linked(h, c), NEW n, NEW hs, NEW ls, Represents(h, c, n, hs, ls),
         NEW k \in 0..Len(ls[n]), c = IF k = 0 THEN hs[n] ELSE ls[n][k],
         NEW g, Grown(h, g, c), g[Len(h) + 1].next = NULL,
         g[Len(h) + 1].parent = h[hs[n]].parent
  PROVE  Represents(g, Len(h) + 1, n, hs,
                    [ls EXCEPT ![n] = Append(SubSeq(ls[n], 1, k), Len(h) + 1)])
<1> DEFINE l == ls[n]
           f == Len(h) + 1
           s == Append(SubSeq(l, 1, k), f)
<1>1. /\ n \in 1..n /\ hs[n] \in 1..Len(h) /\ l \in Seq(1..Len(h)) /\ Len(l) \in Nat
      /\ IsChain(h, h[hs[n]].next, l)
      /\ \A i \in 1..Len(l) : l[i] \in 1..Len(h) /\ h[l[i]].parent = h[hs[n]].parent
  <2>1. LayerFacts(h, c, n, hs, ls)
    BY RepresentsFacts
  <2> QED BY <2>1 DEF LayerFacts
<1>2. Len(h) \in Nat /\ Ranked(h)
  BY LinkedFacts
<1>3. /\ \A i \in 1..Len(l) : l[i] # hs[n]
      /\ \A i, j \in 1..Len(l) : l[i] = l[j] => i = j
  <2> HIDE DEF l
  <2>1. IsChain(h, h[hs[n]].next, l) /\ hs[n] \in 1..Len(h)
    BY <1>1
  <2>2. \A a \in 1..Len(h) : \A s2 : IsChain(h, h[a].next, s2) =>
          /\ \A i \in 1..Len(s2) : s2[i] # a
          /\ \A i, j \in 1..Len(s2) : s2[i] = s2[j] => i = j
    BY <1>2, ChainDescends
  <2> QED BY <2>1, <2>2
<1>4. /\ f \in 1..Len(g) /\ g[c].next = f /\ 1..Len(h) \subseteq 1..Len(g)
      /\ \A p \in 1..Len(h) : g[p].parent = h[p].parent /\ (p # c => g[p].next = h[p].next)
  BY GrownFields
<1>5. g[f].next = NULL /\ g[f].parent = h[hs[n]].parent
  OBVIOUS
<1>6. k \in Nat /\ k <= Len(l) /\ (c = IF k = 0 THEN hs[n] ELSE l[k])
  BY <1>1
<1> HIDE DEF l, f
<1>7. /\ s \in Seq(1..Len(g)) /\ Len(s) = k + 1 /\ s[k + 1] = f
      /\ \A i \in 1..k : s[i] = l[i] /\ i \in 1..Len(l)
  <2>1. l \in Seq(1..Len(g))
    BY <1>1, <1>4, Widened
  <2>2. SubSeq(l, 1, k) \in Seq(1..Len(g)) /\ Len(SubSeq(l, 1, k)) = k
        /\ \A i \in 1..k : SubSeq(l, 1, k)[i] = l[i] /\ i \in 1..Len(l)
    BY SMTT(60), <1>1, <1>6, <2>1
  <2> DEFINE m == SubSeq(l, 1, k)
  <2> HIDE DEF m
  <2>3. m \in Seq(1..Len(g)) /\ Len(m) = k /\ \A i \in 1..k : m[i] = l[i] /\ i \in 1..Len(l)
    BY <2>2 DEF m
  <2>4. Append(m, f) \in Seq(1..Len(g)) /\ Len(Append(m, f)) = k + 1
        /\ Append(m, f)[k + 1] = f /\ \A i \in 1..k : Append(m, f)[i] = m[i]
    BY <1>4, <1>6, <2>3
  <2> QED BY <2>3, <2>4 DEF m
<1> HIDE DEF s
<1>8. h[hs[n]].next = At(l, 1) /\ \A i \in 1..Len(l) : h[l[i]].next = At(l, i + 1)
  BY <1>1 DEF IsChain
<1>9. g[hs[n]].next = At(s, 1)
  <2>1. CASE k = 0
    BY <1>4, <1>6, <1>7, <2>1 DEF At
  <2>2. CASE k # 0
    <3>1. 1 \in 1..k /\ 1 \in 1..Len(l) /\ k \in 1..Len(l) /\ c = l[k] /\ 1 \in 1..Len(s)
      BY SMTT(60), <1>1, <1>6, <1>7, <2>2
    <3>2. g[hs[n]].next = l[1]
      BY <1>1, <1>3, <1>4, <1>8, <3>1 DEF At
    <3> QED BY <1>7, <3>1, <3>2 DEF At
  <2> QED BY <2>1, <2>2
<1>10. ASSUME NEW i \in 1..Len(s) PROVE g[s[i]].next = At(s, i + 1)
  <2>1. CASE i = k + 1
    BY <1>5, <1>6, <1>7, <2>1 DEF At
  <2>2. CASE i = k
    BY <1>4, <1>6, <1>7, <2>2 DEF At
  <2>3. CASE i \notin {k, k + 1}
    <3>1. i \in 1..k /\ i + 1 \in 1..k /\ k \in 1..k /\ k # 0 /\ i # k /\ i + 1 \in 1..Len(s)
      BY <1>6, <1>7, <2>3
    <3>2. i \in 1..Len(l) /\ i + 1 \in 1..Len(l) /\ k \in 1..Len(l) /\ s[i] = l[i] /\ s[i + 1] = l[i + 1]
      BY <1>7, <3>1
    <3>3. l[i] # c
      BY <1>3, <1>6, <3>1, <3>2
    <3>4. g[l[i]].next = l[i + 1]
      BY <1>1, <1>4, <1>8, <3>2, <3>3 DEF At
    <3> QED BY <3>1, <3>2, <3>4 DEF At
  <2> QED BY <2>1, <2>2, <2>3
<1>11. IsChain(g, g[hs[n]].next, s)
  BY <1>7, <1>9, <1>10 DEF IsChain
<1>12. ASSUME NEW i \in 1..Len(s) PROVE g[s[i]].parent = h[hs[n]].parent
  <2>1. CASE i = k + 1
    BY <1>5, <1>7, <2>1
  <2>2. CASE i # k + 1
    <3>1. i \in 1..k
      BY <1>6, <1>7, <2>2
    <3> QED BY <1>1, <1>4, <1>7, <3>1
  <2> QED BY <2>1, <2>2
<1>13. Innermost(c, n, hs, ls)
  <2>1. LayerFacts(h, c, n, hs, ls)
    BY RepresentsFacts
  <2> QED BY <2>1 DEF LayerFacts
<1>14. \E i \in 1..Len(s) : f = s[i]
  <2>1. k + 1 \in 1..Len(s)
    BY <1>6, <1>7
  <2> QED BY <1>7, <2>1
<1>15. Represents(g, f, n, hs, [ls EXCEPT ![n] = s])
  BY <1>11, <1>12, <1>13, <1>14, LayerRelisted
<1> QED BY <1>15 DEF f, s, l

\* A layer opened by the first entry of the innermost one, with the head b.
LEMMA LayerOpened ==
  ASSUME NEW h, NEW c, Linked(h, c), NEW n, NEW hs, NEW ls, Represents(h, c, n, hs, ls),
         NEW b \in 1..Len(h), ls[n] # <<>>, h[b].parent = ls[n][1], h[ls[n][1]].child = b,
         h[b].next = NULL, [type |-> h[b].type, address |-> h[b].address] \in Garbage
  PROVE  Represents(h, b, n + 1, [d \in 1..(n + 1) |-> IF d = n + 1 THEN b ELSE hs[d]],
                    [d \in 1..(n + 1) |-> IF d = n + 1 THEN <<>> ELSE ls[d]])
<1> DEFINE gs == [d \in 1..(n + 1) |-> IF d = n + 1 THEN b ELSE hs[d]]
           ms == [d \in 1..(n + 1) |-> IF d = n + 1 THEN <<>> ELSE ls[d]]
<1>1. /\ n \in Nat \ {0} /\ n \in 1..n /\ hs[1] = root /\ h[root].parent = NULL
      /\ \A d \in 1..n :
           /\ hs[d] \in 1..Len(h) /\ ls[d] \in Seq(1..Len(h)) /\ Len(ls[d]) \in Nat
           /\ IsChain(h, h[hs[d]].next, ls[d])
           /\ \A i \in 1..Len(ls[d]) : ls[d][i] \in 1..Len(h) /\ h[ls[d][i]].parent = h[hs[d]].parent
  <2>1. LayerFacts(h, c, n, hs, ls)
    BY RepresentsFacts
  <2> QED BY <2>1 DEF LayerFacts
<1>2. /\ \A d \in 1..n : [type |-> h[hs[d]].type, address |-> h[hs[d]].address] \in Garbage
      /\ \A d \in 1..(n - 1) :
           ls[d] # <<>> /\ h[hs[d + 1]].parent = ls[d][1] /\ h[ls[d][1]].child = hs[d + 1]
      /\ \A d, e \in 1..n : d < e => h[hs[d]].parent < h[hs[e]].parent
  BY DEF Represents
<1>3. \A p \in 1..Len(h) : h[p].parent \in NULL..Len(h) /\ h[p].parent < p
  BY LinkedFacts
<1>4. /\ \A d \in 1..(n + 1) : d # n + 1 => d \in 1..n
      /\ \A d \in 1..n : d \in 1..(n + 1) /\ d # n + 1
      /\ n + 1 \in 1..(n + 1) /\ 1 \in 1..n /\ (n + 1) - 1 = n
  BY <1>1
<1>5. /\ gs \in [1..(n + 1) -> 1..Len(h)] /\ ms \in [1..(n + 1) -> Seq(1..Len(h))]
      /\ gs[n + 1] = b /\ ms[n + 1] = <<>>
      /\ \A d \in 1..n : gs[d] = hs[d] /\ ms[d] = ls[d]
  <2>1. /\ \A d \in 1..(n + 1) : (IF d = n + 1 THEN b ELSE hs[d]) \in 1..Len(h)
        /\ \A d \in 1..(n + 1) : (IF d = n + 1 THEN <<>> ELSE ls[d]) \in Seq(1..Len(h))
    <3>1. \A d \in 1..n : hs[d] \in 1..Len(h) /\ ls[d] \in Seq(1..Len(h))
      BY <1>1
    <3>2. <<>> \in Seq(1..Len(h)) /\ b \in 1..Len(h)
      OBVIOUS
    <3>3. \A d \in 1..(n + 1) : d # n + 1 => d \in 1..n
      BY <1>4
    <3> QED BY ONLY <3>1, <3>2, <3>3
  <2>2. gs \in [1..(n + 1) -> 1..Len(h)] /\ ms \in [1..(n + 1) -> Seq(1..Len(h))]
    BY <2>1
  <2>3. gs[n + 1] = b /\ ms[n + 1] = <<>> /\ \A d \in 1..n : gs[d] = hs[d] /\ ms[d] = ls[d]
    BY <1>4
  <2> QED BY <2>2, <2>3
<1> HIDE DEF gs, ms
<1>6. IsChain(h, h[b].next, <<>>)
  BY ChainOfNull
<1>7. ASSUME NEW d \in 1..(n + 1)
      PROVE  /\ IsChain(h, h[gs[d]].next, ms[d])
             /\ \A i \in 1..Len(ms[d]) : h[ms[d][i]].parent = h[gs[d]].parent
             /\ [type |-> h[gs[d]].type, address |-> h[gs[d]].address] \in Garbage
  <2>1. CASE d = n + 1
    BY <1>5, <1>6, <2>1
  <2>2. CASE d # n + 1
    <3>1. d \in 1..n
      BY <1>4, <2>2
    <3>2. gs[d] = hs[d] /\ ms[d] = ls[d]
      BY <1>5, <3>1
    <3>3. IsChain(h, h[hs[d]].next, ls[d]) /\ \A i \in 1..Len(ls[d]) : h[ls[d][i]].parent = h[hs[d]].parent
      BY <1>1, <3>1
    <3>4. [type |-> h[hs[d]].type, address |-> h[hs[d]].address] \in Garbage
      BY <1>2, <3>1
    <3> QED BY <3>2, <3>3, <3>4
  <2> QED BY <2>1, <2>2
<1>8. ASSUME NEW d \in 1..((n + 1) - 1)
      PROVE  ms[d] # <<>> /\ h[gs[d + 1]].parent = ms[d][1] /\ h[ms[d][1]].child = gs[d + 1]
  <2>1. CASE d = n
    BY <1>1, <1>5, <2>1
  <2>2. CASE d # n
    <3>1. d \in 1..(n - 1) /\ d \in 1..n /\ d + 1 \in 1..n
      <4>1. \A x \in 1..((n + 1) - 1) : x # n => x \in 1..(n - 1) /\ x \in 1..n /\ x + 1 \in 1..n
        <5>1. n \in Nat \ {0}
          BY <1>1
        <5> QED BY ONLY <5>1
      <4> QED BY <1>1, <2>2, <4>1
    <3> QED BY <1>2, <1>5, <3>1
  <2> QED BY <2>1, <2>2
<1>9. ASSUME NEW d \in 1..(n + 1), NEW e \in 1..(n + 1), d < e
      PROVE  h[gs[d]].parent < h[gs[e]].parent
  <2>1. d \in 1..n /\ d # n + 1
    BY <1>1, <1>9
  <2>2. CASE e # n + 1
    BY <1>2, <1>4, <1>5, <1>9, <2>1, <2>2
  <2>3. CASE e = n + 1
    <3> DEFINE q == ls[n][1]
    <3>1. q \in 1..Len(h) /\ h[q].parent = h[hs[n]].parent
      <4>1. 1 \in 1..Len(ls[n])
        BY <1>1
      <4> QED BY <1>1, <4>1
    <3> HIDE DEF q
    <3>2. h[gs[e]].parent = q
      BY <1>5, <2>3 DEF q
    <3>3. h[hs[d]].parent <= h[hs[n]].parent
      <4>1. h[hs[d]].parent \in Int /\ h[hs[n]].parent \in Int
        <5>1. hs[d] \in 1..Len(h) /\ hs[n] \in 1..Len(h)
          BY <1>1, <2>1
        <5>2. h[hs[d]].parent \in 0..Len(h) /\ h[hs[n]].parent \in 0..Len(h)
          BY <1>3, <5>1 DEF NULL
        <5> QED BY <5>2
      <4>2. d = n \/ d < n
        BY <1>1, <2>1
      <4>3. d < n => h[hs[d]].parent < h[hs[n]].parent
        BY <1>1, <1>2, <2>1
      <4> QED BY ONLY <4>1, <4>2, <4>3
    <3>4. h[q].parent < q /\ h[q].parent \in Int /\ q \in Int /\ h[hs[d]].parent \in Int
      <4>1. hs[d] \in 1..Len(h)
        BY <1>1, <2>1
      <4>2. h[hs[d]].parent \in 0..Len(h) /\ h[q].parent \in 0..Len(h) /\ h[q].parent < q
        BY <1>3, <3>1, <4>1 DEF NULL
      <4> QED BY <3>1, <4>2
    <3>5. h[hs[d]].parent < q
      BY <3>1, <3>3, <3>4
    <3>6. gs[d] = hs[d]
      BY <1>5, <2>1
    <3> QED BY <3>2, <3>5, <3>6
  <2> QED BY <2>2, <2>3
<1>10. b = gs[n + 1] /\ gs[1] = root /\ n + 1 \in Nat \ {0}
  BY <1>1, <1>4, <1>5
<1>11. Represents(h, b, n + 1, gs, ms)
  BY <1>1, <1>5, <1>7, <1>8, <1>9, <1>10 DEF Represents
<1> QED BY <1>11 DEF gs, ms

\* The way back to the procedure the innermost layer belongs to.
LEMMA LayerLeft ==
  ASSUME NEW h, NEW c, Linked(h, c), NEW n, NEW hs, NEW ls, Represents(h, c, n, hs, ls), n # 1
  PROVE  /\ Represents(h, h[c].parent, n - 1, [d \in 1..(n - 1) |-> hs[d]], [d \in 1..(n - 1) |-> ls[d]])
         /\ h[c].parent = ls[n - 1][1] /\ h[c].parent \in 1..Len(h) /\ n - 1 \in 1..(n - 1)
<1> DEFINE m == n - 1
           gs == [d \in 1..m |-> hs[d]]
           ms == [d \in 1..m |-> ls[d]]
<1>1. /\ n \in Nat \ {0} /\ hs[1] = root /\ h[root].parent = NULL /\ Innermost(c, n, hs, ls)
      /\ \A d \in 1..n :
           /\ hs[d] \in 1..Len(h) /\ ls[d] \in Seq(1..Len(h))
           /\ IsChain(h, h[hs[d]].next, ls[d])
           /\ \A i \in 1..Len(ls[d]) : ls[d][i] \in 1..Len(h) /\ h[ls[d][i]].parent = h[hs[d]].parent
      /\ \A d \in 1..(n - 1) :
           /\ d \in 1..n /\ d + 1 \in 1..n /\ 1 \in 1..Len(ls[d])
           /\ h[hs[d + 1]].parent = ls[d][1] /\ h[ls[d][1]].child = hs[d + 1]
  <2>1. LayerFacts(h, c, n, hs, ls)
    BY RepresentsFacts
  <2> QED BY <2>1 DEF LayerFacts
<1>2. /\ \A d \in 1..n : [type |-> h[hs[d]].type, address |-> h[hs[d]].address] \in Garbage
      /\ \A d \in 1..(n - 1) : ls[d] # <<>>
      /\ \A d, e \in 1..n : d < e => h[hs[d]].parent < h[hs[e]].parent
  BY DEF Represents
<1>3. h[c].parent = h[hs[n]].parent
  BY <1>1, InnermostApart
<1>4. m \in Nat \ {0} /\ m \in 1..m /\ m + 1 = n /\ m \in 1..(n - 1) /\ 1 \in 1..m
  BY <1>1
<1>5. \A d \in 1..m : d \in 1..n /\ (d # m => d \in 1..(m - 1) /\ d \in 1..(n - 1))
  BY <1>1
<1>6. \A d \in 1..(m - 1) : d \in 1..(n - 1) /\ d \in 1..m /\ d + 1 \in 1..m
  BY <1>1
<1> HIDE DEF m
<1>7. gs \in [1..m -> 1..Len(h)] /\ ms \in [1..m -> Seq(1..Len(h))]
      /\ \A d \in 1..m : gs[d] = hs[d] /\ ms[d] = ls[d]
  BY <1>1, <1>5
<1> HIDE DEF gs, ms
<1>8. h[c].parent = ls[m][1] /\ 1 \in 1..Len(ls[m]) /\ ls[m][1] \in 1..Len(h)
  BY <1>1, <1>3, <1>4, <1>5
<1>9. \E i \in 1..Len(ms[m]) : h[c].parent = ms[m][i]
  BY <1>4, <1>7, <1>8
<1>10. \A d \in 1..m :
         /\ IsChain(h, h[gs[d]].next, ms[d])
         /\ \A i \in 1..Len(ms[d]) : h[ms[d][i]].parent = h[gs[d]].parent
         /\ [type |-> h[gs[d]].type, address |-> h[gs[d]].address] \in Garbage
  <2> TAKE d \in 1..m
  <2>1. d \in 1..n /\ gs[d] = hs[d] /\ ms[d] = ls[d]
    BY <1>5, <1>7
  <2>2. IsChain(h, h[hs[d]].next, ls[d]) /\ \A i \in 1..Len(ls[d]) : h[ls[d][i]].parent = h[hs[d]].parent
    BY <1>1, <2>1
  <2>3. [type |-> h[hs[d]].type, address |-> h[hs[d]].address] \in Garbage
    BY <1>2, <2>1
  <2> QED BY <2>1, <2>2, <2>3
<1>11. \A d \in 1..(m - 1) :
         ms[d] # <<>> /\ h[gs[d + 1]].parent = ms[d][1] /\ h[ms[d][1]].child = gs[d + 1]
  BY <1>1, <1>2, <1>6, <1>7
<1>12. \A d, e \in 1..m : d < e => h[gs[d]].parent < h[gs[e]].parent
  BY <1>2, <1>5, <1>7
<1>13. gs[1] = root
  BY <1>1, <1>4, <1>7
<1>14. Represents(h, h[c].parent, m, gs, ms)
  BY <1>1, <1>4, <1>7, <1>9, <1>10, <1>11, <1>12, <1>13 DEF Represents
<1> QED BY <1>4, <1>8, <1>14 DEF m, gs, ms
-----------------------------------------------------------------------------
(***************************************************************************)
(* What the code finds when it follows the pointers outward.               *)
(***************************************************************************)
LEMMA HeadIs ==
  ASSUME Linked(heap, cur), NEW n, NEW hs, NEW ls, Represents(heap, cur, n, hs, ls)
  PROVE  _getLayerHead = hs[n]
<1>1. LayerFacts(heap, cur, n, hs, ls)
  BY RepresentsFacts
<1>2. heap[cur].parent = heap[hs[n]].parent
  BY <1>1, InnermostApart DEF LayerFacts
<1>3. CASE n = 1
  BY <1>1, <1>2, <1>3 DEF LayerFacts, _getLayerHead
<1>4. CASE n # 1
  <2>1. n - 1 \in 1..(n - 1) /\ (n - 1) + 1 = n
    BY <1>1, <1>4 DEF LayerFacts
  <2>2. heap[hs[n]].parent = ls[n - 1][1] /\ heap[ls[n - 1][1]].child = hs[n]
        /\ ls[n - 1][1] \in 1..Len(heap)
    BY <1>1, <2>1 DEF LayerFacts
  <2>3. heap[cur].parent # NULL
    BY <1>2, <2>2 DEF NULL
  <2> QED BY <1>2, <2>2, <2>3 DEF _getLayerHead
<1> QED BY <1>3, <1>4

LEMMA AppendedValue ==
  ASSUME NEW m \in Nat, NEW f
  PROVE  Append([e \in 1..m |-> f[e]], f[m + 1]) = [e \in 1..(m + 1) |-> f[e]]
<1> DEFINE s == [e \in 1..m |-> f[e]]
           S == {f[e] : e \in 1..(m + 1)}
<1>1. s \in Seq(S) /\ Len(s) = m /\ f[m + 1] \in S
  BY IsASeq
<1>2. \A e \in 1..m : s[e] = f[e]
  OBVIOUS
<1> HIDE DEF s, S
<1> DEFINE q == Append(s, f[m + 1])
<1>3. /\ q \in Seq(S) /\ Len(q) = m + 1 /\ q[m + 1] = f[m + 1]
      /\ \A e \in 1..m : q[e] = s[e]
  BY <1>1
<1> HIDE DEF q
<1>4. q = [e \in 1..(m + 1) |-> q[e]]
  BY <1>3
<1>5. \A e \in 1..(m + 1) : q[e] = f[e]
  <2> TAKE e \in 1..(m + 1)
  <2>1. e = m + 1 \/ e \in 1..m
    OBVIOUS
  <2> QED BY <1>2, <1>3, <2>1
<1>6. q = [e \in 1..(m + 1) |-> f[e]]
  BY <1>4, <1>5
<1> QED BY <1>6 DEF q, s

LEMMA ValueInFront ==
  ASSUME NEW m \in Nat, NEW x, NEW f
  PROVE  <<x>> \o [e \in 1..m |-> f[e]] = [e \in 1..(m + 1) |-> IF e = 1 THEN x ELSE f[e - 1]]
<1> DEFINE s == [e \in 1..m |-> f[e]]
           S == {x} \cup {f[e] : e \in 1..m}
           r == [e \in 1..(m + 1) |-> IF e = 1 THEN x ELSE f[e - 1]]
<1>1. s \in Seq(S) /\ Len(s) = m /\ x \in S
  BY IsASeq
<1>2. \A e \in 1..m : s[e] = f[e]
  OBVIOUS
<1> HIDE DEF s, S
<1>3. <<x>> \o s \in Seq(S) /\ Len(<<x>> \o s) = m + 1 /\ (<<x>> \o s)[1] = x
      /\ \A e \in 1..m : (<<x>> \o s)[e + 1] = s[e]
  BY <1>1
<1> DEFINE q == <<x>> \o s
<1> HIDE DEF q
<1>4. q \in Seq(S) /\ Len(q) = m + 1 /\ q[1] = x /\ \A e \in 1..m : q[e + 1] = f[e]
  BY <1>2, <1>3 DEF q
<1>5. q = [e \in 1..(m + 1) |-> q[e]]
  BY <1>4
<1>6. \A e \in 1..(m + 1) : q[e] = IF e = 1 THEN x ELSE f[e - 1]
  <2> TAKE e \in 1..(m + 1)
  <2>1. CASE e = 1
    BY <1>4, <2>1
  <2>2. CASE e # 1
    <3>1. e - 1 \in 1..m /\ (e - 1) + 1 = e
      BY <2>2
    <3> QED BY <1>4, <2>2, <3>1
  <2> QED BY <2>1, <2>2
<1>7. q = r
  BY <1>5, <1>6
<1> QED BY <1>7 DEF q, r, s

\* The procedures around cur are the first entries of the open layers.
LEMMA EnclosingIs ==
  ASSUME Linked(heap, cur), NEW n, NEW hs, NEW ls, Represents(heap, cur, n, hs, ls)
  PROVE  Enclosing = [d \in 1..(n - 1) |-> ls[d][1]]
<1> DEFINE body(f, p) == IF p = NULL THEN <<>> ELSE Append(f[heap[p].parent], p)
           outward == CHOOSE f : f = [p \in Pointers |-> body(f, p)]
           N == Len(heap)
           up == [p \in 1..N |-> heap[p].parent]
           join == [p \in 1..N |-> [s \in Seq(Nat) |-> Append(s, p)]]
           opener == [d \in 1..n |-> ls[d][1]]
<1>1. N \in Nat /\ \A p \in 1..N : heap[p].parent \in NULL..N /\ heap[p].parent < p
  BY LinkedFacts
<1>2. LayerFacts(heap, cur, n, hs, ls)
  BY RepresentsFacts
<1>3. outward = [p \in Pointers |-> body(outward, p)]
  <2>1. up \in [1..N -> Nat] /\ \A p \in 1..N : up[p] < p /\ up[p] = heap[p].parent
    BY <1>1 DEF NULL
  <2>2. join \in [1..N -> [Seq(Nat) -> Seq(Nat)]]
    <3>1. \A p \in 1..N : \A s \in Seq(Nat) : Append(s, p) \in Seq(Nat)
      BY <1>1
    <3> QED BY <3>1
  <2>3. \A p \in 1..N : \A s \in Seq(Nat) : join[p][s] = Append(s, p)
    OBVIOUS
  <2> HIDE DEF up, join, N
  <2> DEFINE R == Seq(Nat)
             nil == <<>>
  <2>3a. GoesOutward(N, up, R, nil, join)
    BY <1>1, <2>1, <2>2 DEF GoesOutward
  <2> HIDE DEF R, nil
  <2>4. \E f \in [0..N -> R] : f[0] = nil /\ \A p \in 1..N : f[p] = join[p][f[up[p]]]
    BY ONLY <2>3a, Outwards
  <2>5. PICK f \in [0..N -> Seq(Nat)] : f[0] = <<>> /\ \A p \in 1..N : f[p] = join[p][f[up[p]]]
    BY <2>4 DEF R, nil
  <2>6. Pointers = 0..N
    BY DEF Pointers, NULL, N
  <2>7. \A p \in Pointers : f[p] = body(f, p)
    <3> TAKE p \in Pointers
    <3>1. CASE p = 0
      BY <2>5, <3>1 DEF NULL
    <3>2. CASE p # 0
      <4>1. p \in 1..N /\ up[p] = heap[p].parent /\ heap[p].parent \in 0..N
        BY <1>1, <2>1, <2>6, <3>2 DEF NULL, N
      <4>2. f[heap[p].parent] \in Seq(Nat) /\ f[p] = join[p][f[heap[p].parent]]
        BY <2>5, <4>1
      <4> QED BY <2>3, <3>2, <4>1, <4>2 DEF NULL
    <3> QED BY <3>1, <3>2
  <2>8. f = [p \in Pointers |-> f[p]]
    BY <2>5, <2>6
  <2>9. f = [p \in Pointers |-> body(f, p)]
    <3> HIDE DEF body
    <3> QED BY <2>7, <2>8
  <2> QED BY <2>9
<1>4. \A p \in Pointers : outward[p] = body(outward, p)
  <2> HIDE DEF body, outward
  <2> QED BY <1>3
<1>5. Enclosing = outward[heap[cur].parent]
  BY DEF Enclosing
<1> HIDE DEF outward, opener
<1> DEFINE S == {d \in 1..n : outward[heap[hs[d]].parent] = [e \in 1..(d - 1) |-> opener[e]]}
<1>6. \A d \in 1..n : (\A k \in 1..(d - 1) : k \in S) => d \in S
  <2> TAKE d \in 1..n
  <2> HAVE \A k \in 1..(d - 1) : k \in S
  <2>1. CASE d = 1
    <3>1. heap[hs[d]].parent = NULL /\ NULL \in Pointers
      BY <1>1, <1>2, <2>1 DEF LayerFacts, Pointers, NULL
    <3>2. outward[NULL] = <<>>
      BY <1>4, <3>1
    <3>3. [e \in 1..(d - 1) |-> opener[e]] = <<>>
      BY <2>1
    <3> QED BY <3>1, <3>2, <3>3
  <2>2. CASE d # 1
    <3> DEFINE k == d - 1
               q == ls[k][1]
    <3>1. k \in 1..(d - 1) /\ k \in 1..(n - 1) /\ k \in 1..n /\ k + 1 = d /\ k - 1 \in Nat
          /\ (k - 1) + 1 = k
      BY <1>2, <2>2 DEF LayerFacts
    <3> HIDE DEF k
    <3>2. q \in 1..N /\ heap[hs[d]].parent = q /\ heap[q].parent = heap[hs[k]].parent
      BY <1>2, <3>1 DEF LayerFacts
    <3>3. opener[k] = q
      BY <3>1 DEF opener
    <3> HIDE DEF q
    <3>4. outward[heap[hs[k]].parent] = [e \in 1..(k - 1) |-> opener[e]]
      BY <3>1
    <3>5. q \in Pointers /\ q # NULL
      BY <1>1, <3>2 DEF Pointers, NULL
    <3>6. outward[q] = Append([e \in 1..(k - 1) |-> opener[e]], opener[k])
      <4>1. outward[q] = Append(outward[heap[q].parent], q)
        BY <1>4, <3>5
      <4>2. heap[q].parent = heap[hs[k]].parent
        BY <3>2
      <4> QED BY ONLY <3>3, <3>4, <4>1, <4>2
    <3>7. outward[q] = [e \in 1..k |-> opener[e]]
      <4> DEFINE m == k - 1
      <4>1. m \in Nat /\ m + 1 = k
        BY <3>1
      <4>2. outward[q] = Append([e \in 1..m |-> opener[e]], opener[m + 1])
        BY <3>6, <4>1
      <4> HIDE DEF m
      <4>3. outward[q] = [e \in 1..(m + 1) |-> opener[e]]
        BY <4>1, <4>2, AppendedValue
      <4> QED BY <4>1, <4>3
    <3> QED BY <3>2, <3>7 DEF k
  <2> QED BY <2>1, <2>2
<1> HIDE DEF S
<1>7. n \in Nat \ {0} /\ n \in 1..n
  BY <1>2 DEF LayerFacts
<1>8. \A d \in 1..n : d \in S
  <2>1. 1 \in Nat /\ n \in Int /\ \A d \in 1..n : (\A k \in 1..(d - 1) : k \in S) => d \in S
    BY <1>6, <1>7
  <2> QED BY ONLY <2>1, Upwards
<1>9. outward[heap[hs[n]].parent] = [e \in 1..(n - 1) |-> opener[e]]
  BY <1>7, <1>8 DEF S
<1>10. heap[cur].parent = heap[hs[n]].parent
  BY <1>2, InnermostApart DEF LayerFacts
<1>11. \A e \in 1..(n - 1) : opener[e] = ls[e][1]
  BY <1>7 DEF opener
<1> QED BY <1>5, <1>9, <1>10, <1>11

\* The chains findEntry runs along are the lists of the layers, inside out.
LEMMA SearchPathIs ==
  ASSUME Linked(heap, cur), NEW n, NEW hs, NEW ls, Represents(heap, cur, n, hs, ls)
  PROVE  SearchPath = [k \in 1..n |-> ls[n + 1 - k]]
<1> DEFINE body(f, p) == IF p = NULL THEN <<>> ELSE <<Chain[p]>> \o f[heap[p].parent]
           outward == CHOOSE f : f = [p \in Pointers |-> body(f, p)]
           N == Len(heap)
           up == [p \in 1..N |-> heap[p].parent]
           R == Seq({Chain[p] : p \in Pointers})
           nil == <<>>
           join == [p \in 1..N |-> [s \in R |-> <<Chain[p]>> \o s]]
           inside == [d \in 1..n |-> [k \in 1..(d - 1) |-> ls[d - k]]]
<1>1. N \in Nat /\ \A p \in 1..N : heap[p].parent \in NULL..N /\ heap[p].parent < p
  BY LinkedFacts
<1>2. LayerFacts(heap, cur, n, hs, ls)
  BY RepresentsFacts
<1>3. outward = [p \in Pointers |-> body(outward, p)]
  <2>1. up \in [1..N -> Nat] /\ \A p \in 1..N : up[p] < p /\ up[p] = heap[p].parent
    BY <1>1 DEF NULL
  <2>2. join \in [1..N -> [R -> R]]
    <3>1. \A p \in 1..N : Chain[p] \in {Chain[q] : q \in Pointers}
      BY <1>1 DEF Pointers, NULL
    <3>2. \A p \in 1..N : \A s \in R : <<Chain[p]>> \o s \in R
      BY <3>1
    <3> HIDE DEF R
    <3> QED BY <3>2
  <2>3. \A p \in 1..N : \A s \in R : join[p][s] = <<Chain[p]>> \o s
    <3> HIDE DEF R
    <3> QED OBVIOUS
  <2>4. nil \in R
    OBVIOUS
  <2> HIDE DEF up, join, N, R, nil
  <2>5. GoesOutward(N, up, R, nil, join)
    BY <1>1, <2>1, <2>2, <2>4 DEF GoesOutward
  <2>6. PICK f \in [0..N -> R] : f[0] = nil /\ \A p \in 1..N : f[p] = join[p][f[up[p]]]
    BY ONLY <2>5, Outwards
  <2>7. Pointers = 0..N
    BY DEF Pointers, NULL, N
  <2>8. \A p \in Pointers : f[p] = body(f, p)
    <3> TAKE p \in Pointers
    <3>1. CASE p = 0
      BY <2>6, <3>1 DEF NULL, nil
    <3>2. CASE p # 0
      <4>1. p \in 1..N /\ up[p] = heap[p].parent /\ heap[p].parent \in 0..N
        BY <1>1, <2>1, <2>7, <3>2 DEF NULL, N
      <4>2. f[heap[p].parent] \in R /\ f[p] = join[p][f[heap[p].parent]]
        BY <2>6, <4>1
      <4> QED BY <2>3, <3>2, <4>1, <4>2 DEF NULL
    <3> QED BY <3>1, <3>2
  <2>9. f = [p \in Pointers |-> f[p]]
    BY <2>6, <2>7
  <2>10. f = [p \in Pointers |-> body(f, p)]
    <3> HIDE DEF body
    <3> QED BY <2>8, <2>9
  <2> QED BY <2>10
<1>4. \A p \in Pointers : outward[p] = body(outward, p)
  <2> HIDE DEF body, outward
  <2> QED BY <1>3
<1>5. SearchPath = <<Chain[heap[hs[n]].next]>> \o outward[heap[hs[n]].parent]
  <2>1. _getLayerHead = hs[n]
    BY HeadIs
  <2> QED BY <2>1 DEF SearchPath
<1> HIDE DEF outward
<1>6. \A p, s : IsChain(heap, p, s) => Chain[p] = s
  BY LinkedFacts, ChainIs
<1>7. \A d \in 1..n : Chain[heap[hs[d]].next] = ls[d]
  BY <1>2, <1>6 DEF LayerFacts
<1>8. \A d \in 1..(n - 1) : Chain[ls[d][1]] = ls[d]
  <2> TAKE d \in 1..(n - 1)
  <2>1. IsChain(heap, heap[hs[d]].next, ls[d]) /\ 1 \in 1..Len(ls[d])
    BY <1>2 DEF LayerFacts
  <2>2. heap[hs[d]].next = ls[d][1]
    BY <2>1 DEF IsChain, At
  <2> QED BY <1>6, <2>1, <2>2
<1> HIDE DEF inside
<1> DEFINE S == {d \in 1..n : outward[heap[hs[d]].parent] = inside[d]}
<1>9. \A d \in 1..n : (\A k \in 1..(d - 1) : k \in S) => d \in S
  <2> TAKE d \in 1..n
  <2> HAVE \A k \in 1..(d - 1) : k \in S
  <2>1. CASE d = 1
    <3>1. heap[hs[d]].parent = NULL /\ NULL \in Pointers
      BY <1>1, <1>2, <2>1 DEF LayerFacts, Pointers, NULL
    <3>2. outward[NULL] = <<>>
      BY <1>4, <3>1
    <3>3. inside[d] = <<>>
      BY <2>1 DEF inside
    <3> QED BY <3>1, <3>2, <3>3
  <2>2. CASE d # 1
    <3> DEFINE m == d - 1
               q == ls[m][1]
    <3>1. m \in 1..(d - 1) /\ m \in 1..(n - 1) /\ m \in 1..n /\ m + 1 = d /\ m - 1 \in Nat
          /\ n \in Nat
      BY <1>2, <2>2 DEF LayerFacts
    <3> HIDE DEF m
    <3>2. q \in 1..N /\ heap[hs[d]].parent = q /\ heap[q].parent = heap[hs[m]].parent
      BY <1>2, <3>1 DEF LayerFacts
    <3>3. Chain[q] = ls[m]
      BY <1>8, <3>1
    <3> HIDE DEF q
    <3>4. outward[heap[hs[m]].parent] = inside[m]
      BY <3>1
    <3>5. q \in Pointers /\ q # NULL
      BY <1>1, <3>2 DEF Pointers, NULL
    <3>6. outward[q] = <<ls[m]>> \o inside[m]
      <4>1. outward[q] = <<Chain[q]>> \o outward[heap[q].parent]
        BY <1>4, <3>5
      <4>2. heap[q].parent = heap[hs[m]].parent
        BY <3>2
      <4> QED BY ONLY <3>3, <3>4, <4>1, <4>2
    <3>7. <<ls[m]>> \o inside[m] = inside[d]
      <4> DEFINE j == m - 1
                 g == [k \in 1..j |-> ls[m - k]]
      <4>1. inside[m] = g /\ j \in Nat /\ j + 1 = m
        BY <3>1 DEF inside
      <4>2. g = [k \in 1..j |-> g[k]]
        OBVIOUS
      <4>3. <<ls[m]>> \o [k \in 1..j |-> g[k]]
              = [k \in 1..(j + 1) |-> IF k = 1 THEN ls[m] ELSE g[k - 1]]
        <5> HIDE DEF g, j
        <5> QED BY <4>1, ValueInFront
      <4>4. \A k \in 1..m : (IF k = 1 THEN ls[m] ELSE g[k - 1]) = ls[d - k]
        <5> TAKE k \in 1..m
        <5>1. CASE k = 1
          BY <3>1, <5>1
        <5>2. CASE k # 1
          <6>1. k - 1 \in 1..j /\ m - (k - 1) = d - k
            BY <3>1, <5>2
          <6> QED BY <5>2, <6>1
        <5> QED BY <5>1, <5>2
      <4>5. inside[d] = [k \in 1..m |-> ls[d - k]]
        BY <3>1 DEF inside, m
      <4> HIDE DEF g, j
      <4>6. <<ls[m]>> \o inside[m] = [k \in 1..m |-> IF k = 1 THEN ls[m] ELSE g[k - 1]]
        BY <4>1, <4>2, <4>3
      <4> QED BY <4>4, <4>5, <4>6
    <3> QED BY <3>2, <3>6, <3>7
  <2> QED BY <2>1, <2>2
<1> HIDE DEF S
<1>10. n \in Nat \ {0} /\ n \in 1..n
  BY <1>2 DEF LayerFacts
<1>11. \A d \in 1..n : d \in S
  <2>1. 1 \in Nat /\ n \in Int /\ \A d \in 1..n : (\A k \in 1..(d - 1) : k \in S) => d \in S
    BY <1>9, <1>10
  <2> QED BY ONLY <2>1, Upwards
<1>12. outward[heap[hs[n]].parent] = inside[n]
  BY <1>10, <1>11 DEF S
<1>13. Chain[heap[hs[n]].next] = ls[n]
  BY <1>7, <1>10
<1> DEFINE j == n - 1
           g == [k \in 1..j |-> ls[n - k]]
<1>14. inside[n] = g /\ j \in Nat /\ j + 1 = n
  BY <1>10 DEF inside
<1>15. g = [k \in 1..j |-> g[k]]
  OBVIOUS
<1>16. <<ls[n]>> \o [k \in 1..j |-> g[k]]
         = [k \in 1..(j + 1) |-> IF k = 1 THEN ls[n] ELSE g[k - 1]]
  <2> HIDE DEF g, j
  <2> QED BY <1>14, ValueInFront
<1>17. \A k \in 1..n : (IF k = 1 THEN ls[n] ELSE g[k - 1]) = ls[n + 1 - k]
  <2> TAKE k \in 1..n
  <2>1. CASE k = 1
    BY <1>10, <2>1
  <2>2. CASE k # 1
    <3>1. k - 1 \in 1..j /\ n - (k - 1) = n + 1 - k
      BY <1>10, <2>2
    <3> QED BY <2>2, <3>1
  <2> QED BY <2>1, <2>2
<1> HIDE DEF g, j
<1>18. SearchPath = [k \in 1..n |-> IF k = 1 THEN ls[n] ELSE g[k - 1]]
  BY <1>5, <1>12, <1>13, <1>14, <1>15, <1>16
<1> QED BY <1>17, <1>18
-----------------------------------------------------------------------------
(***************************************************************************)
(* The table the pointers represent: the refinement mapping of SymbolHeap, *)
(* in terms of the layers.                                                 *)
(***************************************************************************)
Image(e) ==
  IF e.type = "CONSTANT"
  THEN [name |-> e.name, type |-> e.type, value |-> e.value]
  ELSE [name |-> e.name, type |-> e.type, address |-> e.address]

RowOf(h, l) == [i \in 1..Len(l) |-> Image(h[l[i]])]

TableOf(h, n, ls) == [d \in 1..n |-> RowOf(h, ls[d])]

\* Place k of the innermost list, or the head in front of it.
PlaceIs(c, n, hs, ls, k) ==
  k \in 0..Len(ls[n]) /\ c = IF k = 0 THEN hs[n] ELSE ls[n][k]

\* cur has one place in its layer.
LEMMA OnePlace ==
  ASSUME NEW h, NEW c, Linked(h, c), NEW n, NEW hs, NEW ls, Represents(h, c, n, hs, ls)
  PROVE  /\ \E k : PlaceIs(c, n, hs, ls, k)
         /\ \A j, k : PlaceIs(c, n, hs, ls, j) /\ PlaceIs(c, n, hs, ls, k) => j = k
<1>1. /\ n \in 1..n /\ hs[n] \in 1..Len(h) /\ Len(ls[n]) \in Nat
      /\ IsChain(h, h[hs[n]].next, ls[n]) /\ Innermost(c, n, hs, ls)
  <2>1. LayerFacts(h, c, n, hs, ls)
    BY RepresentsFacts
  <2> QED BY <2>1 DEF LayerFacts
<1>2. Len(h) \in Nat /\ Ranked(h)
  BY LinkedFacts
<1>3. /\ \A i \in 1..Len(ls[n]) : ls[n][i] # hs[n]
      /\ \A i, j \in 1..Len(ls[n]) : ls[n][i] = ls[n][j] => i = j
  <2>1. \A a \in 1..Len(h) : \A s : IsChain(h, h[a].next, s) =>
          /\ \A i \in 1..Len(s) : s[i] # a
          /\ \A i, j \in 1..Len(s) : s[i] = s[j] => i = j
    BY <1>2, ChainDescends
  <2> QED BY <1>1, <2>1
<1>4. \A k : k \in 0..Len(ls[n]) => k = 0 \/ k \in 1..Len(ls[n])
  BY <1>1
<1>5. \A j, k : PlaceIs(c, n, hs, ls, j) /\ PlaceIs(c, n, hs, ls, k) => j = k
  BY <1>3, <1>4 DEF PlaceIs
<1>6. CASE c = hs[n]
  <2>1. PlaceIs(c, n, hs, ls, 0)
    BY <1>1, <1>6 DEF PlaceIs
  <2> QED BY <1>5, <2>1
<1>7. CASE c # hs[n]
  <2>1. PICK i \in 1..Len(ls[n]) : c = ls[n][i]
    BY <1>1, <1>7 DEF Innermost
  <2>2. i \in 0..Len(ls[n]) /\ i # 0
    BY <1>1
  <2>3. PlaceIs(c, n, hs, ls, i)
    BY <2>1, <2>2 DEF PlaceIs
  <2> QED BY <1>5, <2>3
<1> QED BY <1>6, <1>7

LEMMA TableIs ==
  ASSUME Linked(heap, cur), NEW n, NEW hs, NEW ls, Represents(heap, cur, n, hs, ls)
  PROVE  /\ AbstractLayers = TableOf(heap, n, ls)
         /\ PlaceIs(cur, n, hs, ls, AbstractCur)
<1> DEFINE row(d) == [i \in 1..Len(ls[d]) |-> Image(heap[ls[d][i]])]
           m == n - 1
           inner == [d \in 1..m |-> LayerOf(heap[Enclosing[d]].child)]
<1>1. LayerFacts(heap, cur, n, hs, ls)
  BY RepresentsFacts
<1>2. n \in Nat \ {0} /\ n \in 1..n /\ m \in Nat /\ m + 1 = n
  BY <1>1 DEF LayerFacts
<1>3. \A d \in 1..n : Chain[heap[hs[d]].next] = ls[d] /\ DOMAIN ls[d] = 1..Len(ls[d])
  <2>1. \A p, s : IsChain(heap, p, s) => Chain[p] = s
    BY LinkedFacts, ChainIs
  <2>2. \A d \in 1..n : IsChain(heap, heap[hs[d]].next, ls[d]) /\ ls[d] \in Seq(1..Len(heap))
    BY <1>1 DEF LayerFacts
  <2>3. \A s \in Seq(1..Len(heap)) : DOMAIN s = 1..Len(s)
    OBVIOUS
  <2> QED BY <2>1, <2>2, <2>3
<1>4. \A d \in 1..n : LayerOf(hs[d]) = row(d)
  BY ZenonT(60), <1>3 DEF LayerOf, Abstract, Image
<1>5. Enclosing = [d \in 1..m |-> ls[d][1]]
  BY EnclosingIs
<1>6. \A d \in 1..m : heap[Enclosing[d]].child = hs[d + 1] /\ d + 1 \in 1..n
  <2> TAKE d \in 1..m
  <2>1. d \in 1..(n - 1) /\ Enclosing[d] = ls[d][1]
    BY <1>5
  <2> QED BY <1>1, <2>1 DEF LayerFacts
<1> HIDE DEF row, m
<1>7. \A d \in 1..m : inner[d] = row(d + 1)
  BY <1>4, <1>6
<1>8. inner = [d \in 1..m |-> inner[d]]
  OBVIOUS
<1>9. AbstractLayers = <<row(1)>> \o inner
  <2>1. LayerOf(root) = row(1)
    <3>1. hs[1] = root /\ 1 \in 1..n
      BY <1>1, <1>2 DEF LayerFacts
    <3> QED BY <1>4, <3>1
  <2>2. DOMAIN Enclosing = 1..m
    BY <1>5
  <2> QED BY <2>1, <2>2 DEF AbstractLayers
<1> HIDE DEF inner
<1>10. <<row(1)>> \o [d \in 1..m |-> inner[d]]
         = [d \in 1..(m + 1) |-> IF d = 1 THEN row(1) ELSE inner[d - 1]]
  BY <1>2, ValueInFront
<1>11. \A d \in 1..n : (IF d = 1 THEN row(1) ELSE inner[d - 1]) = row(d)
  <2> TAKE d \in 1..n
  <2>1. CASE d # 1
    <3>1. d - 1 \in 1..m /\ (d - 1) + 1 = d
      BY <1>2, <2>1
    <3> QED BY <1>7, <2>1, <3>1
  <2> QED BY <2>1
<1>12. AbstractLayers = [d \in 1..n |-> row(d)]
  <2>1. AbstractLayers = [d \in 1..n |-> IF d = 1 THEN row(1) ELSE inner[d - 1]]
    BY <1>2, <1>8, <1>9, <1>10
  <2> QED BY <1>11, <2>1
<1>13. AbstractLayers = TableOf(heap, n, ls)
  BY <1>12 DEF row, RowOf, TableOf
<1>14. _getLayerHead = hs[n]
  BY HeadIs
<1>15. PlaceIs(cur, n, hs, ls, AbstractCur)
  <2>1. CASE cur = hs[n]
    <3>1. AbstractCur = 0
      BY <1>14, <2>1 DEF AbstractCur
    <3>2. 0 \in 0..Len(ls[n])
      BY <1>1, <1>2 DEF LayerFacts
    <3> QED BY <2>1, <3>1, <3>2 DEF PlaceIs
  <2>2. CASE cur # hs[n]
    <3>1. AbstractCur = CHOOSE i \in 1..Len(ls[n]) : ls[n][i] = cur
      BY <1>2, <1>3, <1>14, <2>2 DEF AbstractCur
    <3>2. \E i \in 1..Len(ls[n]) : ls[n][i] = cur
      BY <1>1, <2>2 DEF LayerFacts, Innermost
    <3>3. AbstractCur \in 1..Len(ls[n]) /\ ls[n][AbstractCur] = cur
      BY <3>1, <3>2
    <3>4. Len(ls[n]) \in Nat
      BY <1>1, <1>2 DEF LayerFacts
    <3>5. AbstractCur \in 0..Len(ls[n]) /\ AbstractCur # 0
      BY <3>3, <3>4
    <3> QED BY <3>3, <3>5 DEF PlaceIs
  <2> QED BY <2>1, <2>2
<1> QED BY <1>13, <1>15
-----------------------------------------------------------------------------
(***************************************************************************)
(* The search along the pointers and the search of the lists.              *)
(***************************************************************************)
Before(h, k) == h[1] < k[1] \/ (h[1] = k[1] /\ h[2] <= k[2])

LEMMA FirstOfPairs ==
  ASSUME NEW T, T \subseteq Nat \X Nat, T # {}
  PROVE  \E h \in T : \A k \in T : Before(h, k)
<1> DEFINE lefts == {h[1] : h \in T}
<1>1. lefts \in SUBSET Nat /\ lefts # {}
  OBVIOUS
<1>2. PICK l \in lefts : \A j \in lefts : l <= j
  BY <1>1, LeastNumber
<1> DEFINE rights == {h[2] : h \in {k \in T : k[1] = l}}
<1>3. rights \in SUBSET Nat /\ rights # {}
  OBVIOUS
<1>4. PICK r \in rights : \A j \in rights : r <= j
  <2> HIDE DEF rights, lefts
  <2> QED BY <1>3, LeastNumber
<1>5. PICK h \in T : h[1] = l /\ h[2] = r
  BY <1>4
<1>6. ASSUME NEW k \in T PROVE Before(h, k)
  <2>1. l <= k[1] /\ l \in Nat /\ r \in Nat /\ k[1] \in Nat /\ k[2] \in Nat
    BY <1>1, <1>2, <1>3
  <2>2. k[1] = l => r <= k[2]
    BY <1>4
  <2> HIDE DEF lefts, rights
  <2> QED BY <1>5, <2>1, <2>2 DEF Before
<1> QED BY <1>5, <1>6

\* When G is H with its pairs one to the right, so are their first pairs.
OneRight(H, G) ==
  /\ H \subseteq Nat \X Nat /\ G \subseteq Nat \X Nat
  /\ \A h \in H : <<h[1] + 1, h[2]>> \in G
  /\ \A g \in G : g[1] # 0 /\ <<g[1] - 1, g[2]>> \in H

LEMMA SameFirst ==
  ASSUME NEW H, NEW G, OneRight(H, G), H # {}
  PROVE  LET f == CHOOSE h \in H : \A k \in H : Before(h, k)
             g == CHOOSE h \in G : \A k \in G : Before(h, k)
         IN  f \in H /\ g \in G /\ f[1] \in Nat /\ g[1] = f[1] + 1 /\ g[2] = f[2]
<1> DEFINE f == CHOOSE h \in H : \A k \in H : Before(h, k)
           g == CHOOSE h \in G : \A k \in G : Before(h, k)
<1>1. H \subseteq Nat \X Nat /\ G \subseteq Nat \X Nat /\ G # {}
  BY DEF OneRight
<1>2. \E h \in H : \A k \in H : Before(h, k)
  BY <1>1, FirstOfPairs
<1>3. \E h \in G : \A k \in G : Before(h, k)
  BY <1>1, FirstOfPairs
<1>4. f \in H /\ \A k \in H : Before(f, k)
  BY <1>2
<1>5. g \in G /\ \A k \in G : Before(g, k)
  BY <1>3
<1> HIDE DEF f, g
<1>6. f[1] \in Nat /\ f[2] \in Nat /\ g[1] \in Nat /\ g[2] \in Nat
  BY <1>1, <1>4, <1>5
<1>7. Before(g, <<f[1] + 1, f[2]>>) /\ Before(f, <<g[1] - 1, g[2]>>)
  BY <1>4, <1>5 DEF OneRight
<1>8. g[1] < f[1] + 1 \/ (g[1] = f[1] + 1 /\ g[2] <= f[2])
  BY <1>7 DEF Before
<1>9. f[1] < g[1] - 1 \/ (f[1] = g[1] - 1 /\ f[2] <= g[2])
  BY <1>7 DEF Before
<1>10. \A a, b, c, d \in Nat :
         (c < a + 1 \/ (c = a + 1 /\ d <= b)) /\ (a < c - 1 \/ (a = c - 1 /\ b <= d))
           => c = a + 1 /\ d = b
  OBVIOUS
<1>11. g[1] = f[1] + 1 /\ g[2] = f[2]
  BY ONLY <1>6, <1>8, <1>9, <1>10
<1> QED BY <1>4, <1>5, <1>6, <1>11 DEF f, g

LEMMA FindsAlike ==
  ASSUME Linked(heap, cur), NEW n, NEW hs, NEW ls, Represents(heap, cur, n, hs, ls), NEW name
  PROVE  /\ findEntry(name).level = Table!findEntry(name).level
         /\ findEntry(name).level # -1 =>
              Abstract(findEntry(name).entry) = Table!findEntry(name).entry
<1> DEFINE G == {h \in (1..n) \X (1..Len(heap)) :
                   /\ h[2] <= Len(ls[n + 1 - h[1]])
                   /\ heap[ls[n + 1 - h[1]][h[2]]].name = name}
           H == Table!Homonyms(name)
           g == CHOOSE h \in G : \A k \in G : Before(h, k)
           f == CHOOSE h \in H : \A k \in H : Before(h, k)
<1>1. LayerFacts(heap, cur, n, hs, ls)
  BY RepresentsFacts
<1>2. n \in Nat \ {0}
  BY <1>1 DEF LayerFacts
<1>3. Len(heap) \in Nat /\ Ranked(heap)
  BY LinkedFacts
<1>4. \A d \in 1..n : Len(ls[d]) \in Nat /\ Len(ls[d]) < Len(heap)
  <2> TAKE d \in 1..n
  <2>1. hs[d] \in 1..Len(heap) /\ IsChain(heap, heap[hs[d]].next, ls[d]) /\ Len(ls[d]) \in Nat
    BY <1>1 DEF LayerFacts
  <2> QED BY <1>3, <2>1, ChainDescends
<1>5. AbstractLayers = TableOf(heap, n, ls)
  BY TableIs
<1>6. Table!depth = n
  BY <1>2, <1>5 DEF Table!depth, TableOf
<1>7. \A d \in 1..n : AbstractLayers[d] = [i \in 1..Len(ls[d]) |-> Image(heap[ls[d][i]])]
  BY <1>5 DEF TableOf, RowOf
<1>8. \A d \in 1..n : DOMAIN AbstractLayers[d] = 1..Len(ls[d])
  BY <1>7
<1>9. \A d \in 1..n : \A i \in 1..Len(ls[d]) :
        AbstractLayers[d][i] = Image(heap[ls[d][i]])
        /\ AbstractLayers[d][i].name = heap[ls[d][i]].name
  <2> TAKE d \in 1..n
  <2> TAKE i \in 1..Len(ls[d])
  <2>1. AbstractLayers[d][i] = Image(heap[ls[d][i]])
    BY <1>7
  <2>2. Image(heap[ls[d][i]]).name = heap[ls[d][i]].name
    BY DEF Image
  <2> QED BY <2>1, <2>2
<1>10. \A l \in 0..(n - 1) : n - l \in 1..n
  BY <1>2
<1>11. H = UNION {{<<l, i>> : i \in {j \in 1..Len(ls[n - l]) : heap[ls[n - l][j]].name = name}} :
                    l \in 0..(n - 1)}
  <2>1. \A l \in 0..(n - 1) : {j \in DOMAIN AbstractLayers[n - l] : AbstractLayers[n - l][j].name = name}
                                = {j \in 1..Len(ls[n - l]) : heap[ls[n - l][j]].name = name}
    BY <1>8, <1>9, <1>10
  <2> QED BY <1>6, <2>1 DEF Table!Homonyms
<1>12. \A l, i : <<l, i>> \in H <=>
         l \in 0..(n - 1) /\ i \in 1..Len(ls[n - l]) /\ heap[ls[n - l][i]].name = name
  BY <1>11
<1>13. \A h \in H : h \in Nat \X Nat
  BY <1>2, <1>4, <1>10, <1>11
<1>14. \A l, i : <<l, i>> \in G <=>
         /\ l \in 1..n /\ i \in 1..Len(heap)
         /\ i <= Len(ls[n + 1 - l]) /\ heap[ls[n + 1 - l][i]].name = name
  OBVIOUS
<1>15. G \subseteq Nat \X Nat
  BY <1>2, <1>3
<1> HIDE DEF G, H
<1>16. OneRight(H, G)
  <2>1. ASSUME NEW h \in H PROVE <<h[1] + 1, h[2]>> \in G
    <3>1. h = <<h[1], h[2]>> /\ h[1] \in Nat /\ h[2] \in Nat
      BY <1>13
    <3>2. h[1] \in 0..(n - 1) /\ h[2] \in 1..Len(ls[n - h[1]]) /\ heap[ls[n - h[1]][h[2]]].name = name
      BY <1>12, <3>1
    <3>3. h[1] + 1 \in 1..n /\ n + 1 - (h[1] + 1) = n - h[1] /\ n - h[1] \in 1..n
      BY <1>2, <3>2
    <3>4. h[2] \in 1..Len(heap) /\ h[2] <= Len(ls[n - h[1]])
      BY <1>3, <1>4, <3>2, <3>3
    <3> QED BY <1>14, <3>2, <3>3, <3>4
  <2>2. ASSUME NEW h \in G PROVE h[1] # 0 /\ <<h[1] - 1, h[2]>> \in H
    <3>1. h = <<h[1], h[2]>> /\ h[1] \in Nat /\ h[2] \in Nat
      BY <1>15
    <3>2. /\ h[1] \in 1..n /\ h[2] \in 1..Len(heap)
          /\ h[2] <= Len(ls[n + 1 - h[1]]) /\ heap[ls[n + 1 - h[1]][h[2]]].name = name
      BY <1>14, <3>1
    <3>3. h[1] - 1 \in 0..(n - 1) /\ n + 1 - h[1] = n - (h[1] - 1) /\ n - (h[1] - 1) \in 1..n
      BY <1>2, <3>2
    <3>4. h[2] \in 1..Len(ls[n - (h[1] - 1)])
      BY <1>3, <1>4, <3>2, <3>3
    <3> QED BY SMTT(60), <1>12, <3>2, <3>3, <3>4
  <2> QED BY <1>13, <1>15, <2>1, <2>2 DEF OneRight
<1>17. (H = {}) <=> (G = {})
  BY <1>16 DEF OneRight
<1>18. Table!findEntry(name) = IF H = {} THEN [level |-> -1]
          ELSE [level |-> f[1], entry |-> AbstractLayers[n - f[1]][f[2]]]
  BY <1>6 DEF Table!findEntry, Table!FirstOf, Table!NotFound, H, Before
<1>19. findEntry(name) = IF G = {} THEN [level |-> -1]
          ELSE [level |-> g[1] - 1, entry |-> ls[n + 1 - g[1]][g[2]]]
  <2> DEFINE path == SearchPath
             hits == {h \in (1..Len(path)) \X (1..Len(heap)) :
                        /\ h[2] <= Len(path[h[1]])
                        /\ heap[path[h[1]][h[2]]].name = name}
             first == CHOOSE h \in hits : \A k \in hits : Before(h, k)
  <2>1. path = [k \in 1..n |-> ls[n + 1 - k]]
    BY SearchPathIs
  <2>2. Len(path) = n /\ \A k \in 1..n : path[k] = ls[n + 1 - k]
    BY <1>2, <2>1
  <2>3. findEntry(name) = IF hits = {} THEN NotFound
                          ELSE [level |-> first[1] - 1, entry |-> path[first[1]][first[2]]]
    BY DEF findEntry, Before
  <2> HIDE DEF path
  <2>4. hits = G
    BY <2>2 DEF G
  <2> HIDE DEF hits
  <2>5. first = g
    BY <2>4
  <2>6. CASE G = {}
    BY <2>3, <2>4, <2>6 DEF NotFound
  <2>7. CASE G # {}
    <3>1. g \in G
      BY <1>16, <1>17, <2>7, SameFirst
    <3> HIDE DEF first, g
    <3>2. g[1] \in 1..n
      BY <3>1 DEF G
    <3> QED BY <2>2, <2>3, <2>4, <2>5, <2>7, <3>2
  <2> QED BY <2>6, <2>7
<1>20. CASE H = {}
  BY <1>17, <1>18, <1>19, <1>20
<1>21. CASE H # {}
  <2>1. f \in H /\ g \in G /\ f[1] \in Nat /\ g[1] = f[1] + 1 /\ g[2] = f[2]
    BY <1>16, <1>21, SameFirst
  <2> HIDE DEF f, g
  <2>2. f = <<f[1], f[2]>>
    BY <1>13, <2>1
  <2>3. f[1] \in 0..(n - 1) /\ f[2] \in 1..Len(ls[n - f[1]]) /\ n - f[1] \in 1..n
    BY <1>10, <1>12, <2>1, <2>2
  <2>4. n + 1 - g[1] = n - f[1] /\ g[1] - 1 = f[1]
    BY <1>2, <2>1
  <2>5. Table!findEntry(name) = [level |-> f[1], entry |-> Image(heap[ls[n - f[1]][f[2]]])]
    BY <1>9, <1>18, <1>21, <2>3
  <2>6. findEntry(name) = [level |-> f[1], entry |-> ls[n - f[1]][f[2]]]
    BY <1>17, <1>19, <1>21, <2>1, <2>4
  <2>7. \A p : Abstract(p) = Image(heap[p])
    BY DEF Abstract, Image
  <2> QED BY <2>5, <2>6, <2>7
<1> QED BY <1>20, <1>21

LEMMA SizesAlike ==
  ASSUME Linked(heap, cur), NEW n, NEW hs, NEW ls, Represents(heap, cur, n, hs, ls)
  PROVE  countLayerSize = Table!countLayerSize
<1>1. LayerFacts(heap, cur, n, hs, ls)
  BY RepresentsFacts
<1>2. n \in Nat \ {0} /\ n \in 1..n /\ ls[n] \in Seq(1..Len(heap))
      /\ IsChain(heap, heap[hs[n]].next, ls[n])
  BY <1>1 DEF LayerFacts
<1>3. Chain[heap[_getLayerHead].next] = ls[n]
  <2>1. \A p, s : IsChain(heap, p, s) => Chain[p] = s
    BY LinkedFacts, ChainIs
  <2>2. _getLayerHead = hs[n]
    BY HeadIs
  <2> QED BY <1>2, <2>1, <2>2
<1>4. AbstractLayers = TableOf(heap, n, ls)
  BY TableIs
<1>5. Table!Layer = [i \in 1..Len(ls[n]) |-> Image(heap[ls[n][i]])]
  BY <1>2, <1>4 DEF Table!Layer, Table!depth, TableOf, RowOf
<1>6. DOMAIN ls[n] = 1..Len(ls[n])
  BY <1>2
<1>7. \A i \in 1..Len(ls[n]) : Image(heap[ls[n][i]]).type = heap[ls[n][i]].type
  BY DEF Image
<1>8. VariablesIn(ls[n]) = Table!VariablesOf(Table!Layer)
  BY <1>5, <1>6, <1>7 DEF VariablesIn, Table!VariablesOf
<1>9. \A S : Cardinality(S) = Table!Cardinality(S)
  BY DEF Cardinality, Table!Cardinality
<1> QED BY <1>3, <1>8, <1>9 DEF countLayerSize, Table!countLayerSize
-----------------------------------------------------------------------------
(***************************************************************************)
(* What the insertions write.                                              *)
(***************************************************************************)
\* g is h with the next of a led to the first of the new entries.
Added(h, g, a, new) ==
  /\ Grown(h, g, a) /\ Len(g) = Len(h) + Len(new)
  /\ \A i \in 1..Len(new) : g[Len(h) + i] = new[i]

LEMMA UpdateAdds ==
  ASSUME NEW h, NEW c, Linked(h, c), NEW a \in 1..Len(h),
         NEW new \in Seq(HeapEntries), Len(new) # 0, new[1].next \in {NULL, h[a].next},
         \A i \in 2..Len(new) : new[i].next = NULL
  PROVE  Added(h, [h EXCEPT ![a].next = Len(h) + 1] \o new, a, new)
<1> DEFINE f == Len(h) + 1
           b == [h EXCEPT ![a].next = f]
           g == b \o new
<1>1. h \in Seq(HeapEntries) /\ Len(h) \in Nat /\ Len(new) \in Nat
  BY DEF Linked
<1>2. \A p \in 1..Len(h) : h[p] \in HeapEntries /\ [h[p] EXCEPT !.next = f] \in HeapEntries
  <2> TAKE p \in 1..Len(h)
  <2>1. h[p] \in HeapEntries /\ f \in Nat
    BY <1>1
  <2> QED BY <2>1 DEF HeapEntries
<1>3. /\ b \in Seq(HeapEntries) /\ Len(b) = Len(h)
      /\ \A p \in 1..Len(h) : b[p] = IF p = a THEN [h[p] EXCEPT !.next = f] ELSE h[p]
  <2> HIDE DEF f
  <2>1. b = [h EXCEPT ![a] = [h[a] EXCEPT !.next = f]]
    OBVIOUS
  <2>2. [h[a] EXCEPT !.next = f] \in HeapEntries
    BY <1>2
  <2> DEFINE x == [h[a] EXCEPT !.next = f]
  <2>3. x \in HeapEntries /\ b = [h EXCEPT ![a] = x]
    BY <2>1, <2>2
  <2> HIDE DEF x, b
  <2>4. b \in Seq(HeapEntries) /\ Len(b) = Len(h)
        /\ \A p \in 1..Len(h) : b[p] = IF p = a THEN x ELSE h[p]
    BY <1>1, <2>3
  <2> QED BY <2>4 DEF x
<1> HIDE DEF b
<1>4. /\ g \in Seq(HeapEntries) /\ Len(g) = Len(h) + Len(new)
      /\ \A p \in 1..Len(h) : g[p] = b[p]
      /\ \A i \in 1..Len(new) : g[Len(h) + i] = new[i]
  <2>1. /\ g \in Seq(HeapEntries) /\ Len(g) = Len(b) + Len(new)
        /\ \A i \in 1..(Len(b) + Len(new)) :
             g[i] = IF i <= Len(b) THEN b[i] ELSE new[i - Len(b)]
    <3>1. b \in Seq(HeapEntries) /\ new \in Seq(HeapEntries)
      BY <1>3
    <3> QED BY ONLY <3>1, ConcatProperties
  <2> HIDE DEF g
  <2>2. \A p \in 1..Len(h) : p \in 1..(Len(b) + Len(new)) /\ p <= Len(b)
    BY <1>1, <1>3
  <2>3. \A i \in 1..Len(new) :
          /\ Len(h) + i \in 1..(Len(b) + Len(new)) /\ ~(Len(h) + i <= Len(b))
          /\ (Len(h) + i) - Len(b) = i
    BY <1>1, <1>3
  <2> QED BY <1>3, <2>1, <2>2, <2>3
<1> HIDE DEF g
<1>5. Len(h) < Len(g) /\ 1 \in 1..Len(new) /\ g[f] = new[1]
  BY <1>1, <1>4
<1>6. \A p \in (Len(h) + 2)..Len(g) : g[p].next = NULL
  <2> TAKE p \in (Len(h) + 2)..Len(g)
  <2>1. p - Len(h) \in 2..Len(new) /\ p - Len(h) \in 1..Len(new) /\ Len(h) + (p - Len(h)) = p
    BY <1>1, <1>4
  <2>2. g[p] = new[p - Len(h)]
    BY <1>4, <2>1
  <2> QED BY <2>1, <2>2
<1>7. Grown(h, g, a)
  BY <1>3, <1>4, <1>5, <1>6 DEF Grown
<1> QED BY <1>4, <1>7 DEF Added, g, b, f

\* With sound links in the new entries the heap stays linked.
LEMMA GrownLinked ==
  ASSUME NEW h, NEW c, Linked(h, c), NEW g, NEW a, NEW new, Added(h, g, a, new),
         new \in Seq(HeapEntries),
         NEW b \in 1..Len(g),
         \A i \in 1..Len(new) :
           /\ {new[i].parent, new[i].next, new[i].child} \subseteq NULL..Len(g)
           /\ new[i].parent < Len(h) + i
           /\ new[i].parent # NULL =>
                g[new[i].parent].type = "PROCEDURE" /\ g[new[i].parent].child # NULL
  PROVE  Linked(g, b)
<1>1. Grown(h, g, a) /\ Len(g) = Len(h) + Len(new)
      /\ \A i \in 1..Len(new) : g[Len(h) + i] = new[i]
  BY DEF Added
<1>2. /\ Len(h) \in Nat /\ Len(g) \in Nat /\ Len(h) < Len(g)
      /\ \A p \in 1..Len(h) :
           /\ g[p].parent = h[p].parent /\ g[p].child = h[p].child /\ g[p].type = h[p].type
           /\ p # a => g[p].next = h[p].next
      /\ g[a].next = Len(h) + 1
  BY <1>1, GrownFields
<1>3. \A p \in 1..Len(h) :
        /\ {h[p].parent, h[p].next, h[p].child} \subseteq NULL..Len(h)
        /\ h[p].parent < p
        /\ h[p].parent # NULL =>
             h[h[p].parent].type = "PROCEDURE" /\ h[h[p].parent].child # NULL
  BY DEF Linked, Sound
<1>4. NULL..Len(h) \subseteq NULL..Len(g) /\ Len(h) + 1 \in NULL..Len(g)
  BY <1>2 DEF NULL
<1>5. ASSUME NEW p \in 1..Len(h)
      PROVE  /\ {g[p].parent, g[p].next, g[p].child} \subseteq NULL..Len(g)
             /\ g[p].parent < p
             /\ g[p].parent # NULL =>
                  g[g[p].parent].type = "PROCEDURE" /\ g[g[p].parent].child # NULL
  <2>1. g[p].parent = h[p].parent /\ g[p].child = h[p].child
    BY <1>2
  <2>2. g[p].next \in NULL..Len(g)
    BY <1>2, <1>3, <1>4
  <2>3. {g[p].parent, g[p].next, g[p].child} \subseteq NULL..Len(g)
    BY <1>3, <1>4, <2>1, <2>2
  <2>4. ASSUME g[p].parent # NULL
        PROVE  g[g[p].parent].type = "PROCEDURE" /\ g[g[p].parent].child # NULL
    <3>1. h[p].parent \in 1..Len(h)
      <4>1. h[p].parent \in NULL..Len(h) /\ h[p].parent # NULL
        BY <1>3, <2>1, <2>4
      <4> QED BY <1>2, <4>1 DEF NULL
    <3>2. h[h[p].parent].type = "PROCEDURE" /\ h[h[p].parent].child # NULL
      BY <1>3, <2>1, <2>4
    <3> QED BY <1>2, <2>1, <3>1, <3>2
  <2> QED BY <1>3, <2>1, <2>3, <2>4
<1>6. ASSUME NEW p \in 1..Len(g), p \notin 1..Len(h)
      PROVE  /\ {g[p].parent, g[p].next, g[p].child} \subseteq NULL..Len(g)
             /\ g[p].parent < p
             /\ g[p].parent # NULL =>
                  g[g[p].parent].type = "PROCEDURE" /\ g[g[p].parent].child # NULL
  <2> DEFINE i == p - Len(h)
  <2>1. i \in 1..Len(new) /\ Len(h) + i = p
    BY <1>1, <1>2, <1>6
  <2> HIDE DEF i
  <2>2. g[p] = new[i]
    BY <1>1, <2>1
  <2> QED BY <2>1, <2>2
<1>7. Sound(g, b)
  BY <1>5, <1>6 DEF Sound
<1>8. g \in Seq(HeapEntries) /\ Ranked(g) /\ Unshared(g)
  BY ZenonT(60), <1>1, GrownRanked, GrownUnshared DEF Grown
<1> QED BY <1>7, <1>8 DEF Linked

\* What an entry stands for is not touched by an insertion.
LEMMA RowKept ==
  ASSUME NEW h, NEW c, Linked(h, c), NEW g, NEW a, Grown(h, g, a), NEW l \in Seq(1..Len(h))
  PROVE  RowOf(g, l) = RowOf(h, l)
<1>1. \A p \in 1..Len(h) : g[p].name = h[p].name /\ g[p].type = h[p].type
                           /\ g[p].value = h[p].value /\ g[p].address = h[p].address
  BY GrownFields
<1>2. \A p \in 1..Len(h) : Image(g[p]) = Image(h[p])
  BY <1>1 DEF Image
<1>3. \A i \in 1..Len(l) : l[i] \in 1..Len(h)
  OBVIOUS
<1>4. \A i \in 1..Len(l) : Image(g[l[i]]) = Image(h[l[i]])
  BY <1>2, <1>3
<1> QED BY <1>4 DEF RowOf

LEMMA TableRelisted ==
  ASSUME NEW h, NEW c, Linked(h, c), NEW n, NEW hs, NEW ls, Represents(h, c, n, hs, ls),
         NEW g, NEW a, Grown(h, g, a), NEW s
  PROVE  TableOf(g, n, [ls EXCEPT ![n] = s]) = [TableOf(h, n, ls) EXCEPT ![n] = RowOf(g, s)]
<1>1. n \in 1..n /\ DOMAIN ls = 1..n /\ \A d \in 1..n : ls[d] \in Seq(1..Len(h))
  BY DEF Represents
<1>2. \A d \in 1..n : RowOf(g, ls[d]) = RowOf(h, ls[d])
  BY <1>1, RowKept
<1>3. \A d \in 1..n : RowOf(g, [ls EXCEPT ![n] = s][d])
                        = IF d = n THEN RowOf(g, s) ELSE RowOf(h, ls[d])
  BY <1>1, <1>2
<1> QED BY <1>1, <1>3 DEF TableOf

\* New entries behind the head of the innermost layer: the first of them is
\* put in front of the layer's list.
AtTheHead(h, g, n, hs, ls, e) ==
  LET ms == [ls EXCEPT ![n] = <<Len(h) + 1>> \o ls[n]]
  IN  /\ Represents(g, Len(h) + 1, n, hs, ms)
      /\ PlaceIs(Len(h) + 1, n, hs, ms, 1)
      /\ TableOf(g, n, ms) = [TableOf(h, n, ls) EXCEPT ![n] = <<Image(e)>> \o @]

LEMMA AddedAtHead ==
  ASSUME NEW h, NEW c, Linked(h, c), NEW n, NEW hs, NEW ls, Represents(h, c, n, hs, ls),
         NEW g, NEW new, Added(h, g, hs[n], new), new \in Seq(HeapEntries), Len(new) # 0,
         new[1].next = h[hs[n]].next, new[1].parent = h[hs[n]].parent
  PROVE  AtTheHead(h, g, n, hs, ls, new[1])
<1> DEFINE f == Len(h) + 1
           l == ls[n]
           s == <<f>> \o l
           ms == [ls EXCEPT ![n] = s]
<1>1. Grown(h, g, hs[n]) /\ \A i \in 1..Len(new) : g[Len(h) + i] = new[i]
  BY DEF Added
<1>2. g[f] = new[1]
  <2>1. 1 \in 1..Len(new)
    OBVIOUS
  <2> QED BY <1>1, <2>1
<1>3. Represents(g, f, n, hs, ms)
  BY <1>1, <1>2, LinkedAtHead
<1>4. n \in 1..n /\ DOMAIN ls = 1..n /\ l \in Seq(1..Len(h)) /\ Len(h) \in Nat
  BY LinkedFacts DEF Represents
<1>5. /\ s \in Seq(Nat) /\ Len(s) = Len(l) + 1 /\ s[1] = f /\ Len(l) \in Nat
      /\ \A i \in 1..Len(l) : s[i + 1] = l[i]
  BY SMTT(60), <1>4
<1>6. PlaceIs(f, n, hs, ms, 1)
  <2>1. ms[n] = s
    BY <1>4
  <2>2. 1 \in 0..Len(s) /\ s[1] = f
    BY <1>5
  <2> HIDE DEF ms, s
  <2> QED BY <2>1, <2>2 DEF PlaceIs
<1>7. RowOf(g, s) = <<Image(new[1])>> \o RowOf(h, l)
  <2> DEFINE m == Len(l)
             r == RowOf(g, l)
  <2>1. RowOf(g, l) = RowOf(h, l)
    BY <1>1, <1>4, RowKept
  <2>2. r = [i \in 1..m |-> Image(g[l[i]])]
    BY DEF RowOf
  <2>3. \A i \in 1..(m + 1) : Image(g[s[i]]) = IF i = 1 THEN Image(new[1]) ELSE r[i - 1]
    <3> TAKE i \in 1..(m + 1)
    <3>1. CASE i = 1
      BY <1>2, <1>5, <3>1
    <3>2. CASE i # 1
      <4>1. i - 1 \in 1..m /\ (i - 1) + 1 = i
        BY <1>5, <3>2
      <4>2. s[i] = l[i - 1] /\ r[i - 1] = Image(g[l[i - 1]])
        BY <1>5, <2>2, <4>1
      <4> QED BY <3>2, <4>2
    <3> QED BY <3>1, <3>2
  <2>4. RowOf(g, s) = [i \in 1..(m + 1) |-> Image(g[s[i]])]
    BY <1>5 DEF RowOf
  <2> DEFINE x == Image(new[1])
  <2>5. m \in Nat
    BY <1>5
  <2>6. r = [i \in 1..m |-> r[i]]
    BY <2>2
  <2> HIDE DEF r, m, x
  <2>7. <<x>> \o [i \in 1..m |-> r[i]] = [i \in 1..(m + 1) |-> IF i = 1 THEN x ELSE r[i - 1]]
    BY <2>5, ValueInFront
  <2>8. RowOf(g, s) = <<x>> \o r
    BY <2>3, <2>4, <2>6, <2>7 DEF x
  <2> QED BY <2>1, <2>8 DEF r, x
<1> HIDE DEF l, s
<1>8. TableOf(g, n, ms) = [TableOf(h, n, ls) EXCEPT ![n] = RowOf(g, s)]
  <2> DEFINE a == hs[n]
  <2>1. Linked(h, c) /\ Represents(h, c, n, hs, ls) /\ Grown(h, g, a)
    BY <1>1
  <2> HIDE DEF a
  <2> QED BY ONLY <2>1, TableRelisted
<1>9. TableOf(h, n, ls)[n] = RowOf(h, l)
  BY <1>4 DEF TableOf, l
<1>10. TableOf(g, n, ms) = [TableOf(h, n, ls) EXCEPT ![n] = <<Image(new[1])>> \o @]
  BY <1>7, <1>8, <1>9
<1> QED BY <1>3, <1>6, <1>10 DEF AtTheHead, f, l, s

\* A new entry behind the one in place k: what followed it is cut off.
BehindPlace(h, g, n, hs, ls, k, e) ==
  LET ms == [ls EXCEPT ![n] = Append(SubSeq(ls[n], 1, k), Len(h) + 1)]
  IN  /\ Represents(g, Len(h) + 1, n, hs, ms)
      /\ PlaceIs(Len(h) + 1, n, hs, ms, k + 1)
      /\ TableOf(g, n, ms)
           = [TableOf(h, n, ls) EXCEPT ![n] = Append(SubSeq(@, 1, k), Image(e))]

LEMMA AddedBehind ==
  ASSUME NEW h, NEW c, Linked(h, c), NEW n, NEW hs, NEW ls, Represents(h, c, n, hs, ls),
         NEW k, PlaceIs(c, n, hs, ls, k), NEW g, NEW e, Added(h, g, c, <<e>>),
         e.next = NULL, e.parent = h[hs[n]].parent
  PROVE  BehindPlace(h, g, n, hs, ls, k, e)
<1> DEFINE f == Len(h) + 1
           l == ls[n]
           s == Append(SubSeq(l, 1, k), f)
           ms == [ls EXCEPT ![n] = s]
<1>1. Grown(h, g, c)
  BY DEF Added
<1>2. g[f] = e
  BY DEF Added
<1>3. k \in 0..Len(l) /\ c = IF k = 0 THEN hs[n] ELSE l[k]
  BY DEF PlaceIs
<1>4. Represents(g, f, n, hs, ms)
  BY <1>1, <1>2, <1>3, LinkedBehind
<1>5. n \in 1..n /\ DOMAIN ls = 1..n /\ l \in Seq(1..Len(h)) /\ Len(h) \in Nat
  BY LinkedFacts DEF Represents
<1> HIDE DEF l
<1>6. /\ s \in Seq(Nat) /\ Len(s) = k + 1 /\ s[k + 1] = f /\ k \in Nat /\ k <= Len(l)
      /\ \A i \in 1..k : s[i] = l[i] /\ l[i] \in 1..Len(h)
  <2>1. l \in Seq(Nat) /\ k \in Nat /\ k <= Len(l)
    BY <1>3, <1>5
  <2>2. SubSeq(l, 1, k) \in Seq(Nat) /\ Len(SubSeq(l, 1, k)) = k
        /\ \A i \in 1..k : SubSeq(l, 1, k)[i] = l[i]
    BY <2>1
  <2>3. \A i \in 1..k : l[i] \in 1..Len(h)
    BY <1>5, <2>1
  <2> DEFINE q == SubSeq(l, 1, k)
  <2> HIDE DEF q
  <2>4. s = Append(q, f) /\ f \in Nat
    BY <1>5 DEF q
  <2> QED BY <2>1, <2>2, <2>3, <2>4 DEF q
<1> HIDE DEF s
<1>7. PlaceIs(f, n, hs, ms, k + 1)
  <2>1. ms[n] = s
    BY <1>5
  <2>2. k + 1 \in 0..Len(s) /\ k + 1 # 0 /\ s[k + 1] = f
    BY <1>6
  <2> HIDE DEF ms, f
  <2> QED BY <2>1, <2>2 DEF PlaceIs
<1>8. RowOf(g, s) = Append(SubSeq(RowOf(h, l), 1, k), Image(e))
  <2> DEFINE r == RowOf(h, l)
             m == Len(l)
             R == {r[i] : i \in 1..m} \cup {Image(e)}
             q == SubSeq(r, 1, k)
             t == Append(q, Image(e))
  <2>1. RowOf(g, l) = r
    BY <1>1, <1>5, RowKept
  <2>2. /\ r = [i \in 1..m |-> Image(h[l[i]])] /\ r = [i \in 1..m |-> Image(g[l[i]])]
        /\ m \in Nat
    BY <1>5, <2>1 DEF RowOf
  <2> HIDE DEF r, m
  <2>3. \A i \in 1..m : r[i] = Image(g[l[i]])
    BY <2>2
  <2>4. r \in Seq(R) /\ Len(r) = m /\ Image(e) \in R
    <3>1. \A i \in 1..m : r[i] \in R
      OBVIOUS
    <3>2. r = [i \in 1..m |-> r[i]]
      BY <2>2
    <3> HIDE DEF R
    <3>3. r \in Seq(R) /\ Len(r) = m
      BY <2>2, <3>1, <3>2
    <3> QED BY <3>3 DEF R
  <2>5. k \in Nat /\ k <= m
    BY <1>6 DEF m
  <2> HIDE DEF R
  <2>6. q \in Seq(R) /\ Len(q) = k /\ \A i \in 1..k : q[i] = r[i]
    BY <2>4, <2>5
  <2> HIDE DEF q
  <2>7. t \in Seq(R) /\ Len(t) = k + 1 /\ t[k + 1] = Image(e) /\ \A i \in 1..k : t[i] = q[i]
    BY <2>4, <2>5, <2>6
  <2> HIDE DEF t
  <2>8. \A i \in 1..(k + 1) : t[i] = Image(g[s[i]])
    <3> TAKE i \in 1..(k + 1)
    <3>1. CASE i = k + 1
      BY <1>2, <1>6, <2>7, <3>1
    <3>2. CASE i # k + 1
      <4>1. i \in 1..k /\ i \in 1..m
        BY <2>2, <2>5, <3>2
      <4> QED BY <1>6, <2>3, <2>6, <2>7, <4>1
    <3> QED BY <3>1, <3>2
  <2>9. t = [i \in 1..(k + 1) |-> t[i]]
    BY <2>5, <2>7
  <2>10. RowOf(g, s) = [i \in 1..(k + 1) |-> Image(g[s[i]])]
    BY <1>6 DEF RowOf
  <2>11. RowOf(g, s) = t
    BY <2>8, <2>9, <2>10
  <2> QED BY <2>11 DEF t, q, r
<1>9. TableOf(g, n, ms) = [TableOf(h, n, ls) EXCEPT ![n] = RowOf(g, s)]
  BY <1>1, TableRelisted
<1>10. TableOf(h, n, ls)[n] = RowOf(h, l)
  BY <1>5 DEF TableOf, l
<1>11. TableOf(g, n, ms)
         = [TableOf(h, n, ls) EXCEPT ![n] = Append(SubSeq(@, 1, k), Image(e))]
  BY <1>8, <1>9, <1>10
<1> QED BY <1>4, <1>7, <1>11 DEF BehindPlace, f, l, s
-----------------------------------------------------------------------------
(***************************************************************************)
(* The inductive invariant: the heap is linked, and represents the open    *)
(* layers.                                                                 *)
(***************************************************************************)
Carries(n, hs, ls) == Linked(heap, cur) /\ Represents(heap, cur, n, hs, ls)

IInv == \E n, hs, ls : Carries(n, hs, ls)

\* The table, its depth and its cur, for all layers the heap may carry.
Mapping ==
  \A n, hs, ls : Carries(n, hs, ls) =>
    /\ AbstractLayers = TableOf(heap, n, ls)
    /\ PlaceIs(cur, n, hs, ls, AbstractCur)
    /\ \A k : PlaceIs(cur, n, hs, ls, k) => AbstractCur = k
    /\ n \in Nat \ {0} /\ Table!depth = n /\ Len(Enclosing) = n - 1
    /\ Len(Table!Layer) < Len(heap)

LEMMA Mapped == Mapping
<1> SUFFICES ASSUME NEW n, NEW hs, NEW ls, Carries(n, hs, ls)
             PROVE  /\ AbstractLayers = TableOf(heap, n, ls)
                    /\ PlaceIs(cur, n, hs, ls, AbstractCur)
                    /\ \A k : PlaceIs(cur, n, hs, ls, k) => AbstractCur = k
                    /\ n \in Nat \ {0} /\ Table!depth = n /\ Len(Enclosing) = n - 1
                    /\ Len(Table!Layer) < Len(heap)
  BY DEF Mapping
<1>1. Linked(heap, cur) /\ Represents(heap, cur, n, hs, ls)
  BY DEF Carries
<1>2. AbstractLayers = TableOf(heap, n, ls) /\ PlaceIs(cur, n, hs, ls, AbstractCur)
  BY <1>1, TableIs
<1>3. \A k : PlaceIs(cur, n, hs, ls, k) => AbstractCur = k
  <2>1. \A j, k : PlaceIs(cur, n, hs, ls, j) /\ PlaceIs(cur, n, hs, ls, k) => j = k
    BY <1>1, OnePlace
  <2> QED BY <1>2, <2>1
<1>4. LayerFacts(heap, cur, n, hs, ls)
  BY <1>1, RepresentsFacts
<1>5. n \in Nat \ {0} /\ n \in 1..n
  BY <1>4 DEF LayerFacts
<1>6. Table!depth = n
  BY <1>2, <1>5 DEF Table!depth, TableOf
<1>7. Len(Enclosing) = n - 1
  <2>1. Enclosing = [d \in 1..(n - 1) |-> ls[d][1]]
    BY <1>1, EnclosingIs
  <2> QED BY <1>5, <2>1
<1>8. Len(Table!Layer) < Len(heap)
  <2>1. hs[n] \in 1..Len(heap) /\ IsChain(heap, heap[hs[n]].next, ls[n]) /\ Len(ls[n]) \in Nat
    BY <1>4, <1>5 DEF LayerFacts
  <2>2. Len(ls[n]) < Len(heap)
    BY <1>1, <2>1, LinkedFacts, ChainDescends
  <2>3. Table!Layer = RowOf(heap, ls[n])
    BY <1>2, <1>5, <1>6 DEF Table!Layer, TableOf
  <2>4. Len(RowOf(heap, ls[n])) = Len(ls[n])
    BY <2>1 DEF RowOf
  <2> QED BY <2>2, <2>3, <2>4
<1> QED BY <1>2, <1>3, <1>5, <1>6, <1>7, <1>8

\* A head entry is garbage but for its parent.
LEMMA HeadEntryTypes ==
  ASSUME NEW p \in Nat, NEW garbage \in Garbage
  PROVE  /\ HeadEntry(p, garbage) \in HeapEntries
         /\ HeadEntry(p, garbage).next = NULL /\ HeadEntry(p, garbage).child = NULL
         /\ HeadEntry(p, garbage).parent = p
         /\ [type |-> HeadEntry(p, garbage).type, address |-> HeadEntry(p, garbage).address]
              = garbage
<1>1. garbage \in [type : EntryTypes, address : Int]
  BY SymbolHeapAssumption DEF EntryTypes
<1>2. garbage.type \in EntryTypes /\ garbage.address \in Int
      /\ garbage = [type |-> garbage.type, address |-> garbage.address]
  BY <1>1
<1> QED BY <1>2 DEF HeadEntry, HeapEntries, Nameless, NULL

LEMMA InitCarries == Init => IInv /\ Table!Init
<1> SUFFICES ASSUME Init PROVE IInv /\ Table!Init
  OBVIOUS
<1>1. PICK garbage \in Garbage : heap = <<HeadEntry(NULL, garbage)>>
  BY DEF Init
<1> DEFINE e == HeadEntry(NULL, garbage)
           hs == [d \in 1..1 |-> 1]
           ls == [d \in 1..1 |-> <<>>]
<1>2. e \in HeapEntries /\ e.next = NULL /\ e.child = NULL /\ e.parent = NULL
      /\ [type |-> e.type, address |-> e.address] = garbage
  BY HeadEntryTypes DEF NULL
<1> HIDE DEF e
<1>3. heap = <<e>> /\ cur = 1 /\ heap \in Seq(HeapEntries) /\ Len(heap) = 1 /\ heap[1] = e
  BY <1>1, <1>2 DEF Init, root, e
<1>4. \A p \in 1..Len(heap) : p = 1 /\ heap[p] = e
  BY <1>3
<1>5. Sound(heap, cur)
  BY <1>2, <1>3, <1>4 DEF Sound, NULL
<1>6. Ranked(heap)
  <2>1. [p \in 1..1 |-> 0] \in [1..Len(heap) -> 0..(Len(heap) - 1)]
    BY <1>3
  <2>2. \A p \in 1..Len(heap) : heap[p].next = NULL
    BY <1>2, <1>4
  <2> QED BY <2>1, <2>2 DEF Ranked
<1>7. Unshared(heap)
  BY <1>4 DEF Unshared
<1>8. Linked(heap, cur)
  BY <1>3, <1>5, <1>6, <1>7 DEF Linked
<1>9. IsChain(heap, NULL, <<>>)
  BY ChainOfNull
<1>10. hs \in [1..1 -> 1..Len(heap)] /\ ls \in [1..1 -> Seq(1..Len(heap))]
       /\ hs[1] = 1 /\ ls[1] = <<>>
  <2>1. <<>> \in Seq(1..Len(heap))
    OBVIOUS
  <2>2. 1 \in 1..Len(heap)
    BY <1>3
  <2> QED BY <2>1, <2>2
<1> HIDE DEF hs, ls
<1>11. Represents(heap, cur, 1, hs, ls)
  <2>1. \A d \in 1..1 :
          /\ IsChain(heap, heap[hs[d]].next, ls[d])
          /\ \A i \in 1..Len(ls[d]) : heap[ls[d][i]].parent = heap[hs[d]].parent
          /\ [type |-> heap[hs[d]].type, address |-> heap[hs[d]].address] \in Garbage
    <3> TAKE d \in 1..1
    <3>1. d = 1 /\ hs[d] = 1 /\ ls[d] = <<>> /\ heap[hs[d]] = e
      BY <1>3, <1>10
    <3> QED BY <1>2, <1>9, <3>1
  <2>2. \A d \in 1..(1 - 1) : FALSE
    OBVIOUS
  <2>3. \A d, f \in 1..1 : d < f => FALSE
    OBVIOUS
  <2>4. hs[1] = root /\ heap[root].parent = NULL /\ cur = hs[1]
    BY <1>2, <1>3, <1>10 DEF root
  <2>5. 1 \in Nat \ {0}
    OBVIOUS
  <2> QED BY <1>10, <2>1, <2>2, <2>3, <2>4, <2>5 DEF Represents
<1>12. Carries(1, hs, ls)
  BY <1>8, <1>11 DEF Carries
<1>13. Table!Init
  <2>1. /\ AbstractLayers = TableOf(heap, 1, ls)
        /\ \A k : PlaceIs(cur, 1, hs, ls, k) => AbstractCur = k
    BY <1>12, Mapped DEF Mapping
  <2>2. RowOf(heap, ls[1]) = <<>>
    BY <1>10 DEF RowOf
  <2>3. AbstractLayers = <<<<>>>>
    <3>1. \A d \in 1..1 : RowOf(heap, ls[d]) = <<>>
      BY <2>2
    <3>2. [d \in 1..1 |-> <<>>] = <<<<>>>>
      OBVIOUS
    <3> QED BY <2>1, <3>1, <3>2 DEF TableOf
  <2>4. PlaceIs(cur, 1, hs, ls, 0)
    <3>1. 0 \in 0..Len(<<>>)
      OBVIOUS
    <3> QED BY <1>3, <1>10, <3>1 DEF PlaceIs
  <2>5. AbstractCur = 0
    BY <2>1, <2>4
  <2> QED BY <2>3, <2>5 DEF Table!Init
<1> QED BY <1>12, <1>13 DEF IInv
-----------------------------------------------------------------------------
(***************************************************************************)
(* One lemma per operation: it keeps the invariant, and is the operation   *)
(* of the same name on the lists, or changes nothing.                      *)
(***************************************************************************)
LEMMA StutterCarries ==
  ASSUME NEW n, NEW hs, NEW ls, Carries(n, hs, ls), UNCHANGED vars
  PROVE  IInv' /\ UNCHANGED Table!vars
<1>1. heap' = heap /\ cur' = cur
  BY DEF vars
<1>2. Carries(n, hs, ls)'
  BY <1>1 DEF Carries
<1>3. Mapping /\ Mapping'
  BY Mapped, PTL
<1>4. AbstractLayers = TableOf(heap, n, ls) /\ PlaceIs(cur, n, hs, ls, AbstractCur)
  BY <1>3 DEF Mapping
<1>5. AbstractLayers' = TableOf(heap', n, ls)
      /\ \A k : PlaceIs(cur', n, hs, ls, k) => AbstractCur' = k
  BY <1>2, <1>3 DEF Mapping
<1>6. AbstractLayers' = AbstractLayers
  BY <1>1, <1>4, <1>5
<1>7. AbstractCur' = AbstractCur
  BY <1>1, <1>4, <1>5
<1> QED BY <1>2, <1>6, <1>7 DEF IInv, Table!vars

LEMMA DuplicatesAlike ==
  ASSUME NEW n, NEW hs, NEW ls, Carries(n, hs, ls), NEW name
  PROVE  _isDuplicated(name) <=> Table!isDuplicated(name)
BY FindsAlike DEF Carries, _isDuplicated, Table!isDuplicated

LEMMA AppendAdds ==
  ASSUME NEW h, NEW c, Linked(h, c), NEW a \in 1..Len(h),
         NEW e \in HeapEntries, e.next \in {NULL, h[a].next}
  PROVE  Added(h, Append([h EXCEPT ![a].next = Len(h) + 1], e), a, <<e>>)
<1> DEFINE b == [h EXCEPT ![a].next = Len(h) + 1]
           new == <<e>>
<1>1. new \in Seq(HeapEntries) /\ Len(new) = 1 /\ new[1] = e
  OBVIOUS
<1>2. \A i \in 2..Len(new) : new[i].next = NULL
  BY <1>1
<1>3. Added(h, b \o new, a, new)
  <2> HIDE DEF new
  <2> QED BY <1>1, <1>2, UpdateAdds
<1>4. b \in Seq(HeapEntries)
  <2>1. h \in Seq(HeapEntries) /\ Len(h) \in Nat /\ h[a] \in HeapEntries
    BY LinkedFacts DEF Linked
  <2> DEFINE x == [h[a] EXCEPT !.next = Len(h) + 1]
  <2>2. x \in HeapEntries
    <3> DEFINE y == h[a]
               f == Len(h) + 1
    <3>1. y \in HeapEntries /\ f \in Nat
      BY <2>1
    <3> HIDE DEF y, f
    <3>2. [y EXCEPT !.next = f] \in HeapEntries
      BY <3>1 DEF HeapEntries
    <3> QED BY <3>2 DEF y, f
  <2>3. b = [h EXCEPT ![a] = x]
    OBVIOUS
  <2> HIDE DEF x, b
  <2> QED BY <2>1, <2>2, <2>3
<1>5. Append(b, e) = b \o new
  <2> HIDE DEF b
  <2>1. b \in Seq(HeapEntries) /\ e \in HeapEntries
    BY <1>4
  <2> QED BY ONLY <2>1, AppendIsConcat DEF new
<1> QED BY <1>3, <1>5

\* The parent of a new entry in the innermost layer.
LEMMA ParentOfNew ==
  ASSUME NEW n, NEW hs, NEW ls, Carries(n, hs, ls)
  PROVE  /\ heap[cur].parent = heap[hs[n]].parent /\ _getLayerHead = hs[n]
         /\ hs[n] \in 1..Len(heap) /\ heap[hs[n]].next \in NULL..Len(heap) /\ Len(heap) \in Nat
         /\ heap[cur].parent \in NULL..Len(heap) /\ heap[cur].parent < Len(heap) + 1
         /\ cur \in 1..Len(heap)
         /\ \A g, a : Grown(heap, g, a) /\ heap[cur].parent # NULL =>
              g[heap[cur].parent].type = "PROCEDURE" /\ g[heap[cur].parent].child # NULL
<1>1. Linked(heap, cur) /\ Represents(heap, cur, n, hs, ls)
  BY DEF Carries
<1>2. LayerFacts(heap, cur, n, hs, ls)
  BY <1>1, RepresentsFacts
<1>3. heap[cur].parent = heap[hs[n]].parent
  BY <1>1, <1>2, InnermostApart DEF LayerFacts
<1>4. _getLayerHead = hs[n]
  BY <1>1, HeadIs
<1>5. hs[n] \in 1..Len(heap)
  BY <1>2 DEF LayerFacts
<1>6. /\ Len(heap) \in Nat /\ cur \in 1..Len(heap) /\ NextsInRange(heap)
      /\ \A p \in 1..Len(heap) : heap[p].parent \in NULL..Len(heap) /\ heap[p].parent < p
  BY <1>1, LinkedFacts
<1>7. heap[cur].parent \in NULL..Len(heap) /\ heap[cur].parent < Len(heap) + 1
  BY <1>6 DEF NULL
<1>8. ASSUME NEW g, NEW a, Grown(heap, g, a), heap[cur].parent # NULL
      PROVE  g[heap[cur].parent].type = "PROCEDURE" /\ g[heap[cur].parent].child # NULL
  <2>1. heap[cur].parent \in 1..Len(heap)
    BY <1>6, <1>7, <1>8 DEF NULL
  <2>2. heap[heap[cur].parent].type = "PROCEDURE" /\ heap[heap[cur].parent].child # NULL
    BY <1>1, <1>6, <1>8 DEF Linked, Sound
  <2>3. \A p \in 1..Len(heap) : g[p].type = heap[p].type /\ g[p].child = heap[p].child
    BY <1>1, <1>8, GrownFields
  <2> QED BY <2>1, <2>2, <2>3
<1>9. heap[hs[n]].next \in NULL..Len(heap)
  BY <1>5, <1>6 DEF NextsInRange
<1> QED BY <1>3, <1>4, <1>5, <1>6, <1>7, <1>8, <1>9

LEMMA ConstantCarries ==
  ASSUME NEW n, NEW hs, NEW ls, Carries(n, hs, ls),
         NEW name \in Names, NEW value \in Values, insertConstant(name, value)
  PROVE  IInv' /\ (Table!insertConstant(name, value) \/ UNCHANGED Table!vars)
<1>1. CASE _isDuplicated(name)
  <2>1. UNCHANGED vars
    BY <1>1 DEF insertConstant
  <2> QED BY <2>1, StutterCarries
<1>2. CASE ~_isDuplicated(name)
  <2> DEFINE e == Entry(name, "CONSTANT", value, 0, heap[hs[n]].next, NULL)
             t == [name |-> name, type |-> "CONSTANT", value |-> value]
  <2>0. PICK f, ms : f = Len(heap) + 1 /\ ms = [ls EXCEPT ![n] = <<f>> \o ls[n]]
    OBVIOUS
  <2>1. Linked(heap, cur) /\ Represents(heap, cur, n, hs, ls)
    BY DEF Carries
  <2>2. /\ heap[cur].parent = heap[hs[n]].parent /\ _getLayerHead = hs[n]
        /\ hs[n] \in 1..Len(heap) /\ heap[hs[n]].next \in NULL..Len(heap) /\ Len(heap) \in Nat
        /\ heap[cur].parent \in NULL..Len(heap) /\ heap[cur].parent < Len(heap) + 1
        /\ \A g, a : Grown(heap, g, a) /\ heap[cur].parent # NULL =>
             g[heap[cur].parent].type = "PROCEDURE" /\ g[heap[cur].parent].child # NULL
    BY ParentOfNew
  <2>3. heap' = Append([heap EXCEPT ![hs[n]].next = f], e) /\ cur' = f
    BY <1>2, <2>0, <2>2 DEF insertConstant, fresh
  <2>4. e \in HeapEntries /\ e.next = heap[hs[n]].next /\ e.parent = heap[cur].parent
        /\ e.child = NULL /\ Image(e) = t
    <3>1. value \in Int /\ heap[hs[n]].next \in Nat /\ heap[cur].parent \in Nat
      BY <2>2, SymbolHeapAssumption DEF NULL
    <3> QED BY <3>1 DEF Entry, HeapEntries, EntryTypes, Image, NULL
  <2> HIDE DEF e
  <2>5. Added(heap, heap', hs[n], <<e>>)
    BY <2>0, <2>1, <2>2, <2>3, <2>4, AppendAdds
  <2>6. Grown(heap, heap', hs[n]) /\ Len(heap') = Len(heap) + 1
    BY <2>5 DEF Added
  <2>7. Linked(heap', f)
    <3> DEFINE new == <<e>>
    <3>1. Added(heap, heap', hs[n], new) /\ new \in Seq(HeapEntries) /\ Len(new) = 1 /\ new[1] = e
      BY <2>4, <2>5
    <3>2. {e.parent, e.next, e.child} \subseteq NULL..Len(heap') /\ e.parent < Len(heap) + 1
      BY <2>2, <2>4, <2>6 DEF NULL
    <3>3. e.parent # NULL => heap'[e.parent].type = "PROCEDURE" /\ heap'[e.parent].child # NULL
      BY <2>2, <2>4, <2>6
    <3>4. f \in 1..Len(heap')
      BY <2>0, <2>2, <2>6
    <3> HIDE DEF new
    <3>5. \A i \in 1..Len(new) :
            /\ {new[i].parent, new[i].next, new[i].child} \subseteq NULL..Len(heap')
            /\ new[i].parent < Len(heap) + i
            /\ new[i].parent # NULL =>
                 heap'[new[i].parent].type = "PROCEDURE" /\ heap'[new[i].parent].child # NULL
      BY <3>1, <3>2, <3>3
    <3> QED BY ONLY <2>1, <3>1, <3>4, <3>5, GrownLinked
  <2>8. AtTheHead(heap, heap', n, hs, ls, e)
    <3> DEFINE new == <<e>>
    <3>1. Added(heap, heap', hs[n], new) /\ new \in Seq(HeapEntries) /\ Len(new) # 0
          /\ new[1].next = heap[hs[n]].next /\ new[1].parent = heap[hs[n]].parent /\ new[1] = e
      BY <2>2, <2>4, <2>5
    <3> HIDE DEF new
    <3> QED BY ONLY <2>1, <3>1, AddedAtHead
  <2>9. /\ Represents(heap', f, n, hs, ms) /\ PlaceIs(f, n, hs, ms, 1)
        /\ TableOf(heap', n, ms) = [TableOf(heap, n, ls) EXCEPT ![n] = <<t>> \o @]
    BY <2>0, <2>4, <2>8 DEF AtTheHead
  <2> HIDE DEF t
  <2>10. Carries(n, hs, ms)'
    BY <2>3, <2>7, <2>9 DEF Carries
  <2>11. Mapping /\ Mapping'
    BY Mapped, PTL
  <2>12. AbstractLayers = TableOf(heap, n, ls) /\ Table!depth = n
    BY <2>11 DEF Mapping
  <2>13. AbstractLayers' = TableOf(heap', n, ms) /\ AbstractCur' = 1
    BY <2>3, <2>9, <2>10, <2>11 DEF Mapping
  <2>14. ~Table!isDuplicated(name)
    BY <1>2, DuplicatesAlike
  <2>15. Table!insertConstant(name, value)
    BY <2>9, <2>12, <2>13, <2>14 DEF Table!insertConstant, Table!AtHead, t
  <2> QED BY <2>10, <2>15 DEF IInv
<1> QED BY <1>1, <1>2

\* The slot the code computes is the one the lists give, for a first slot that
\* the head's uninitialized type may lead to.
LEMMA SlotsAlike ==
  ASSUME NEW n, NEW hs, NEW ls, Carries(n, hs, ls)
  PROVE  \E first \in FirstSlots :
           Table!SlotBehindCur(first)
             = IF heap[cur].type # "VARIABLE" THEN 3 ELSE heap[cur].address + 1
<1> DEFINE slot == IF heap[cur].type # "VARIABLE" THEN 3 ELSE heap[cur].address + 1
<1>1. Linked(heap, cur) /\ Represents(heap, cur, n, hs, ls)
  BY DEF Carries
<1>2. /\ AbstractLayers = TableOf(heap, n, ls) /\ Table!depth = n /\ n \in Nat \ {0}
      /\ PlaceIs(cur, n, hs, ls, AbstractCur)
  BY Mapped DEF Mapping
<1>3. CASE AbstractCur = 0
  <2>1. cur = hs[n] /\ n \in 1..n
    BY <1>2, <1>3 DEF PlaceIs
  <2>2. [type |-> heap[cur].type, address |-> heap[cur].address] \in Garbage
    BY <1>1, <2>1 DEF Represents
  <2> DEFINE g == [type |-> heap[cur].type, address |-> heap[cur].address]
  <2>3. slot = IF g.type = "VARIABLE" THEN g.address + 1 ELSE 3
    OBVIOUS
  <2>4. slot \in FirstSlots
    <3> HIDE DEF slot, g
    <3>1. g \in Garbage
      BY <2>2 DEF g
    <3> QED BY <2>3, <3>1 DEF FirstSlots
  <2>5. Table!SlotBehindCur(slot) = slot
    BY <1>3 DEF Table!SlotBehindCur
  <2> QED BY <2>4, <2>5
<1>4. CASE AbstractCur # 0
  <2> DEFINE k == AbstractCur
  <2>1. cur = ls[n][k] /\ k \in 0..Len(ls[n]) /\ n \in 1..n
    BY <1>2, <1>4 DEF PlaceIs
  <2>2. k \in 1..Len(ls[n])
    BY <1>4, <2>1
  <2>3. Table!Layer = RowOf(heap, ls[n])
    BY <1>2, <2>1 DEF Table!Layer, TableOf
  <2>4. Table!Layer[k] = Image(heap[cur])
    BY <2>1, <2>2, <2>3 DEF RowOf
  <2>5. /\ Table!Layer[k].type = heap[cur].type
        /\ heap[cur].type = "VARIABLE" => Table!Layer[k].address = heap[cur].address
    BY <2>4 DEF Image
  <2>6. \A first : Table!SlotBehindCur(first) = slot
    <3> TAKE first
    <3>1. Table!SlotBehindCur(first)
            = IF Table!Layer[k].type # "VARIABLE" THEN 3 ELSE Table!Layer[k].address + 1
      BY <1>4 DEF Table!SlotBehindCur
    <3> HIDE DEF k
    <3>2. CASE heap[cur].type = "VARIABLE"
      BY <2>5, <3>1, <3>2
    <3>3. CASE heap[cur].type # "VARIABLE"
      BY <2>5, <3>1, <3>3
    <3> QED BY <3>2, <3>3
  <2>7. FirstSlots # {}
    BY SymbolHeapAssumption DEF FirstSlots
  <2> HIDE DEF k, slot
  <2> QED BY <2>6, <2>7 DEF slot
<1> QED BY <1>3, <1>4

LEMMA VariableCarries ==
  ASSUME NEW n, NEW hs, NEW ls, Carries(n, hs, ls), NEW name \in Names, insertVariable(name)
  PROVE  IInv' /\ (\/ \E first \in FirstSlots : Table!insertVariable(name, first)
                   \/ UNCHANGED Table!vars)
<1>1. CASE _isDuplicated(name)
  <2>1. UNCHANGED vars
    BY <1>1 DEF insertVariable
  <2> QED BY <2>1, StutterCarries
<1>2. CASE ~_isDuplicated(name)
  <2> DEFINE slot == IF heap[cur].type # "VARIABLE" THEN 3 ELSE heap[cur].address + 1
             e == Entry(name, "VARIABLE", 0, slot, NULL, NULL)
  <2>0. PICK f, k, ms :
          /\ f = Len(heap) + 1 /\ k = AbstractCur
          /\ ms = [ls EXCEPT ![n] = Append(SubSeq(ls[n], 1, k), f)]
    OBVIOUS
  <2>1. Linked(heap, cur) /\ Represents(heap, cur, n, hs, ls)
    BY DEF Carries
  <2>2. /\ heap[cur].parent = heap[hs[n]].parent
        /\ Len(heap) \in Nat /\ cur \in 1..Len(heap)
        /\ heap[cur].parent \in NULL..Len(heap) /\ heap[cur].parent < Len(heap) + 1
        /\ \A g, a : Grown(heap, g, a) /\ heap[cur].parent # NULL =>
             g[heap[cur].parent].type = "PROCEDURE" /\ g[heap[cur].parent].child # NULL
    BY ParentOfNew
  <2>3. heap' = Append([heap EXCEPT ![cur].next = f], e) /\ cur' = f
    BY <1>2, <2>0 DEF insertVariable, fresh
  <2>4. slot \in Int
    <3>1. heap[cur] \in HeapEntries
      BY <2>1, <2>2, LinkedFacts
    <3> QED BY <3>1 DEF HeapEntries
  <2> HIDE DEF slot
  <2>5. e \in HeapEntries /\ e.next = NULL /\ e.parent = heap[cur].parent /\ e.child = NULL
        /\ Image(e) = [name |-> name, type |-> "VARIABLE", address |-> slot]
    <3>1. slot \in Int /\ heap[cur].parent \in Nat
      BY <2>2, <2>4 DEF NULL
    <3> QED BY <3>1 DEF Entry, HeapEntries, EntryTypes, Image, NULL
  <2> HIDE DEF e
  <2>6. Added(heap, heap', cur, <<e>>)
    BY <2>0, <2>1, <2>2, <2>3, <2>5, AppendAdds
  <2>7. Grown(heap, heap', cur) /\ Len(heap') = Len(heap) + 1
    BY <2>6 DEF Added
  <2>8. Linked(heap', f)
    <3> DEFINE new == <<e>>
    <3>1. Added(heap, heap', cur, new) /\ new \in Seq(HeapEntries) /\ Len(new) = 1 /\ new[1] = e
      BY <2>5, <2>6
    <3>2. {e.parent, e.next, e.child} \subseteq NULL..Len(heap') /\ e.parent < Len(heap) + 1
      BY <2>2, <2>5, <2>7 DEF NULL
    <3>3. e.parent # NULL => heap'[e.parent].type = "PROCEDURE" /\ heap'[e.parent].child # NULL
      BY <2>2, <2>5, <2>7
    <3>4. f \in 1..Len(heap')
      BY <2>0, <2>2, <2>7
    <3> HIDE DEF new
    <3>5. \A i \in 1..Len(new) :
            /\ {new[i].parent, new[i].next, new[i].child} \subseteq NULL..Len(heap')
            /\ new[i].parent < Len(heap) + i
            /\ new[i].parent # NULL =>
                 heap'[new[i].parent].type = "PROCEDURE" /\ heap'[new[i].parent].child # NULL
      BY <3>1, <3>2, <3>3
    <3> QED BY ONLY <2>1, <3>1, <3>4, <3>5, GrownLinked
  <2>9. Mapping /\ Mapping'
    BY Mapped, PTL
  <2>10. /\ AbstractLayers = TableOf(heap, n, ls) /\ Table!depth = n
         /\ PlaceIs(cur, n, hs, ls, k)
    BY <2>0, <2>9 DEF Mapping
  <2>11. BehindPlace(heap, heap', n, hs, ls, k, e)
    <3>1. e.next = NULL /\ e.parent = heap[hs[n]].parent
      BY <2>2, <2>5
    <3> QED BY ONLY <2>1, <2>6, <2>10, <3>1, AddedBehind
  <2>12. /\ Represents(heap', f, n, hs, ms) /\ PlaceIs(f, n, hs, ms, k + 1)
         /\ TableOf(heap', n, ms)
              = [TableOf(heap, n, ls) EXCEPT ![n] = Append(SubSeq(@, 1, k), Image(e))]
    BY <2>0, <2>11 DEF BehindPlace
  <2>13. Carries(n, hs, ms)'
    BY <2>3, <2>8, <2>12 DEF Carries
  <2>14. AbstractLayers' = TableOf(heap', n, ms) /\ AbstractCur' = k + 1
    BY <2>3, <2>9, <2>12, <2>13 DEF Mapping
  <2>15. ~Table!isDuplicated(name)
    BY <1>2, DuplicatesAlike
  <2>16. PICK first \in FirstSlots : Table!SlotBehindCur(first) = slot
    BY SlotsAlike DEF slot
  <2>17. AbstractLayers'
           = Table!BehindCur([name |-> name, type |-> "VARIABLE",
                              address |-> Table!SlotBehindCur(first)])
    BY <2>0, <2>5, <2>10, <2>12, <2>14, <2>16 DEF Table!BehindCur
  <2>18. Table!insertVariable(name, first)
    BY <2>0, <2>14, <2>15, <2>17 DEF Table!insertVariable
  <2> QED BY <2>13, <2>18 DEF IInv
<1> QED BY <1>1, <1>2

LEMMA TableOpened ==
  ASSUME NEW h, NEW n \in Nat, NEW ls
  PROVE  TableOf(h, n + 1, [d \in 1..(n + 1) |-> IF d = n + 1 THEN <<>> ELSE ls[d]])
           = Append(TableOf(h, n, ls), <<>>)
<1> DEFINE ms == [d \in 1..(n + 1) |-> IF d = n + 1 THEN <<>> ELSE ls[d]]
           t == TableOf(h, n + 1, ms)
<1>1. \A d \in 1..n : d \in 1..(n + 1) /\ d # n + 1
  OBVIOUS
<1>2. n + 1 \in 1..(n + 1)
  OBVIOUS
<1>3. ms[n + 1] = <<>> /\ \A d \in 1..n : ms[d] = ls[d]
  BY <1>1, <1>2
<1> HIDE DEF ms
<1>4. t = [d \in 1..(n + 1) |-> RowOf(h, ms[d])]
  BY DEF TableOf
<1>5. RowOf(h, <<>>) = <<>>
  BY DEF RowOf
<1> HIDE DEF t
<1>6. t[n + 1] = <<>> /\ \A d \in 1..n : t[d] = RowOf(h, ls[d])
  BY <1>1, <1>2, <1>3, <1>4, <1>5
<1>7. [d \in 1..n |-> t[d]] = TableOf(h, n, ls)
  BY <1>6 DEF TableOf
<1>8. t = [d \in 1..(n + 1) |-> t[d]]
  BY <1>4
<1>9. Append([d \in 1..n |-> t[d]], t[n + 1]) = [d \in 1..(n + 1) |-> t[d]]
  BY AppendedValue
<1>10. t = Append(TableOf(h, n, ls), <<>>)
  BY <1>6, <1>7, <1>8, <1>9
<1> QED BY <1>10 DEF t, ms

LEMMA TableLeft ==
  ASSUME NEW h, NEW n \in Nat \ {0}, NEW ls
  PROVE  TableOf(h, n - 1, [d \in 1..(n - 1) |-> ls[d]]) = SubSeq(TableOf(h, n, ls), 1, n - 1)
<1> DEFINE t == TableOf(h, n, ls)
           m == n - 1
           R == {t[d] : d \in 1..n}
<1>1. t = [d \in 1..n |-> RowOf(h, ls[d])] /\ m \in Nat /\ m <= n
  BY DEF TableOf
<1>2. \A d \in 1..m : d \in 1..n
  OBVIOUS
<1> HIDE DEF t, m
<1>3. t \in Seq(R) /\ Len(t) = n
  BY <1>1
<1> DEFINE q == SubSeq(t, 1, m)
<1>4. q \in Seq(R) /\ Len(q) = m /\ \A d \in 1..m : q[d] = t[d]
  <2> HIDE DEF R
  <2> QED BY <1>1, <1>3
<1> HIDE DEF R, q
<1>5. q = [d \in 1..m |-> q[d]]
  BY <1>4
<1>6. \A d \in 1..m : q[d] = RowOf(h, ls[d])
  BY <1>1, <1>2, <1>4
<1>7. q = [d \in 1..m |-> RowOf(h, ls[d])]
  BY <1>5, <1>6
<1>8. TableOf(h, m, [d \in 1..m |-> ls[d]]) = [d \in 1..m |-> RowOf(h, ls[d])]
  BY DEF TableOf
<1> QED BY <1>7, <1>8 DEF q, t, m

LEMMA ProcedureCarries ==
  ASSUME NEW n, NEW hs, NEW ls, Carries(n, hs, ls), NEW name \in Names,
         NEW address \in Addresses, NEW garbage \in Garbage,
         insertProcedure(name, address, garbage)
  PROVE  IInv' /\ (Table!insertProcedure(name, address) \/ UNCHANGED Table!vars)
<1>1. CASE _isDuplicated(name)
  <2>1. UNCHANGED vars
    BY <1>1 DEF insertProcedure
  <2> QED BY <2>1, StutterCarries
<1>2. CASE ~_isDuplicated(name)
  <2>0. PICK f, ms, gs, ns :
          /\ f = Len(heap) + 1 /\ ms = [ls EXCEPT ![n] = <<f>> \o ls[n]]
          /\ gs = [d \in 1..(n + 1) |-> IF d = n + 1 THEN f + 1 ELSE hs[d]]
          /\ ns = [d \in 1..(n + 1) |-> IF d = n + 1 THEN <<>> ELSE ms[d]]
    OBVIOUS
  <2> DEFINE e == Entry(name, "PROCEDURE", 0, address, heap[hs[n]].next, f + 1)
             hd == HeadEntry(f, garbage)
             new == <<e, hd>>
             t == [name |-> name, type |-> "PROCEDURE", address |-> address]
  <2>1. Linked(heap, cur) /\ Represents(heap, cur, n, hs, ls)
    BY DEF Carries
  <2>2. /\ heap[cur].parent = heap[hs[n]].parent /\ _getLayerHead = hs[n]
        /\ hs[n] \in 1..Len(heap) /\ heap[hs[n]].next \in NULL..Len(heap) /\ Len(heap) \in Nat
        /\ heap[cur].parent \in NULL..Len(heap) /\ heap[cur].parent < Len(heap) + 1
        /\ \A g, a : Grown(heap, g, a) /\ heap[cur].parent # NULL =>
             g[heap[cur].parent].type = "PROCEDURE" /\ g[heap[cur].parent].child # NULL
    BY ParentOfNew
  <2>3. heap' = [heap EXCEPT ![hs[n]].next = f] \o new /\ cur' = f + 1
    BY <1>2, <2>0, <2>2 DEF insertProcedure, fresh
  <2>4. f \in Nat
    BY <2>0, <2>2
  <2>5. /\ e \in HeapEntries /\ e.next = heap[hs[n]].next /\ e.parent = heap[cur].parent
        /\ e.child = f + 1 /\ e.type = "PROCEDURE" /\ Image(e) = t
    <3>1. address \in Int /\ heap[hs[n]].next \in Nat /\ heap[cur].parent \in Nat /\ f + 1 \in Nat
      BY SMTT(60), <2>2, <2>4, SymbolHeapAssumption DEF NULL
    <3> QED BY <3>1 DEF Entry, HeapEntries, EntryTypes, Image
  <2>6. /\ hd \in HeapEntries /\ hd.next = NULL /\ hd.child = NULL /\ hd.parent = f
        /\ [type |-> hd.type, address |-> hd.address] \in Garbage
    BY <2>4, HeadEntryTypes
  <2> HIDE DEF e, hd, t
  <2>7. new \in Seq(HeapEntries) /\ Len(new) = 2 /\ new[1] = e /\ new[2] = hd
    BY <2>5, <2>6
  <2> HIDE DEF new
  <2>8. Added(heap, heap', hs[n], new)
    <3>1. new[1].next \in {NULL, heap[hs[n]].next} /\ Len(new) # 0
      BY <2>5, <2>7
    <3>2. \A i \in 2..Len(new) : new[i].next = NULL
      BY <2>6, <2>7
    <3> QED BY <2>0, <2>1, <2>2, <2>3, <2>7, <3>1, <3>2, UpdateAdds
  <2>9. /\ Grown(heap, heap', hs[n]) /\ Len(heap') = Len(heap) + 2
        /\ heap'[f] = e /\ heap'[f + 1] = hd
    <3>1. /\ Grown(heap, heap', hs[n]) /\ Len(heap') = Len(heap) + Len(new)
          /\ \A i \in 1..Len(new) : heap'[Len(heap) + i] = new[i]
      BY <2>8 DEF Added
    <3>2. 1 \in 1..Len(new) /\ 2 \in 1..Len(new) /\ Len(heap) + 1 = f /\ Len(heap) + 2 = f + 1
      BY <2>0, <2>2, <2>7
    <3>3. heap'[Len(heap) + 1] = new[1] /\ heap'[Len(heap) + 2] = new[2]
      BY <3>1, <3>2
    <3> QED BY <2>7, <3>1, <3>2, <3>3
  <2>10. f \in 1..Len(heap') /\ f + 1 \in 1..Len(heap')
    BY <2>0, <2>2, <2>9
  <2>11. \A b \in 1..Len(heap') : Linked(heap', b)
    <3>1. {e.parent, e.next, e.child} \subseteq NULL..Len(heap') /\ e.parent < Len(heap) + 1
      BY <2>2, <2>5, <2>9, <2>10 DEF NULL
    <3>2. e.parent # NULL => heap'[e.parent].type = "PROCEDURE" /\ heap'[e.parent].child # NULL
      BY <2>2, <2>5, <2>9
    <3>3. {hd.parent, hd.next, hd.child} \subseteq NULL..Len(heap') /\ hd.parent < Len(heap) + 2
      BY <2>0, <2>2, <2>6, <2>9, <2>10 DEF NULL
    <3>4. heap'[hd.parent].type = "PROCEDURE" /\ heap'[hd.parent].child # NULL
      BY <2>4, <2>5, <2>6, <2>9 DEF NULL
    <3>5. \A i \in 1..Len(new) :
            /\ {new[i].parent, new[i].next, new[i].child} \subseteq NULL..Len(heap')
            /\ new[i].parent < Len(heap) + i
            /\ new[i].parent # NULL =>
                 heap'[new[i].parent].type = "PROCEDURE" /\ heap'[new[i].parent].child # NULL
      <4> TAKE i \in 1..Len(new)
      <4>1. CASE i = 1
        BY <2>7, <3>1, <3>2, <4>1
      <4>2. CASE i = 2
        BY <2>7, <3>3, <3>4, <4>2
      <4> QED BY <2>7, <4>1, <4>2
    <3>6. new \in Seq(HeapEntries)
      BY <2>7
    <3> TAKE b \in 1..Len(heap')
    <3> QED BY ONLY <2>1, <2>8, <3>5, <3>6, b \in 1..Len(heap'), GrownLinked
  <2>12. AtTheHead(heap, heap', n, hs, ls, e)
    <3>1. Len(new) # 0 /\ new[1].next = heap[hs[n]].next /\ new[1].parent = heap[hs[n]].parent
          /\ new \in Seq(HeapEntries) /\ new[1] = e
      BY <2>2, <2>5, <2>7
    <3> QED BY ONLY <2>1, <2>8, <3>1, AddedAtHead
  <2>13. /\ Represents(heap', f, n, hs, ms)
         /\ TableOf(heap', n, ms) = [TableOf(heap, n, ls) EXCEPT ![n] = <<t>> \o @]
    BY <2>0, <2>5, <2>12 DEF AtTheHead
  <2>14. n \in Nat \ {0} /\ n \in 1..n /\ DOMAIN ls = 1..n /\ ls[n] \in Seq(1..Len(heap))
    BY <2>1 DEF Represents
  <2>15. ms[n] # <<>> /\ ms[n][1] = f
    <3>1. ms[n] = <<f>> \o ls[n]
      BY <2>0, <2>14
    <3> QED BY <2>14, <3>1
  <2>16. Represents(heap', f + 1, n + 1, gs, ns)
    <3> DEFINE b == f + 1
    <3>1. /\ Linked(heap', f) /\ b \in 1..Len(heap') /\ ms[n] # <<>>
          /\ heap'[b].parent = ms[n][1] /\ heap'[ms[n][1]].child = b /\ heap'[b].next = NULL
          /\ [type |-> heap'[b].type, address |-> heap'[b].address] \in Garbage
      BY <2>5, <2>6, <2>9, <2>10, <2>11, <2>15
    <3>2. /\ gs = [d \in 1..(n + 1) |-> IF d = n + 1 THEN b ELSE hs[d]]
          /\ ns = [d \in 1..(n + 1) |-> IF d = n + 1 THEN <<>> ELSE ms[d]]
      BY <2>0
    <3>3. Represents(heap', f, n, hs, ms)
      BY <2>13
    <3> HIDE DEF b
    <3>4. Represents(heap', b, n + 1, [d \in 1..(n + 1) |-> IF d = n + 1 THEN b ELSE hs[d]],
                     [d \in 1..(n + 1) |-> IF d = n + 1 THEN <<>> ELSE ms[d]])
      BY ONLY <3>1, <3>3, LayerOpened
    <3> QED BY <3>2, <3>4 DEF b
  <2>17. PlaceIs(f + 1, n + 1, gs, ns, 0)
    <3>1. n + 1 \in 1..(n + 1)
      BY <2>14
    <3>2. gs[n + 1] = f + 1 /\ ns[n + 1] = <<>>
      BY <2>0, <3>1
    <3>3. 0 \in 0..Len(<<>>)
      OBVIOUS
    <3> QED BY <3>2, <3>3 DEF PlaceIs
  <2>18. TableOf(heap', n + 1, ns) = Append(TableOf(heap', n, ms), <<>>)
    <3>1. n \in Nat
      BY <2>14
    <3>2. TableOf(heap', n + 1, [d \in 1..(n + 1) |-> IF d = n + 1 THEN <<>> ELSE ms[d]])
            = Append(TableOf(heap', n, ms), <<>>)
      BY ONLY <3>1, TableOpened
    <3> QED BY <2>0, <3>2
  <2>19. Carries(n + 1, gs, ns)'
    BY <2>3, <2>10, <2>11, <2>16 DEF Carries
  <2>20. Mapping /\ Mapping'
    BY Mapped, PTL
  <2>21. AbstractLayers = TableOf(heap, n, ls) /\ Table!depth = n
    BY <2>20 DEF Mapping
  <2>22. AbstractLayers' = TableOf(heap', n + 1, ns) /\ AbstractCur' = 0
    BY <2>3, <2>17, <2>19, <2>20 DEF Mapping
  <2>23. ~Table!isDuplicated(name)
    BY <1>2, DuplicatesAlike
  <2>24. AbstractLayers' = Append(Table!AtHead(t), <<>>)
    BY <2>13, <2>18, <2>21, <2>22 DEF Table!AtHead
  <2>25. Table!insertProcedure(name, address)
    BY <2>22, <2>23, <2>24 DEF Table!insertProcedure, t
  <2> QED BY <2>19, <2>25 DEF IInv
<1> QED BY <1>1, <1>2

LEMMA AscendCarries ==
  ASSUME NEW n, NEW hs, NEW ls, Carries(n, hs, ls), ascend
  PROVE  IInv' /\ (Table!ascend \/ UNCHANGED Table!vars)
<1>1. Linked(heap, cur) /\ Represents(heap, cur, n, hs, ls)
  BY DEF Carries
<1>2. LayerFacts(heap, cur, n, hs, ls)
  BY <1>1, RepresentsFacts
<1>3. CASE n = 1
  <2>1. heap[cur].parent = NULL
    <3>1. heap[cur].parent = heap[hs[n]].parent
      BY ParentOfNew
    <3> QED BY <1>2, <1>3, <3>1 DEF LayerFacts
  <2>2. UNCHANGED vars
    BY <2>1 DEF ascend
  <2> QED BY <2>2, StutterCarries
<1>4. CASE n # 1
  <2>0. PICK m, gs, ms :
          /\ m = n - 1 /\ gs = [d \in 1..(n - 1) |-> hs[d]] /\ ms = [d \in 1..(n - 1) |-> ls[d]]
    OBVIOUS
  <2>1. /\ Represents(heap, heap[cur].parent, m, gs, ms)
        /\ heap[cur].parent = ls[n - 1][1] /\ heap[cur].parent \in 1..Len(heap)
        /\ m \in 1..m
    BY <1>1, <1>4, <2>0, LayerLeft
  <2>2. cur' = heap[cur].parent /\ heap' = heap
    BY <2>1 DEF ascend, NULL
  <2>3. Linked(heap', cur')
    BY <1>1, <2>1, <2>2 DEF Linked, Sound
  <2>4. Carries(m, gs, ms)'
    BY <2>1, <2>2, <2>3 DEF Carries
  <2>5. PlaceIs(cur', m, gs, ms, 1)
    <3>1. m \in 1..(n - 1) /\ ms[m] = ls[m]
      BY <2>0, <2>1
    <3>2. 1 \in 1..Len(ls[m]) /\ Len(ls[m]) \in Nat
      BY <1>2, <3>1 DEF LayerFacts
    <3>3. 1 \in 0..Len(ms[m]) /\ ms[m][1] = cur'
      BY <2>0, <2>1, <2>2, <3>1, <3>2
    <3> QED BY <3>3 DEF PlaceIs
  <2>6. Mapping /\ Mapping'
    BY Mapped, PTL
  <2>7. AbstractLayers = TableOf(heap, n, ls) /\ Table!depth = n /\ n \in Nat \ {0}
    BY <2>6 DEF Mapping
  <2>8. AbstractLayers' = TableOf(heap', m, ms) /\ AbstractCur' = 1
    BY <2>4, <2>5, <2>6 DEF Mapping
  <2>9. TableOf(heap, n - 1, [d \in 1..(n - 1) |-> ls[d]]) = SubSeq(TableOf(heap, n, ls), 1, n - 1)
    BY <2>7, TableLeft
  <2>10. AbstractLayers' = SubSeq(AbstractLayers, 1, Table!depth - 1)
    BY <2>0, <2>2, <2>7, <2>8, <2>9
  <2>11. Table!ascend
    BY <1>4, <2>7, <2>8, <2>10 DEF Table!ascend
  <2> QED BY <2>4, <2>11 DEF IInv
<1> QED BY <1>3, <1>4

LEMMA StepCarries ==
  ASSUME IInv, [Next]_vars
  PROVE  IInv' /\ [Table!Next]_(Table!vars)
<1>1. PICK n, hs, ls : Carries(n, hs, ls)
  BY DEF IInv
<1>2. Table!depth = n /\ Len(Enclosing) = n - 1 /\ Len(Table!Layer) < Len(heap) /\ n \in Nat
  BY <1>1, Mapped DEF Mapping
<1>3. Len(heap) \in Nat /\ Len(Table!Layer) \in Int
  <2>1. Len(heap) \in Nat /\ n \in 1..n /\ ls[n] \in Seq(1..Len(heap))
    BY <1>1, LinkedFacts DEF Carries, Represents
  <2>2. Table!Layer = RowOf(heap, ls[n])
    BY <1>1, <1>2, <2>1, Mapped DEF Mapping, Table!Layer, TableOf
  <2>3. Len(RowOf(heap, ls[n])) = Len(ls[n])
    BY <2>1 DEF RowOf
  <2> QED BY <2>1, <2>2, <2>3
<1>4. CASE InsertProcedure
  <2>1. Len(heap) + 2 <= MaxHeap /\ Len(Enclosing) + 1 < MaxLayers
    BY <1>4 DEF InsertProcedure
  <2>2. PICK name \in Names, address \in Addresses, garbage \in Garbage :
          insertProcedure(name, address, garbage)
    BY <1>4 DEF InsertProcedure
  <2>3. IInv' /\ (Table!insertProcedure(name, address) \/ UNCHANGED Table!vars)
    BY <1>1, <2>2, ProcedureCarries
  <2>4. Table!Room /\ Table!depth < MaxLayers
    BY <1>2, <1>3, <2>1, SymbolHeapAssumption DEF Table!Room
  <2> QED BY <2>3, <2>4 DEF Table!Next, Table!InsertProcedure
<1>5. CASE InsertVariable
  <2>1. Len(heap) < MaxHeap
    BY <1>5 DEF InsertVariable
  <2>2. PICK name \in Names : insertVariable(name)
    BY <1>5 DEF InsertVariable
  <2>3. IInv' /\ ((\E first \in FirstSlots : Table!insertVariable(name, first))
                    \/ UNCHANGED Table!vars)
    BY <1>1, <2>2, VariableCarries
  <2>4. Table!Room
    BY <1>2, <1>3, <2>1, SymbolHeapAssumption DEF Table!Room
  <2> QED BY <2>3, <2>4 DEF Table!Next, Table!InsertVariable
<1>6. CASE InsertConstant
  <2>1. Len(heap) < MaxHeap
    BY <1>6 DEF InsertConstant
  <2>2. PICK name \in Names, value \in Values : insertConstant(name, value)
    BY <1>6 DEF InsertConstant
  <2>3. IInv' /\ (Table!insertConstant(name, value) \/ UNCHANGED Table!vars)
    BY <1>1, <2>2, ConstantCarries
  <2>4. Table!Room
    BY <1>2, <1>3, <2>1, SymbolHeapAssumption DEF Table!Room
  <2> QED BY <2>3, <2>4 DEF Table!Next, Table!InsertConstant
<1>7. CASE ascend
  BY <1>1, <1>7, AscendCarries DEF Table!Next
<1>8. CASE UNCHANGED vars
  BY <1>1, <1>8, StutterCarries
<1> QED BY <1>4, <1>5, <1>6, <1>7, <1>8 DEF Next

LEMMA Invariance == Spec => []IInv
<1>1. Init => IInv
  BY InitCarries
<1>2. IInv /\ [Next]_vars => IInv'
  BY StepCarries
<1> QED BY <1>1, <1>2, PTL DEF Spec
-----------------------------------------------------------------------------
(***************************************************************************)
(* The theorems.                                                           *)
(***************************************************************************)
\* Every pointer leads to an entry or is NULL, and _getLayerHead finds a head.
THEOREM LinksSoundHolds == Spec => []LinksSound
<1>1. IInv => LinksSound
  BY DEF IInv, Carries, Linked, Sound, LinksSound, Pointers
<1> QED BY Invariance, <1>1, PTL

\* What the loops of findEntry and countLayerSize meet after i steps is the
\* next entry of the chain, or NULL behind its end.
LEMMA Followed ==
  ASSUME NEW n, NEW hs, NEW ls, Carries(n, hs, ls), NEW p \in 1..Len(heap)
  PROVE  Follow(p, Len(heap)) = NULL
<1> DEFINE K == Len(heap)
           body(f, i) == IF i = 0 THEN p
                         ELSE IF f[i - 1] = NULL THEN NULL ELSE heap[f[i - 1]].next
           follow == CHOOSE f : f = [i \in 0..K |-> body(f, i)]
<1>1. Linked(heap, cur)
  BY DEF Carries
<1>2. K \in Nat /\ Ranked(heap) /\ NextsInRange(heap) /\ heap[p].next \in NULL..K
  BY <1>1, LinkedFacts DEF NextsInRange
<1>3. PICK t : IsChain(heap, heap[p].next, t)
  BY <1>2, OneChain
<1> DEFINE s == <<p>> \o t
<1>4. IsChain(heap, p, s)
  BY <1>3, ChainInFront
<1>5. Len(t) < K
  BY <1>2, <1>3, ChainDescends
<1>6. Len(s) \in Nat /\ Len(s) <= K /\ \A i \in 1..Len(s) : s[i] \in 1..K
  <2>1. t \in Seq(1..K)
    BY <1>3 DEF IsChain
  <2>2. Len(s) \in Nat /\ Len(s) <= K
    BY <1>2, <1>5, <2>1
  <2>3. s \in Seq(1..K)
    BY <1>4 DEF IsChain
  <2> HIDE DEF s, K
  <2>4. \A i \in 1..Len(s) : s[i] \in 1..K
    BY ONLY <2>3, ElementOfSeq
  <2> QED BY <2>2, <2>4
<1> HIDE DEF s, K
<1>7. /\ At(s, 1) = p
      /\ \A i \in 1..K : IF At(s, i) = NULL THEN At(s, i + 1) = NULL
                         ELSE heap[At(s, i)].next = At(s, i + 1)
  <2>1. At(s, 1) = p
    BY <1>4 DEF IsChain
  <2>2. ASSUME NEW i \in 1..K
        PROVE  IF At(s, i) = NULL THEN At(s, i + 1) = NULL
               ELSE heap[At(s, i)].next = At(s, i + 1)
    <3>1. CASE i \in 1..Len(s)
      <4>1. At(s, i) = s[i] /\ s[i] # NULL
        <5>1. s[i] \in 1..K
          BY <1>6, <3>1
        <5>2. s[i] # NULL
          BY <1>2, <5>1 DEF NULL
        <5> QED BY <3>1, <5>2 DEF At
      <4> QED BY <1>4, <3>1, <4>1 DEF IsChain
    <3>2. CASE i \notin 1..Len(s)
      <4>1. i + 1 \notin 1..Len(s)
        BY <1>2, <1>6, <3>2
      <4> QED BY <3>2, <4>1 DEF At
    <3> QED BY <3>1, <3>2
  <2> QED BY <2>1, <2>2
<1>8. follow = [i \in 0..K |-> body(follow, i)]
  <2> DEFINE w == [i \in 0..K |-> At(s, i + 1)]
  <2>1. \A i \in 0..K : w[i] = body(w, i)
    <3> TAKE i \in 0..K
    <3>1. CASE i = 0
      BY <1>7, <3>1
    <3>2. CASE i # 0
      <4>1. i \in 1..K /\ i - 1 \in 0..K /\ (i - 1) + 1 = i
        BY <1>2, <3>2
      <4>2. w[i] = At(s, i + 1) /\ w[i - 1] = At(s, i)
        BY <4>1
      <4> QED BY <1>7, <3>2, <4>1, <4>2
    <3> QED BY <3>1, <3>2
  <2>2. w = [i \in 0..K |-> w[i]]
    OBVIOUS
  <2> HIDE DEF w
  <2>3. w = [i \in 0..K |-> body(w, i)]
    <3> HIDE DEF body
    <3> QED BY <2>1, <2>2
  <2> QED BY <2>3
<1>9. \A i \in 0..K : follow[i] = body(follow, i)
  <2> HIDE DEF body, follow
  <2> QED BY <1>8
<1>10. Follow(p, K) = follow[K]
  BY DEF Follow
<1> HIDE DEF follow
<1> DEFINE S == {i \in 0..K : follow[i] = At(s, i + 1)}
<1>11. \A i \in 0..K : (\A k \in 0..(i - 1) : k \in S) => i \in S
  <2> TAKE i \in 0..K
  <2> HAVE \A k \in 0..(i - 1) : k \in S
  <2>1. CASE i = 0
    BY <1>7, <1>9, <2>1
  <2>2. CASE i # 0
    <3>1. i \in 1..K /\ i - 1 \in 0..(i - 1) /\ (i - 1) + 1 = i
      BY <1>2, <2>2
    <3>2. follow[i - 1] = At(s, i)
      BY <3>1
    <3>3. follow[i] = IF At(s, i) = NULL THEN NULL ELSE heap[At(s, i)].next
      BY <1>9, <2>2, <3>2
    <3>4. follow[i] = At(s, i + 1)
      BY <1>7, <3>1, <3>3
    <3> QED BY <3>4
  <2> QED BY <2>1, <2>2
<1> HIDE DEF S
<1>12. \A i \in 0..K : i \in S
  <2>1. 0 \in Nat /\ K \in Int /\ \A i \in 0..K : (\A k \in 0..(i - 1) : k \in S) => i \in S
    BY <1>2, <1>11
  <2> QED BY ONLY <2>1, Upwards
<1>13. follow[K] = At(s, K + 1)
  BY <1>2, <1>12 DEF S
<1>14. At(s, K + 1) = NULL
  BY <1>2, <1>6 DEF At
<1> QED BY <1>10, <1>13, <1>14 DEF K

\* The loops of findEntry and countLayerSize end, whatever was declared; and no
\* two entries share a next.
THEOREM LayersAreListsHolds == Spec => []LayersAreLists
<1>1. IInv => LayersAreLists
  <2> SUFFICES ASSUME IInv PROVE LayersAreLists
    OBVIOUS
  <2>1. PICK n, hs, ls : Carries(n, hs, ls)
    BY DEF IInv
  <2>2. \A p \in 1..Len(heap) : Follow(p, Len(heap)) = NULL
    BY <2>1, Followed
  <2>3. Unshared(heap)
    BY <2>1 DEF Carries, Linked
  <2> QED BY <2>2, <2>3 DEF LayersAreLists, Unshared
<1> QED BY Invariance, <1>1, PTL

\* findEntry, which enters an enclosing layer at its procedure and not at its
\* head, finds what the search of the whole lists finds; countLayerSize counts
\* the same variables.
THEOREM QueriesAgreeHolds == Spec => []QueriesAgree
<1>1. IInv => QueriesAgree
  <2> SUFFICES ASSUME IInv PROVE QueriesAgree
    OBVIOUS
  <2>1. PICK n, hs, ls : Carries(n, hs, ls)
    BY DEF IInv
  <2>2. Linked(heap, cur) /\ Represents(heap, cur, n, hs, ls)
    BY <2>1 DEF Carries
  <2>3. countLayerSize = Table!countLayerSize
    BY <2>2, SizesAlike
  <2>4. \A name \in Names :
          /\ findEntry(name).level = Table!findEntry(name).level
          /\ findEntry(name).level # -1 =>
               Abstract(findEntry(name).entry) = Table!findEntry(name).entry
    BY <2>2, FindsAlike
  <2> QED BY <2>3, <2>4 DEF QueriesAgree
<1> QED BY Invariance, <1>1, PTL

\* The pointers implement SymbolManager: insertProcedure, insertVariable,
\* insertConstant and ascend do to the lists of the open layers exactly what
\* that module says, and touch nothing else of them.
THEOREM Implements == Spec => ImplementsTable
<1>1. Init => Table!Init
  BY InitCarries
<1>2. IInv /\ [Next]_vars => [Table!Next]_(Table!vars)
  BY StepCarries
<1> QED BY Invariance, <1>1, <1>2, PTL DEF Spec, ImplementsTable, Table!Spec
=============================================================================
