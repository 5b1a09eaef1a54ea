-------------------------- MODULE RecursionLemmas --------------------------
(***************************************************************************)
(* Induction over a range of numbers, upwards and downwards, and the       *)
(* functions that are defined by such a recursion.  The library's theorems *)
(* of this kind have an operator for a parameter; these do with sets and   *)
(* functions.                                                              *)
(***************************************************************************)
EXTENDS Integers, WellFoundedInduction, TLAPS

\* A set of natural numbers that is not empty has a least element.
LEMMA LeastNumber ==
  ASSUME NEW T \in SUBSET Nat, T # {}
  PROVE  \E m \in T : \A j \in T : m <= j
<1>1. \E m \in T : \A j \in T : ~(<<j, m>> \in OpToRel(<, Nat))
  BY NatLessThanWellFounded, WFMin
<1>2. \A j, m \in Nat : j < m => <<j, m>> \in OpToRel(<, Nat)
  BY DEF OpToRel
<1>3. PICK m \in T : \A j \in T : ~(<<j, m>> \in OpToRel(<, Nat))
  BY <1>1
<1>4. \A j \in T : ~(j < m)
  BY <1>2, <1>3
<1> QED BY <1>4

\* What holds of a number when it holds of the smaller ones holds of all.
LEMMA Upwards ==
  ASSUME NEW lo \in Nat, NEW N \in Int, NEW S,
         \A m \in lo..N : (\A k \in lo..(m - 1) : k \in S) => m \in S
  PROVE  \A m \in lo..N : m \in S
<1> DEFINE T == {m \in lo..N : m \notin S}
<1>1. SUFFICES ASSUME T # {} PROVE FALSE
  OBVIOUS
<1>2. T \in SUBSET Nat
  OBVIOUS
<1>3. PICK m \in T : \A j \in T : m <= j
  BY <1>1, <1>2, LeastNumber
<1>4. \A k \in lo..(m - 1) : k \in S
  BY <1>3
<1> QED BY <1>3, <1>4

\* What holds of a number when it holds of the greater ones holds of all.
LEMMA Downwards ==
  ASSUME NEW N \in Nat, NEW S,
         \A m \in 0..N : (\A k \in (m + 1)..N : k \in S) => m \in S
  PROVE  \A m \in 0..N : m \in S
<1> DEFINE U == {m \in 0..N : N - m \in S}
<1>1. \A m \in 0..N : (\A k \in 0..(m - 1) : k \in U) => m \in U
  <2> TAKE m \in 0..N
  <2> HAVE \A k \in 0..(m - 1) : k \in U
  <2>1. ASSUME NEW k \in ((N - m) + 1)..N PROVE k \in S
    <3>1. N - k \in 0..(m - 1)
      OBVIOUS
    <3>2. N - (N - k) = k
      OBVIOUS
    <3> QED BY <3>1, <3>2
  <2>2. N - m \in 0..N
    OBVIOUS
  <2> QED BY <2>1, <2>2
<1> HIDE DEF U
<1>2. \A m \in 0..N : m \in U
  <2>1. /\ 0 \in Nat /\ N \in Int
        /\ \A m \in 0..N : (\A k \in 0..(m - 1) : k \in U) => m \in U
    BY <1>1
  <2> QED BY ONLY <2>1, Upwards
<1>3. \A m \in 0..N : N - m \in U /\ N - (N - m) = m
  BY <1>2
<1> QED BY <1>3 DEF U

\* One step of a recursion, which takes an argument and the function defined
\* and looks at its values for smaller arguments, or for greater ones, only.
LooksBack(step, lo, N, R) ==
  /\ step \in [lo..N -> [[lo..N -> R] -> R]]
  /\ \A i \in lo..N : \A f, g \in [lo..N -> R] :
       (\A k \in lo..(i - 1) : f[k] = g[k]) => step[i][f] = step[i][g]

LooksAhead(step, N, R) ==
  /\ step \in [0..N -> [[0..N -> R] -> R]]
  /\ \A i \in 0..N : \A f, g \in [0..N -> R] :
       (\A k \in (i + 1)..N : f[k] = g[k]) => step[i][f] = step[i][g]

\* Both define a function.
LEMMA RecursionUpwards ==
  ASSUME NEW lo \in Nat, NEW N \in Nat, lo <= N, NEW R, NEW r \in R,
         NEW step, LooksBack(step, lo, N, R)
  PROVE  \E f \in [lo..N -> R] : \A i \in lo..N : f[i] = step[i][f]
<1> USE DEF LooksBack
<1> DEFINE Upto(f, m) == \A i \in lo..m : f[i] = step[i][f]
           S == {m \in lo..N : \E f \in [lo..N -> R] : Upto(f, m)}
<1>1. \A m \in lo..N : (\A k \in lo..(m - 1) : k \in S) => m \in S
  <2> TAKE m \in lo..N
  <2> HAVE \A k \in lo..(m - 1) : k \in S
  <2>1. PICK f \in [lo..N -> R] : Upto(f, m - 1)
    <3>1. CASE m = lo
      <4>1. [i \in lo..N |-> r] \in [lo..N -> R]
        OBVIOUS
      <4>2. lo..(m - 1) = {}
        BY <3>1
      <4> QED BY <4>1, <4>2
    <3>2. CASE m # lo
      <4>1. m - 1 \in lo..(m - 1)
        BY <3>2
      <4>2. m - 1 \in S
        BY ONLY <4>1, \A k \in lo..(m - 1) : k \in S
      <4> QED BY <4>2
    <3> QED BY <3>1, <3>2
  <2> DEFINE v == step[m][f]
             g == [f EXCEPT ![m] = v]
  <2>2. v \in R
    OBVIOUS
  <2>3. g \in [lo..N -> R]
    BY <2>2
  <2>4. g[m] = v /\ \A k \in lo..(m - 1) : g[k] = f[k]
    OBVIOUS
  <2> HIDE DEF g
  <2>5. \A i \in lo..m : step[i][g] = step[i][f]
    <3> TAKE i \in lo..m
    <3>1. i \in lo..N /\ \A k \in lo..(i - 1) : g[k] = f[k]
      BY <2>4
    <3> QED BY <2>3, <3>1
  <2>6. Upto(g, m)
    <3> TAKE i \in lo..m
    <3>1. CASE i = m
      BY <2>4, <2>5, <3>1
    <3>2. CASE i # m
      <4>1. i \in lo..(m - 1)
        BY <3>2
      <4> QED BY <2>1, <2>4, <2>5, <4>1
    <3> QED BY <3>1, <3>2
  <2> QED BY <2>3, <2>6
<1> HIDE DEF S
<1>2. \A m \in lo..N : m \in S
  <2>1. /\ lo \in Nat /\ N \in Int
        /\ \A m \in lo..N : (\A k \in lo..(m - 1) : k \in S) => m \in S
    BY <1>1
  <2> QED BY ONLY <2>1, Upwards
<1>3. N \in S
  BY <1>2
<1> QED BY <1>3 DEF S

LEMMA RecursionDownwards ==
  ASSUME NEW N \in Nat, NEW R, NEW r \in R,
         NEW step, LooksAhead(step, N, R)
  PROVE  \E f \in [0..N -> R] : \A i \in 0..N : f[i] = step[i][f]
<1> USE DEF LooksAhead
<1> DEFINE Mirror(f) == [k \in 0..N |-> f[N - k]]
           up == [i \in 0..N |-> [f \in [0..N -> R] |-> step[N - i][Mirror(f)]]]
<1>1. \A f \in [0..N -> R] : Mirror(f) \in [0..N -> R]
  OBVIOUS
<1>2. up \in [0..N -> [[0..N -> R] -> R]]
  <2> HIDE DEF Mirror
  <2>1. \A i \in 0..N : N - i \in 0..N
    OBVIOUS
  <2>2. \A i \in 0..N : \A f \in [0..N -> R] : step[N - i][Mirror(f)] \in R
    BY <1>1, <2>1
  <2> QED BY <2>2
<1>3. \A i \in 0..N : \A f \in [0..N -> R] : up[i][f] = step[N - i][Mirror(f)]
  OBVIOUS
<1>4. \A i \in 0..N : \A f, g \in [0..N -> R] :
        (\A k \in 0..(i - 1) : f[k] = g[k]) => up[i][f] = up[i][g]
  <2> TAKE i \in 0..N
  <2> TAKE f, g \in [0..N -> R]
  <2> HAVE \A k \in 0..(i - 1) : f[k] = g[k]
  <2>1. \A k \in ((N - i) + 1)..N : N - k \in 0..(i - 1) /\ k \in 0..N
    OBVIOUS
  <2>2. \A k \in ((N - i) + 1)..N : Mirror(f)[k] = Mirror(g)[k]
    BY <2>1
  <2>3. Mirror(f) \in [0..N -> R] /\ Mirror(g) \in [0..N -> R] /\ N - i \in 0..N
    BY <1>1
  <2> HIDE DEF Mirror
  <2>4. step[N - i][Mirror(f)] = step[N - i][Mirror(g)]
    BY <2>2, <2>3
  <2> QED BY <1>3, <2>4
<1>5. \E f \in [0..N -> R] : \A i \in 0..N : f[i] = up[i][f]
  <2> HIDE DEF up
  <2>1. 0 \in Nat /\ 0 <= N /\ N \in Nat /\ r \in R
    OBVIOUS
  <2>2. LooksBack(up, 0, N, R)
    BY <1>2, <1>4 DEF LooksBack
  <2> QED BY ONLY <2>1, <2>2, RecursionUpwards
<1>6. PICK f \in [0..N -> R] : \A i \in 0..N : f[i] = up[i][f]
  BY <1>5
<1> HIDE DEF up
<1>7. \A i \in 0..N : f[i] = step[N - i][Mirror(f)]
  BY <1>3, <1>6
<1>8. Mirror(f) \in [0..N -> R]
  BY <1>1
<1>9. \A i \in 0..N : N - i \in 0..N /\ Mirror(f)[i] = f[N - i] /\ N - (N - i) = i
  OBVIOUS
<1> HIDE DEF Mirror
<1>10. \A i \in 0..N : Mirror(f)[i] = step[i][Mirror(f)]
  BY <1>7, <1>9
<1> QED BY <1>8, <1>10
=============================================================================
