------------------------ MODULE SymbolManagerProofs ------------------------
(***************************************************************************)
(* Theorems about the symbol table, for any number of names, layers and    *)
(* entries.  The slot of a layer's first variable is 3, as it is unless    *)
(* the uninitialized type of the head happens to read as VARIABLE.         *)
(***************************************************************************)
EXTENDS SymbolManager, FiniteSetTheorems, WellFoundedInduction, TLAPS

ASSUME FirstSlotIs3 == FirstAddresses = {3}
----------------------------------------------------------------------------
(***************************************************************************)
(* Layouts of one layer.                                                   *)
(***************************************************************************)

\* The variables of a layer that ends in a run fill the slots from 3 on.
LEMMA RunFillsSlots ==
  ASSUME NEW layer \in Seq(Entries), EndsInRun(layer)
  PROVE  {layer[i].address : i \in VariablesOf(layer)}
           = 3..(2 + Cardinality(VariablesOf(layer)))
<1>1. PICK k \in 0..Len(layer) : \A i \in 1..Len(layer) :
        IF i <= k THEN layer[i].type # "VARIABLE"
        ELSE layer[i].type = "VARIABLE" /\ layer[i].address = 2 + i - k
  BY DEF EndsInRun
<1>2. Len(layer) \in Nat /\ DOMAIN layer = 1..Len(layer)
  OBVIOUS
<1>3. VariablesOf(layer) = (k + 1)..Len(layer)
  BY <1>1, <1>2 DEF VariablesOf
<1>4. Cardinality(VariablesOf(layer)) = Len(layer) - k
  <2>1. Cardinality((k + 1)..Len(layer))
          = IF k + 1 > Len(layer) THEN 0 ELSE Len(layer) - (k + 1) + 1
    <3>1. k + 1 \in Int /\ Len(layer) \in Int
      BY <1>2
    <3> QED BY <3>1, FS_Interval
  <2> QED BY <1>2, <1>3, <2>1
<1>5. \A i \in (k + 1)..Len(layer) : layer[i].address = 2 + i - k
  BY <1>1, <1>2
<1>6. {layer[i].address : i \in (k + 1)..Len(layer)} = 3..(2 + (Len(layer) - k))
  <2>1. ASSUME NEW a \in 3..(2 + (Len(layer) - k))
        PROVE  \E i \in (k + 1)..Len(layer) : layer[i].address = a
    <3>1. a - 2 + k \in (k + 1)..Len(layer)
      BY <1>2
    <3>2. layer[a - 2 + k].address = a
      BY <1>2, <1>5, <3>1
    <3> QED BY <3>1, <3>2
  <2>2. \A i \in (k + 1)..Len(layer) : layer[i].address \in 3..(2 + (Len(layer) - k))
    BY <1>2, <1>5
  <2> QED BY <2>1, <2>2
<1> QED BY <1>3, <1>4, <1>6

\* An entry that is not a variable goes in front of the run.
LEMMA RunBehindHead ==
  ASSUME NEW layer \in Seq(Entries), EndsInRun(layer),
         NEW e \in Entries, e.type # "VARIABLE"
  PROVE  EndsInRun(<<e>> \o layer)
<1> DEFINE longer == <<e>> \o layer
<1>1. PICK k \in 0..Len(layer) : \A i \in 1..Len(layer) :
        IF i <= k THEN layer[i].type # "VARIABLE"
        ELSE layer[i].type = "VARIABLE" /\ layer[i].address = 2 + i - k
  BY DEF EndsInRun
<1>2. /\ longer[1] = e
      /\ Len(longer) = Len(layer) + 1
      /\ \A i \in 2..Len(longer) : longer[i] = layer[i - 1]
  OBVIOUS
<1>3. ASSUME NEW i \in 1..Len(longer)
      PROVE  IF i <= k + 1 THEN longer[i].type # "VARIABLE"
             ELSE longer[i].type = "VARIABLE" /\ longer[i].address = 2 + i - (k + 1)
  <2>1. CASE i = 1
    BY <1>2, <2>1
  <2>2. CASE i # 1
    <3>1. i - 1 \in 1..Len(layer) /\ longer[i] = layer[i - 1]
      BY <1>2, <2>2
    <3> QED BY <1>1, <3>1
  <2> QED BY <2>1, <2>2
<1>4. k + 1 \in 0..Len(longer)
  BY <1>2
<1> HIDE DEF longer
<1>5. EndsInRun(longer)
  BY <1>3, <1>4 DEF EndsInRun
<1> QED BY <1>5 DEF longer

\* A variable behind the place cur may have gets the slot that prolongs the run.
LEMMA RunBehindVariable ==
  ASSUME NEW layer \in Seq(Entries), EndsInRun(layer), NEW c \in 0..Len(layer),
         \/ c = 0 /\ layer = <<>>
         \/ c = 1 /\ layer # <<>> /\ layer[1].type # "VARIABLE"
         \/ c = Len(layer) /\ layer # <<>> /\ layer[c].type = "VARIABLE",
         NEW e, e.type = "VARIABLE",
         e.address = IF c = 0 THEN 3
                     ELSE IF layer[c].type # "VARIABLE" THEN 3 ELSE layer[c].address + 1
  PROVE  EndsInRun(Append(SubSeq(layer, 1, c), e))
<1> DEFINE new == Append(SubSeq(layer, 1, c), e)
<1>1. /\ Len(new) = c + 1
      /\ new[c + 1] = e
      /\ \A i \in 1..c : new[i] = layer[i]
  OBVIOUS
<1>2. PICK k \in 0..Len(layer) : \A i \in 1..Len(layer) :
        IF i <= k THEN layer[i].type # "VARIABLE"
        ELSE layer[i].type = "VARIABLE" /\ layer[i].address = 2 + i - k
  BY DEF EndsInRun
<1> HIDE DEF new
<1>3. CASE c = 0 /\ layer = <<>>
  <2>1. \A i \in 1..Len(new) :
          new[i].type = "VARIABLE" /\ new[i].address = 2 + i - 0
    BY <1>1, <1>3
  <2>2. 0 \in 0..Len(new) /\ \A i \in 1..Len(new) : ~(i <= 0)
    BY <1>1, <1>3
  <2>3. EndsInRun(new)
    BY <2>1, <2>2 DEF EndsInRun
  <2> QED BY <2>3 DEF new
<1>4. CASE c = 1 /\ layer # <<>> /\ layer[1].type # "VARIABLE"
  <2>1. ASSUME NEW i \in 1..Len(new)
        PROVE  IF i <= 1 THEN new[i].type # "VARIABLE"
               ELSE new[i].type = "VARIABLE" /\ new[i].address = 2 + i - 1
    BY <1>1, <1>4
  <2>2. 1 \in 0..Len(new)
    BY <1>1, <1>4
  <2>3. EndsInRun(new)
    BY <2>1, <2>2 DEF EndsInRun
  <2> QED BY <2>3 DEF new
<1>5. CASE c = Len(layer) /\ layer # <<>> /\ layer[c].type = "VARIABLE"
  <2>0. c \in 1..Len(layer)
    BY <1>5
  <2>1. k < c /\ layer[c].address = 2 + c - k
    BY <1>2, <1>5, <2>0
  <2>2. e.address = 2 + (c + 1) - k
    BY <1>5, <2>0, <2>1
  <2>3. ASSUME NEW i \in 1..Len(new)
        PROVE  IF i <= k THEN new[i].type # "VARIABLE"
               ELSE new[i].type = "VARIABLE" /\ new[i].address = 2 + i - k
    <3>1. CASE i = c + 1
      BY <1>1, <2>1, <2>2, <3>1
    <3>2. CASE i # c + 1
      <4>1. i \in 1..Len(layer) /\ new[i] = layer[i]
        BY <1>1, <1>5, <3>2
      <4> QED BY <1>2, <4>1
    <3> QED BY <3>1, <3>2
  <2>4. k \in 0..Len(new)
    BY <1>1, <1>5
  <2>5. EndsInRun(new)
    BY <2>3, <2>4 DEF EndsInRun
  <2> QED BY <2>5 DEF new
<1> QED BY <1>3, <1>4, <1>5
----------------------------------------------------------------------------
(***************************************************************************)
(* What the test for duplicates finds.                                     *)
(***************************************************************************)

LEMMA LeastOfNaturals ==
  ASSUME NEW T \in SUBSET Nat, T # {}
  PROVE  \E m \in T : \A j \in T : m <= j
<1>1. \E m \in T : \A j \in T : ~(<<j, m>> \in OpToRel(<, Nat))
  BY NatLessThanWellFounded, WFMin
<1>2. \A j, m \in Nat : j < m => <<j, m>> \in OpToRel(<, Nat)
  BY DEF OpToRel
<1>3. PICK m \in T : \A j \in T : ~(<<j, m>> \in OpToRel(<, Nat))
  BY <1>1
<1>4. \A j \in T : ~(j < m)
  BY <1>2, <1>3
<1> QED BY <1>4

\* FirstOf is the first hit there is: the closest layer, and there the first
\* entry.
LEMMA FirstHit ==
  ASSUME TypeOK, NEW name, Homonyms(name) # {}
  PROVE  LET h == FirstOf(Homonyms(name))
         IN  /\ h \in Homonyms(name)
             /\ \A k \in Homonyms(name) : h[1] < k[1] \/ (h[1] = k[1] /\ h[2] <= k[2])
<1> DEFINE hits == Homonyms(name)
           distances == {l \in 0..(depth - 1) :
                           \E j \in DOMAIN layers[depth - l] : layers[depth - l][j].name = name}
<1>1. depth \in Nat /\ \A l \in 0..(depth - 1) : layers[depth - l] \in Seq(Entries)
  BY DEF TypeOK, depth
<1>2. hits = UNION {{<<l, j>> : j \in {n \in DOMAIN layers[depth - l] :
                                         layers[depth - l][n].name = name}} :
                    l \in 0..(depth - 1)}
  BY DEF Homonyms
<1>3. \A h \in hits : /\ h = <<h[1], h[2]>>
                      /\ h[1] \in distances
                      /\ h[2] \in DOMAIN layers[depth - h[1]]
                      /\ layers[depth - h[1]][h[2]].name = name
  BY <1>2
<1>4. distances \in SUBSET Nat /\ distances # {}
  BY <1>1, <1>3
<1>5. PICK l \in distances : \A k \in distances : l <= k
  BY <1>4, LeastOfNaturals
<1> DEFINE same == {j \in DOMAIN layers[depth - l] : layers[depth - l][j].name = name}
<1>6. same \in SUBSET Nat /\ same # {}
  <2>1. layers[depth - l] \in Seq(Entries)
    BY <1>1
  <2> QED BY <2>1
<1>7. PICK m \in same : \A j \in same : m <= j
  BY <1>6, LeastOfNaturals
<1>8. <<l, m>> \in hits
  BY <1>2
<1>9. \A h \in hits : l < h[1] \/ (l = h[1] /\ m <= h[2])
  <2>1. SUFFICES ASSUME NEW h \in hits, ~(l < h[1])
                 PROVE  l = h[1] /\ m <= h[2]
    OBVIOUS
  <2>2. h[1] = l
    BY <1>3, <1>4, <1>5, <2>1
  <2>3. h[2] \in same
    BY <1>3, <2>2
  <2> QED BY <1>7, <2>2, <2>3
<1> HIDE DEF hits, distances, same
<1>10. \E f \in hits : \A h \in hits : f[1] < h[1] \/ (f[1] = h[1] /\ f[2] <= h[2])
  <2>1. <<l, m>>[1] = l /\ <<l, m>>[2] = m
    OBVIOUS
  <2> QED BY <1>8, <1>9, <2>1
<1> QED BY <1>10 DEF FirstOf, hits

\* What findEntry finds: an entry of that name, in the closest layer with one,
\* or nothing, when no open layer has one.
LEMMA FindsClosest ==
  ASSUME TypeOK, NEW name
  PROVE  LET f == findEntry(name)
         IN  \/ /\ f = NotFound
                /\ \A d \in 1..depth : \A i \in DOMAIN layers[d] : layers[d][i].name # name
             \/ /\ f.level \in 0..(depth - 1)
                /\ \E i \in DOMAIN layers[depth - f.level] : f.entry = layers[depth - f.level][i]
                /\ f.entry \in Entries /\ f.entry.name = name
                /\ \A d \in (depth - f.level + 1)..depth : \A i \in DOMAIN layers[d] :
                     layers[d][i].name # name
<1> DEFINE hits == Homonyms(name)
           h == FirstOf(hits)
           f == findEntry(name)
<1>1. depth \in Nat /\ \A d \in 1..depth : layers[d] \in Seq(Entries)
  BY DEF TypeOK, depth
<1>2. \A l \in 0..(depth - 1) : \A i \in DOMAIN layers[depth - l] :
        layers[depth - l][i].name = name => <<l, i>> \in hits
  BY DEF Homonyms
<1>3. \A d \in 1..depth : depth - d \in 0..(depth - 1) /\ depth - (depth - d) = d
  BY <1>1
<1>4. \A d \in 1..depth : \A i \in DOMAIN layers[d] :
        layers[d][i].name = name => <<depth - d, i>> \in hits
  BY <1>2, <1>3
<1>5. CASE hits = {}
  <2>1. f = NotFound
    BY <1>5 DEF findEntry
  <2> QED BY <1>4, <1>5, <2>1
<1>6. CASE hits # {}
  <2>1. h \in hits /\ \A k \in hits : h[1] < k[1] \/ (h[1] = k[1] /\ h[2] <= k[2])
    BY <1>6, FirstHit
  <2>2. /\ h[1] \in 0..(depth - 1)
        /\ h[2] \in DOMAIN layers[depth - h[1]]
        /\ layers[depth - h[1]][h[2]].name = name
    <3>1. \E l \in 0..(depth - 1) : \E i \in DOMAIN layers[depth - l] :
            h = <<l, i>> /\ layers[depth - l][i].name = name
      BY ONLY <2>1 DEF Homonyms
    <3> PICK l \in 0..(depth - 1) : \E i \in DOMAIN layers[depth - l] :
            h = <<l, i>> /\ layers[depth - l][i].name = name
      BY <3>1
    <3> PICK i \in DOMAIN layers[depth - l] :
            h = <<l, i>> /\ layers[depth - l][i].name = name
      OBVIOUS
    <3>2. h[1] = l /\ h[2] = i
      OBVIOUS
    <3> QED BY <3>2
  <2> HIDE DEF h, hits
  <2>3. f.level = h[1] /\ f.entry = layers[depth - h[1]][h[2]]
    BY <1>6 DEF findEntry, h, hits
  <2>4. f.entry \in Entries
    BY <1>1, <2>2, <2>3
  <2>5. ASSUME NEW d \in (depth - h[1] + 1)..depth, NEW i \in DOMAIN layers[d]
        PROVE  layers[d][i].name # name
    <3>1. d \in 1..depth /\ depth - d < h[1]
      BY <1>1, <2>2
    <3>2. SUFFICES ASSUME <<depth - d, i>> \in hits PROVE FALSE
      BY <1>4, <3>1
    <3>3. h[1] < <<depth - d, i>>[1] \/ h[1] = <<depth - d, i>>[1]
      BY <2>1, <3>2
    <3>4. <<depth - d, i>>[1] = depth - d
      OBVIOUS
    <3> QED BY <1>1, <2>2, <3>1, <3>3, <3>4
  <2> QED BY <2>2, <2>3, <2>4, <2>5
<1> QED BY <1>5, <1>6

\* Every entry of the innermost layer is found as a duplicate of its name.
LEMMA EntriesAreDuplicates ==
  ASSUME TypeOK, NEW i \in DOMAIN Layer
  PROVE  isDuplicated(Layer[i].name)
<1> DEFINE name == Layer[i].name
           f == findEntry(name)
<1>1. depth \in 1..depth /\ i \in DOMAIN layers[depth]
  BY DEF TypeOK, depth, Layer
<1>2. /\ f.level \in 0..(depth - 1)
      /\ \A d \in (depth - f.level + 1)..depth : \A j \in DOMAIN layers[d] :
           layers[d][j].name # name
  BY <1>1, FindsClosest DEF Layer
<1>3. f.level = 0
  <2>1. SUFFICES ASSUME f.level # 0 PROVE FALSE
    OBVIOUS
  <2>2. depth \in (depth - f.level + 1)..depth
    BY <1>1, <1>2, <2>1
  <2> QED BY <1>1, <1>2, <2>2 DEF Layer
<1> QED BY <1>3 DEF isDuplicated
----------------------------------------------------------------------------
(***************************************************************************)
(* The invariant is inductive.                                             *)
(***************************************************************************)

LEMMA InitIInv == Init => IInv
<1> SUFFICES ASSUME Init PROVE IInv
  OBVIOUS
<1>1. depth = 1 /\ Layer = <<>> /\ layers[1] = <<>> /\ cur = 0
  BY DEF Init, depth, Layer
<1>2. TypeOK
  BY <1>1 DEF Init, TypeOK
<1>3. EndsInRun(<<>>)
  BY DEF EndsInRun
<1> QED
  BY <1>1, <1>2, <1>3 DEF IInv, CurInPlace, EnclosedByProcedure, NamesUnique

\* What the insertions have in common: the innermost layer is replaced by one
\* that the invariant allows.
LEMMA ReplacedLayer ==
  ASSUME IInv, NEW new \in Seq(Entries), EndsInRun(new),
         \A i, j \in DOMAIN new : new[i].name = new[j].name => i = j
  PROVE  LET result == [layers EXCEPT ![depth] = new]
         IN
         /\ result \in Seq(Seq(Entries)) /\ Len(result) = depth
         /\ result[depth] = new
         /\ \A d \in 1..(depth - 1) : result[d] = layers[d]
         /\ \A d \in 1..depth : EndsInRun(result[d])
         /\ \A d \in 1..depth : \A i, j \in DOMAIN result[d] :
              result[d][i].name = result[d][j].name => i = j
<1> DEFINE result == [layers EXCEPT ![depth] = new]
<1>1. layers \in Seq(Seq(Entries)) /\ depth = Len(layers) /\ depth \in 1..Len(layers)
  BY DEF IInv, TypeOK, depth
<1>2. /\ result \in Seq(Seq(Entries)) /\ Len(result) = depth
      /\ result[depth] = new
      /\ \A d \in 1..(depth - 1) : result[d] = layers[d]
  BY <1>1
<1>3. \A d \in 1..depth : d = depth \/ d \in 1..(depth - 1)
  BY <1>1
<1>4. \A d \in 1..(depth - 1) : d \in 1..depth
  BY <1>1
<1>5. \A d \in 1..depth : EndsInRun(result[d])
  BY <1>2, <1>3, <1>4 DEF IInv
<1>6. \A d \in 1..depth : \A i, j \in DOMAIN result[d] :
        result[d][i].name = result[d][j].name => i = j
  BY <1>2, <1>3, <1>4 DEF IInv, NamesUnique
<1> QED BY <1>2, <1>5, <1>6

LEMMA StutterPreservesIInv ==
  ASSUME IInv, UNCHANGED vars
  PROVE  IInv'
<1>1. layers' = layers /\ cur' = cur
  BY DEF vars
<1>2. depth' = depth /\ Layer' = Layer
  BY <1>1 DEF depth, Layer
<1>3. TypeOK' /\ CurInPlace'
  BY <1>1, <1>2 DEF IInv, TypeOK, CurInPlace
<1>4. EnclosedByProcedure' /\ NamesUnique'
  BY <1>1, <1>2 DEF IInv, EnclosedByProcedure, NamesUnique
<1>5. (\A d \in 1..depth : EndsInRun(layers[d]))'
  BY <1>1, <1>2 DEF IInv
<1> QED BY <1>3, <1>4, <1>5 DEF IInv

LEMMA VariablePreservesIInv ==
  ASSUME IInv, NEW name \in Names, insertVariable(name, 3)
  PROVE  IInv'
<1>1. CASE isDuplicated(name)
  <2>1. UNCHANGED vars
    BY <1>1 DEF insertVariable
  <2> QED BY <2>1, StutterPreservesIInv
<1>2. CASE ~isDuplicated(name)
  <2> DEFINE e == [name |-> name, type |-> "VARIABLE", address |-> SlotBehindCur(3)]
             new == Append(SubSeq(Layer, 1, cur), e)
  <2>1. layers' = [layers EXCEPT ![depth] = new] /\ cur' = cur + 1
    BY <1>2 DEF insertVariable, BehindCur, Layer
  <2>2. /\ layers \in Seq(Seq(Entries)) /\ depth = Len(layers) /\ depth \in Nat /\ depth >= 1
        /\ Layer \in Seq(Entries) /\ cur \in 0..Len(Layer) /\ EndsInRun(Layer)
    BY DEF IInv, TypeOK, depth, Layer
  <2>3. SlotBehindCur(3) \in Int /\ e \in Entries
    <3>1. CASE cur = 0
      BY <3>1 DEF SlotBehindCur, Entries, Variables
    <3>2. CASE cur # 0 /\ Layer[cur].type # "VARIABLE"
      BY <3>2 DEF SlotBehindCur, Entries, Variables
    <3>3. CASE cur # 0 /\ Layer[cur].type = "VARIABLE"
      <4>1. Layer[cur] \in Entries
        BY <2>2, <3>3
      <4>2. Layer[cur] \in Variables
        BY <3>3, <4>1 DEF Entries, Constants, Procedures
      <4>3. Layer[cur].address \in Int
        BY <4>2 DEF Variables
      <4> QED BY <3>3, <4>3 DEF SlotBehindCur, Entries, Variables
    <3> QED BY <3>1, <3>2, <3>3
  <2>4. e.type = "VARIABLE" /\ e.name = name /\ e.address = SlotBehindCur(3)
    OBVIOUS
  <2> HIDE DEF e
  <2>5. /\ new \in Seq(Entries) /\ Len(new) = cur + 1 /\ new[cur + 1] = e
        /\ \A i \in 1..cur : new[i] = Layer[i]
    BY <2>2, <2>3
  <2>6. EndsInRun(new)
    <3>1. e.address = IF cur = 0 THEN 3
                      ELSE IF Layer[cur].type # "VARIABLE" THEN 3
                      ELSE Layer[cur].address + 1
      BY <2>4 DEF SlotBehindCur
    <3> QED BY <2>2, <2>4, <3>1, RunBehindVariable DEF IInv, CurInPlace
  <2>7. \A i \in DOMAIN Layer : Layer[i].name # name
    BY <1>2, EntriesAreDuplicates DEF IInv
  <2>8. \A i, j \in DOMAIN Layer : Layer[i].name = Layer[j].name => i = j
    BY <2>2 DEF IInv, NamesUnique, Layer
  <2> HIDE DEF new
  <2>9. \A i, j \in DOMAIN new : new[i].name = new[j].name => i = j
    <3> SUFFICES ASSUME NEW i \in 1..(cur + 1), NEW j \in 1..(cur + 1),
                        new[i].name = new[j].name
                 PROVE  i = j
      BY <2>2, <2>5
    <3>1. \A n \in 1..(cur + 1) : n = cur + 1 \/ (n \in 1..cur /\ n \in DOMAIN Layer)
      BY <2>2
    <3> QED BY <2>4, <2>5, <2>7, <2>8, <3>1
  <2>10. /\ layers' \in Seq(Seq(Entries)) /\ Len(layers') = depth
         /\ layers'[depth] = new
         /\ \A d \in 1..(depth - 1) : layers'[d] = layers[d]
         /\ \A d \in 1..depth : EndsInRun(layers'[d])
         /\ \A d \in 1..depth : \A i, j \in DOMAIN layers'[d] :
              layers'[d][i].name = layers'[d][j].name => i = j
    <3> DEFINE result == [layers EXCEPT ![depth] = new]
    <3>1. /\ result \in Seq(Seq(Entries)) /\ Len(result) = depth
          /\ result[depth] = new
          /\ \A d \in 1..(depth - 1) : result[d] = layers[d]
          /\ \A d \in 1..depth : EndsInRun(result[d])
          /\ \A d \in 1..depth : \A i, j \in DOMAIN result[d] :
               result[d][i].name = result[d][j].name => i = j
      BY <2>5, <2>6, <2>9, ReplacedLayer
    <3> HIDE DEF result
    <3>2. layers' = result
      BY <2>1 DEF result
    <3> QED BY <3>1, <3>2
  <2>11. depth' = depth /\ Layer' = new /\ cur' = Len(new)
    BY <2>1, <2>5, <2>10 DEF depth, Layer
  <2>12. TypeOK'
    BY <2>2, <2>5, <2>10, <2>11 DEF TypeOK
  <2>13. CurInPlace'
    BY <2>2, <2>4, <2>5, <2>11 DEF CurInPlace
  <2>14. EnclosedByProcedure'
    BY <2>10, <2>11 DEF IInv, EnclosedByProcedure
  <2> QED BY <2>10, <2>11, <2>12, <2>13, <2>14 DEF IInv, NamesUnique, EndsInRun
<1> QED BY <1>1, <1>2

\* An entry at the head of the innermost layer.
LEMMA HeadEntry ==
  ASSUME IInv, NEW e \in Entries, e.type # "VARIABLE", ~isDuplicated(e.name)
  PROVE  LET result == AtHead(e)
         IN  /\ result \in Seq(Seq(Entries)) /\ Len(result) = depth
             /\ result[depth] \in Seq(Entries)
             /\ result[depth] # <<>> /\ result[depth][1] = e
             /\ \A d \in 1..(depth - 1) : result[d] = layers[d]
             /\ \A d \in 1..depth : EndsInRun(result[d])
             /\ \A d \in 1..depth : \A i, j \in DOMAIN result[d] :
                  result[d][i].name = result[d][j].name => i = j
<1> DEFINE new == <<e>> \o Layer
           result == [layers EXCEPT ![depth] = new]
<1>1. /\ layers \in Seq(Seq(Entries)) /\ depth = Len(layers) /\ depth \in Nat /\ depth >= 1
      /\ Layer \in Seq(Entries) /\ EndsInRun(Layer)
  BY DEF IInv, TypeOK, depth, Layer
<1>2. /\ new \in Seq(Entries) /\ Len(new) = Len(Layer) + 1 /\ new[1] = e
      /\ new # <<>>
      /\ \A i \in 2..Len(new) : i - 1 \in DOMAIN Layer /\ new[i] = Layer[i - 1]
  BY <1>1
<1>3. EndsInRun(new)
  BY <1>1, RunBehindHead
<1>4. \A i \in DOMAIN Layer : Layer[i].name # e.name
  BY EntriesAreDuplicates DEF IInv
<1>5. \A i, j \in DOMAIN Layer : Layer[i].name = Layer[j].name => i = j
  BY <1>1 DEF IInv, NamesUnique, Layer
<1> HIDE DEF new
<1>6. \A i, j \in DOMAIN new : new[i].name = new[j].name => i = j
  <2> SUFFICES ASSUME NEW i \in 1..Len(new), NEW j \in 1..Len(new),
                      new[i].name = new[j].name
               PROVE  i = j
    BY <1>2
  <2>1. \A n \in 1..Len(new) : n = 1 \/ n \in 2..Len(new)
    BY <1>2
  <2>2. i \in 2..Len(new) /\ j \in 2..Len(new) => i - 1 = j - 1
    BY <1>2, <1>5
  <2> QED BY <1>2, <1>4, <2>1, <2>2
<1>7. /\ result \in Seq(Seq(Entries)) /\ Len(result) = depth
      /\ result[depth] = new
      /\ \A d \in 1..(depth - 1) : result[d] = layers[d]
      /\ \A d \in 1..depth : EndsInRun(result[d])
      /\ \A d \in 1..depth : \A i, j \in DOMAIN result[d] :
           result[d][i].name = result[d][j].name => i = j
  BY <1>2, <1>3, <1>6, ReplacedLayer
<1>8. AtHead(e) = result
  BY <1>1 DEF AtHead, new, Layer
<1> HIDE DEF result
<1> QED BY <1>2, <1>7, <1>8

LEMMA ConstantPreservesIInv ==
  ASSUME IInv, NEW name \in Names, NEW value \in Values, insertConstant(name, value)
  PROVE  IInv'
<1>1. CASE isDuplicated(name)
  BY <1>1, StutterPreservesIInv DEF insertConstant
<1>2. CASE ~isDuplicated(name)
  <2> DEFINE e == [name |-> name, type |-> "CONSTANT", value |-> value]
  <2>1. layers' = AtHead(e) /\ cur' = 1
    BY <1>2 DEF insertConstant
  <2>2. e \in Entries /\ e.type = "CONSTANT" /\ e.name = name
    BY DEF Entries, Constants
  <2> HIDE DEF e
  <2>3. /\ layers' \in Seq(Seq(Entries)) /\ Len(layers') = depth
        /\ layers'[depth] \in Seq(Entries)
        /\ layers'[depth] # <<>> /\ layers'[depth][1] = e
        /\ \A d \in 1..(depth - 1) : layers'[d] = layers[d]
        /\ \A d \in 1..depth : EndsInRun(layers'[d])
        /\ \A d \in 1..depth : \A i, j \in DOMAIN layers'[d] :
             layers'[d][i].name = layers'[d][j].name => i = j
    <3> DEFINE result == AtHead(e)
    <3>1. /\ result \in Seq(Seq(Entries)) /\ Len(result) = depth
          /\ result[depth] \in Seq(Entries)
          /\ result[depth] # <<>> /\ result[depth][1] = e
          /\ \A d \in 1..(depth - 1) : result[d] = layers[d]
          /\ \A d \in 1..depth : EndsInRun(result[d])
          /\ \A d \in 1..depth : \A i, j \in DOMAIN result[d] :
               result[d][i].name = result[d][j].name => i = j
      BY <1>2, <2>2, HeadEntry
    <3> HIDE DEF result
    <3>2. layers' = result
      BY <2>1 DEF result
    <3> QED BY <3>1, <3>2
  <2>4. depth' = depth /\ Layer' = layers'[depth] /\ depth >= 1 /\ depth \in Nat
    BY <2>3 DEF depth, Layer, IInv, TypeOK
  <2>5. TypeOK' /\ CurInPlace'
    BY <2>1, <2>2, <2>3, <2>4 DEF TypeOK, CurInPlace
  <2>6. EnclosedByProcedure'
    BY <2>3, <2>4 DEF IInv, EnclosedByProcedure
  <2> QED BY <2>3, <2>4, <2>5, <2>6 DEF IInv, NamesUnique
<1> QED BY <1>1, <1>2

LEMMA ProcedurePreservesIInv ==
  ASSUME IInv, NEW name \in Names, NEW address \in Addresses,
         insertProcedure(name, address)
  PROVE  IInv'
<1>1. CASE isDuplicated(name)
  BY <1>1, StutterPreservesIInv DEF insertProcedure
<1>2. CASE ~isDuplicated(name)
  <2> DEFINE e == [name |-> name, type |-> "PROCEDURE", address |-> address]
             outer == AtHead(e)
  <2>1. layers' = Append(outer, <<>>) /\ cur' = 0
    BY <1>2 DEF insertProcedure
  <2>2. e \in Entries /\ e.type = "PROCEDURE" /\ e.name = name
    BY DEF Entries, Procedures
  <2> HIDE DEF e
  <2>3. /\ outer \in Seq(Seq(Entries)) /\ Len(outer) = depth
        /\ outer[depth] \in Seq(Entries)
        /\ outer[depth] # <<>> /\ outer[depth][1] = e
        /\ \A d \in 1..(depth - 1) : outer[d] = layers[d]
        /\ \A d \in 1..depth : EndsInRun(outer[d])
        /\ \A d \in 1..depth : \A i, j \in DOMAIN outer[d] :
             outer[d][i].name = outer[d][j].name => i = j
    BY <1>2, <2>2, HeadEntry
  <2> HIDE DEF outer
  <2>4. depth >= 1 /\ depth \in Nat
    BY DEF depth, IInv, TypeOK
  <2>5. <<>> \in Seq(Entries)
    OBVIOUS
  <2>6. /\ layers' \in Seq(Seq(Entries)) /\ Len(layers') = depth + 1
        /\ layers'[depth + 1] = <<>>
        /\ \A d \in 1..depth : layers'[d] = outer[d]
    BY <2>1, <2>3, <2>4, <2>5
  <2>7. depth' = depth + 1 /\ Layer' = <<>>
    BY <2>6 DEF depth, Layer
  <2>8. TypeOK' /\ CurInPlace'
    BY <2>1, <2>4, <2>6, <2>7 DEF TypeOK, CurInPlace
  <2>9. EnclosedByProcedure'
    <3>1. \A d \in 1..depth : d = depth \/ d \in 1..(depth - 1)
      BY <2>4
    <3>2. ASSUME NEW d \in 1..depth
          PROVE  layers'[d] # <<>> /\ layers'[d][1].type = "PROCEDURE"
      <4>1. layers'[d] = outer[d]
        BY <2>6
      <4>2. CASE d = depth
        BY <2>2, <2>3, <4>1, <4>2
      <4>3. CASE d \in 1..(depth - 1)
        <5>1. layers[d] # <<>> /\ layers[d][1].type = "PROCEDURE"
          BY <4>3 DEF IInv, EnclosedByProcedure
        <5> QED BY <2>3, <4>1, <4>3, <5>1
      <4> QED BY <3>1, <4>2, <4>3
    <3> QED BY <2>4, <2>7, <3>2 DEF EnclosedByProcedure
  <2>10. \A d \in 1..(depth + 1) : d = depth + 1 \/ d \in 1..depth
    BY <2>4
  <2>11. (\A d \in 1..depth : EndsInRun(layers[d]))'
    <3>1. EndsInRun(<<>>)
      BY DEF EndsInRun
    <3> QED BY <2>3, <2>6, <2>7, <2>10, <3>1
  <2>12. NamesUnique'
    <3>1. ASSUME NEW d \in 1..(depth + 1)
          PROVE  \A i, j \in DOMAIN layers'[d] :
                   layers'[d][i].name = layers'[d][j].name => i = j
      <4>1. CASE d = depth + 1
        <5>1. DOMAIN layers'[d] = {}
          BY <2>6, <4>1
        <5> QED BY <5>1
      <4>2. CASE d \in 1..depth
        <5>1. layers'[d] = outer[d]
          BY <2>6, <4>2
        <5> QED BY <2>3, <4>2, <5>1
      <4> QED BY <2>10, <4>1, <4>2
    <3> QED BY <2>7, <3>1 DEF NamesUnique
  <2> QED BY <2>8, <2>9, <2>11, <2>12 DEF IInv
<1> QED BY <1>1, <1>2

LEMMA AscendPreservesIInv ==
  ASSUME IInv, ascend
  PROVE  IInv'
<1>1. CASE depth = 1
  BY <1>1, StutterPreservesIInv DEF ascend
<1>2. CASE depth # 1
  <2>1. layers' = SubSeq(layers, 1, depth - 1) /\ cur' = 1
    BY <1>2 DEF ascend
  <2>2. layers \in Seq(Seq(Entries)) /\ depth = Len(layers) /\ depth \in Nat /\ depth >= 2
    <3>1. layers \in Seq(Seq(Entries)) /\ depth = Len(layers) /\ depth \in Nat /\ depth >= 1
      BY DEF IInv, TypeOK, depth
    <3> QED BY <1>2, <3>1
  <2>3. /\ layers' \in Seq(Seq(Entries)) /\ Len(layers') = depth - 1
        /\ \A d \in 1..(depth - 1) : layers'[d] = layers[d]
    BY SMTT(60), <2>1, <2>2
  <2>4. depth' = depth - 1 /\ Layer' = layers[depth - 1]
    <3>1. depth' = depth - 1
      BY <2>3 DEF depth
    <3>2. Layer' = layers'[depth']
      BY DEF Layer
    <3>3. depth - 1 \in 1..(depth - 1)
      BY <2>2
    <3> QED BY <2>3, <3>1, <3>2, <3>3
  <2>5. layers[depth - 1] # <<>> /\ layers[depth - 1][1].type = "PROCEDURE"
    BY <2>2 DEF IInv, EnclosedByProcedure
  <2>6. layers[depth - 1] \in Seq(Entries) /\ 1 \in 0..Len(layers[depth - 1])
    <3>1. layers[depth - 1] \in Seq(Entries)
      BY <2>2
    <3> QED BY <2>5, <3>1
  <2>7. TypeOK' /\ CurInPlace'
    <3>1. layers' # <<>>
      BY <2>2, <2>3
    <3>2. TypeOK'
      BY <2>1, <2>3, <2>4, <2>6, <3>1 DEF TypeOK
    <3>3. CurInPlace'
      BY <2>1, <2>4, <2>5 DEF CurInPlace
    <3> QED BY <3>2, <3>3
  <2>8. /\ \A d \in 1..(depth - 1) : d \in 1..depth
        /\ \A d \in 1..((depth - 1) - 1) : d \in 1..(depth - 1)
    BY <2>2
  <2>9. EnclosedByProcedure' /\ NamesUnique'
    <3>1. EnclosedByProcedure'
      BY <2>3, <2>4, <2>8 DEF IInv, EnclosedByProcedure
    <3>2. NamesUnique'
      BY <2>3, <2>4, <2>8 DEF IInv, NamesUnique
    <3> QED BY <3>1, <3>2
  <2>10. (\A d \in 1..depth : EndsInRun(layers[d]))'
    BY <2>3, <2>4, <2>8 DEF IInv
  <2> QED BY <2>7, <2>9, <2>10 DEF IInv
<1> QED BY <1>1, <1>2

\* The variables of a layer can be counted.
LEMMA VariablesCounted ==
  ASSUME NEW layer \in Seq(Entries)
  PROVE  Cardinality(VariablesOf(layer)) \in Nat
<1>1. VariablesOf(layer) \subseteq 1..Len(layer) /\ Len(layer) \in Nat
  BY DEF VariablesOf
<1>2. IsFiniteSet(1..Len(layer))
  BY <1>1, FS_Interval
<1>3. IsFiniteSet(VariablesOf(layer))
  BY <1>1, <1>2, FS_Subset
<1> QED BY <1>3, FS_CardinalityType

\* A frame has room for the three links at least.
LEMMA LayerSizes ==
  ASSUME IInv
  PROVE  countLayerSize \in Nat /\ countLayerSize >= 3
<1>1. Layer \in Seq(Entries)
  BY DEF IInv, TypeOK, Layer, depth
<1>2. Cardinality(VariablesOf(Layer)) \in Nat
  BY <1>1, VariablesCounted
<1> QED BY <1>2 DEF countLayerSize
----------------------------------------------------------------------------
(***************************************************************************)
(* The theorems.                                                           *)
(***************************************************************************)

\* The order of a layer's entries and the place of cur fit each other after
\* any calls of the four operations of SymbolManager.cpp, with any arguments.
THEOREM Invariance == Spec => []IInv
<1>1. IInv /\ [Next]_vars => IInv'
  <2> SUFFICES ASSUME IInv, [Next]_vars PROVE IInv'
    OBVIOUS
  <2>1. CASE InsertProcedure
    BY <2>1, ProcedurePreservesIInv DEF InsertProcedure
  <2>2. CASE InsertVariable
    BY <2>2, FirstSlotIs3, VariablePreservesIInv DEF InsertVariable
  <2>3. CASE InsertConstant
    BY <2>3, ConstantPreservesIInv DEF InsertConstant
  <2>4. CASE ascend
    BY <2>4, AscendPreservesIInv
  <2>5. CASE UNCHANGED vars
    BY <2>5, StutterPreservesIInv
  <2> QED BY <2>1, <2>2, <2>3, <2>4, <2>5 DEF Next
<1> QED BY InitIInv, <1>1, PTL DEF Spec

\* The table is always a list of lists of entries, and cur a place in the
\* innermost.
THEOREM TypeCorrect == Spec => []TypeOK
<1>1. IInv => TypeOK
  BY DEF IInv
<1> QED BY Invariance, <1>1, PTL

\* The slots insertVariable gives to the variables of a layer are exactly the
\* ones countLayerSize reserves.
THEOREM FrameLayoutHolds == Spec => []FrameLayout
<1>1. IInv => FrameLayout
  <2> SUFFICES ASSUME IInv, NEW d \in 1..depth
               PROVE  {layers[d][i].address : i \in VariablesOf(layers[d])}
                        = 3..(2 + Cardinality(VariablesOf(layers[d])))
    BY DEF FrameLayout
  <2>1. layers[d] \in Seq(Entries) /\ EndsInRun(layers[d])
    BY DEF IInv, TypeOK, depth
  <2> QED BY <2>1, RunFillsSlots
<1> QED BY Invariance, <1>1, PTL

\* findEntry leaves a layer for the enclosing one at that layer's first entry.
THEOREM EnclosedByProcedureHolds == Spec => []EnclosedByProcedure
<1>1. IInv => EnclosedByProcedure
  BY DEF IInv
<1> QED BY Invariance, <1>1, PTL

\* The test for duplicates keeps the names of a layer distinct.
THEOREM NamesUniqueHolds == Spec => []NamesUnique
<1>1. IInv => NamesUnique
  BY DEF IInv
<1> QED BY Invariance, <1>1, PTL
============================================================================
