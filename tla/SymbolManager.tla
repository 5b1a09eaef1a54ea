--------------------------- MODULE SymbolManager ---------------------------
(***************************************************************************)
(* The compiler's symbol table, SymbolManager.h and SymbolManager.cpp.     *)
(*                                                                         *)
(* The program keeps a tree of entries linked by parent, next and child    *)
(* pointers and one pointer cur to the entry inserted last.  What its      *)
(* operations can see of the tree is the list of entries of every layer    *)
(* that is still open: this module keeps those lists, outermost first, and *)
(* the position of cur in the innermost one.  SymbolHeap models the        *)
(* pointers themselves and is shown to implement this module.              *)
(*                                                                         *)
(* Two details of the lists matter and are kept.  A constant or a          *)
(* procedure is linked in directly behind the head of its layer, a         *)
(* variable directly behind cur, and the variable's next is NULL: whatever *)
(* followed cur in the list is cut off.                                    *)
(***************************************************************************)
EXTENDS Integers, Sequences, FiniteSets

CONSTANTS
  Names,          \* identifiers
  Values,         \* values of constants
  Addresses,      \* code addresses of procedures
  FirstAddresses, \* slots the first variable of a layer may get, see First
  MaxLayers,      \* bound: layers open at the same time
  MaxEntries      \* bound: entries of one layer

ASSUME SymbolManagerAssumption ==
  /\ Values \subseteq Int
  /\ Addresses \subseteq Nat
  /\ FirstAddresses \subseteq Int
  /\ MaxLayers \in Nat \ {0}
  /\ MaxEntries \in Nat

VARIABLES
  layers, \* the entries behind the head of each open layer, outermost first
  cur     \* position of cur in the last of them; 0 is the layer's head

vars == <<layers, cur>>

Constants  == [name : Names, type : {"CONSTANT"},  value : Values]
Variables  == [name : Names, type : {"VARIABLE"},  address : Int]
Procedures == [name : Names, type : {"PROCEDURE"}, address : Addresses]
Entries    == Constants \cup Variables \cup Procedures

NotFound == [level |-> -1]

depth == Len(layers)
Layer == layers[depth]
VariablesOf(layer) == {i \in DOMAIN layer : layer[i].type = "VARIABLE"}
----------------------------------------------------------------------------
(***************************************************************************)
(* Queries.                                                                *)
(***************************************************************************)

\* Entries called name, as <<distance from the innermost layer, position>>.
Homonyms(name) ==
  UNION {{<<l, i>> : i \in {j \in DOMAIN layers[depth - l] :
                              layers[depth - l][j].name = name}} :
         l \in 0..(depth - 1)}

\* The search runs along the innermost layer from its first entry, and then
\* along each enclosing layer from the procedure entry it came out of, which
\* is that layer's first entry.
FirstOf(hits) ==
  CHOOSE h \in hits : \A k \in hits : h[1] < k[1] \/ (h[1] = k[1] /\ h[2] <= k[2])

findEntry(name) ==
  IF Homonyms(name) = {} THEN NotFound
  ELSE LET h == FirstOf(Homonyms(name))
       IN  [level |-> h[1], entry |-> layers[depth - h[1]][h[2]]]

\* Slip: only names of the enclosing layers count.  (The variants marked Slip
\* are not used by the specification: each is a definition with one plausible
\* error, kept to show that a property below notices it.)
SlipIsDuplicated(name) == findEntry(name).level > 0

isDuplicated(name) == findEntry(name).level = 0

countLayerSize == 3 + Cardinality(VariablesOf(Layer))
----------------------------------------------------------------------------
(***************************************************************************)
(* Updates.  Each returns without a change when the innermost layer        *)
(* already holds the name.                                                 *)
(***************************************************************************)

\* Link an entry in behind the head of the innermost layer.
AtHead(e) == [layers EXCEPT ![depth] = <<e>> \o @]

\* Link an entry in behind cur; the new entry's next is NULL.
BehindCur(e) == [layers EXCEPT ![depth] = Append(SubSeq(@, 1, cur), e)]

\* Slip: the entry goes behind cur, as a variable's does.
SlipInsertProcedure(name, address) ==
  IF isDuplicated(name) THEN UNCHANGED vars
  ELSE /\ layers' = Append(BehindCur([name |-> name, type |-> "PROCEDURE",
                                      address |-> address]), <<>>)
       /\ cur' = 0

insertProcedure(name, address) ==
  IF isDuplicated(name) THEN UNCHANGED vars
  ELSE /\ layers' = Append(AtHead([name |-> name, type |-> "PROCEDURE",
                                   address |-> address]), <<>>)
       /\ cur' = 0

\* Slip: the slot is not advanced.
SlipSlotBehindCur(first) ==
  IF cur = 0 THEN first
  ELSE IF Layer[cur].type # "VARIABLE" THEN 3 ELSE Layer[cur].address

\* Slip: the first slot is that of the return address.
SlipFirstSlot(first) ==
  IF cur = 0 \/ Layer[cur].type # "VARIABLE" THEN 2 ELSE Layer[cur].address + 1

\* The slot of the next variable.  The type of a layer's head is never
\* assigned, so when cur is the head the test reads an uninitialized value:
\* first is the slot this read leads to, 3 unless the memory happens to hold
\* VARIABLE.
SlotBehindCur(first) ==
  IF cur = 0 THEN first
  ELSE IF Layer[cur].type # "VARIABLE" THEN 3 ELSE Layer[cur].address + 1

insertVariable(name, first) ==
  IF isDuplicated(name) THEN UNCHANGED vars
  ELSE /\ layers' = BehindCur([name |-> name, type |-> "VARIABLE",
                               address |-> SlotBehindCur(first)])
       /\ cur' = cur + 1

insertConstant(name, value) ==
  IF isDuplicated(name) THEN UNCHANGED vars
  ELSE /\ layers' = AtHead([name |-> name, type |-> "CONSTANT",
                            value |-> value])
       /\ cur' = 1

\* Back to the procedure entry that opened the layer; the outermost layer
\* stays.
ascend ==
  IF depth = 1 THEN UNCHANGED vars
  ELSE /\ layers' = SubSeq(layers, 1, depth - 1)
       /\ cur' = 1
----------------------------------------------------------------------------
(***************************************************************************)
(* Any client: the four operations in any order, with any arguments.       *)
(***************************************************************************)

Init ==
  /\ layers = <<<<>>>>
  /\ cur = 0

Room == Len(Layer) < MaxEntries

InsertProcedure ==
  /\ Room /\ depth < MaxLayers
  /\ \E name \in Names, address \in Addresses : insertProcedure(name, address)

InsertVariable ==
  /\ Room
  /\ \E name \in Names, first \in FirstAddresses : insertVariable(name, first)

InsertConstant ==
  /\ Room
  /\ \E name \in Names, value \in Values : insertConstant(name, value)

Next == InsertProcedure \/ InsertVariable \/ InsertConstant \/ ascend

Spec == Init /\ [][Next]_vars
----------------------------------------------------------------------------
(***************************************************************************)
(* Properties.                                                             *)
(***************************************************************************)

\* Types: the layers hold well-formed entries, there is always a layer, and
\* cur is in the innermost one.
TypeOK ==
  /\ layers \in Seq(Seq(Entries))
  /\ layers # <<>>
  /\ cur \in 0..Len(Layer)

\* The slots of a layer's variables are exactly 3..countLayerSize()-1: the
\* INT instruction that countLayerSize() sizes reserves a slot for every
\* variable of the layer, no two variables of a layer share a slot, and none
\* lies on the three link cells of the frame.  (Provided the head's
\* uninitialized type does not read as VARIABLE: FirstAddresses = {3}.)
FrameLayout ==
  \A d \in 1..depth :
    {layers[d][i].address : i \in VariablesOf(layers[d])}
      = 3..(2 + Cardinality(VariablesOf(layers[d])))

\* Every open layer but the innermost starts with the procedure whose body
\* the next layer belongs to.  Only then does the search of findEntry, which
\* leaves a layer for the procedure entry above it, still see the whole of
\* the enclosing layer.
EnclosedByProcedure ==
  \A d \in 1..(depth - 1) :
    layers[d] # <<>> /\ layers[d][1].type = "PROCEDURE"

\* No two entries of a layer have the same name, in any order of calls.
NamesUnique ==
  \A d \in 1..depth : \A i, j \in DOMAIN layers[d] :
    layers[d][i].name = layers[d][j].name => i = j

\* The invariant behind the four above, inductive when the first slot is 3.
\* A layer's variables stand together at the end of its list, in the order
\* of their slots; and cur is where an insertion keeps them so: at the head of
\* an empty layer, at a first entry that is not a variable, or at the layer's
\* last entry, a variable.
EndsInRun(layer) ==
  \E k \in 0..Len(layer) : \A i \in 1..Len(layer) :
    IF i <= k THEN layer[i].type # "VARIABLE"
    ELSE layer[i].type = "VARIABLE" /\ layer[i].address = 2 + i - k

CurInPlace ==
  \/ cur = 0 /\ Layer = <<>>
  \/ cur = 1 /\ Layer # <<>> /\ Layer[1].type # "VARIABLE"
  \/ cur = Len(Layer) /\ Layer # <<>> /\ Layer[cur].type = "VARIABLE"

IInv ==
  /\ TypeOK
  /\ \A d \in 1..depth : EndsInRun(layers[d])
  /\ CurInPlace
  /\ EnclosedByProcedure
  /\ NamesUnique

\* Every name that is visible in a layer stays visible while the layer is
\* open: declaring something never takes another declaration away.
NamesIn(d) == {layers[d][i].name : i \in DOMAIN layers[d]}
DeclarationsKept ==
  [][\A d \in 1..depth : d <= depth' => NamesIn(d) \subseteq NamesIn(d)']_vars
============================================================================
