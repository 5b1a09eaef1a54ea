----------------------------- MODULE SymbolHeap -----------------------------
(***************************************************************************)
(* The symbol table of SymbolManager.cpp as it is laid out in memory:      *)
(* entries linked by parent, next and child pointers, the head entry of    *)
(* every layer, and the two pointers root and cur.                         *)
(*                                                                         *)
(* A pointer is an index into heap, which only grows: entries are freed in *)
(* the destructor alone.  `new entry' leaves the fields of a head entry    *)
(* that nobody assigns as the allocator returns them: Garbage is the set   *)
(* of those leftovers.                                                     *)
(***************************************************************************)
EXTENDS Integers, Sequences, FiniteSets, SequencesExt

CONSTANTS
  Names,      \* identifiers
  Values,     \* values of constants
  Addresses,  \* code addresses of procedures
  Garbage,    \* what the type and address of a head entry may hold
  MaxHeap,    \* bound: entries ever allocated
  MaxLayers   \* bound: layers open at the same time

ASSUME SymbolHeapAssumption ==
  /\ Values \subseteq Int
  /\ Addresses \subseteq Nat
  /\ Garbage \subseteq
       [type : {"PROCEDURE", "VARIABLE", "CONSTANT"}, address : Int]
  /\ Garbage # {}
  /\ MaxHeap \in Nat
  /\ MaxLayers \in Nat \ {0}

VARIABLES
  heap, \* the entries allocated so far
  cur   \* pointer to the entry inserted last

vars == <<heap, cur>>

NULL == 0
root == 1

Pointers == NULL..Len(heap)

_getLayerHead ==
  IF heap[cur].parent # NULL THEN heap[heap[cur].parent].child ELSE root
----------------------------------------------------------------------------
(***************************************************************************)
(* Queries.                                                                *)
(***************************************************************************)

\* The entries met by following next from p.
Chain ==
  LET from[p \in Pointers] ==
        IF p = NULL THEN <<>> ELSE <<p>> \o from[heap[p].next]
  IN  from

\* The chains findEntry runs along, nearest first: the innermost layer's, and
\* then from every enclosing procedure entry (pp in the code) its own next.
SearchPath ==
  LET outward[p \in Pointers] ==
        IF p = NULL THEN <<>> ELSE <<Chain[p]>> \o outward[heap[p].parent]
      head == _getLayerHead
  IN  <<Chain[heap[head].next]>> \o outward[heap[head].parent]

NotFound == [level |-> -1]

findEntry(name) ==
  LET path == SearchPath
      hits == {h \in (1..Len(path)) \X (1..Len(heap)) :
                 /\ h[2] <= Len(path[h[1]])
                 /\ heap[path[h[1]][h[2]]].name = name}
      first == CHOOSE h \in hits : \A k \in hits :
                 h[1] < k[1] \/ (h[1] = k[1] /\ h[2] <= k[2])
  IN  IF hits = {} THEN NotFound
      ELSE [level |-> first[1] - 1, entry |-> path[first[1]][first[2]]]

_isDuplicated(name) == findEntry(name).level = 0

VariablesIn(chain) == {i \in DOMAIN chain : heap[chain[i]].type = "VARIABLE"}

countLayerSize == 3 + Cardinality(VariablesIn(Chain[heap[_getLayerHead].next]))
----------------------------------------------------------------------------
(***************************************************************************)
(* Updates.                                                                *)
(***************************************************************************)

\* The pointer the next `new entry' returns.
fresh == Len(heap) + 1

HeadEntry(parent, garbage) ==
  [name |-> "", type |-> garbage.type, value |-> 0, address |-> garbage.address,
   parent |-> parent, next |-> NULL, child |-> NULL]

\* Slip: the child pointer is not set.
SlipEntry(name, type, value, address, next, child) ==
  [name |-> name, type |-> type, value |-> value, address |-> address,
   parent |-> heap[cur].parent, next |-> next, child |-> NULL]

Entry(name, type, value, address, next, child) ==
  [name |-> name, type |-> type, value |-> value, address |-> address,
   parent |-> heap[cur].parent, next |-> next, child |-> child]

\* Slip: the new procedure is linked in behind cur.
SlipInsertProcedure(name, address, garbage) ==
  IF _isDuplicated(name) THEN UNCHANGED vars
  ELSE /\ heap' = [heap EXCEPT ![cur].next = fresh]
                    \o <<Entry(name, "PROCEDURE", 0, address,
                               heap[cur].next, fresh + 1),
                         HeadEntry(fresh, garbage)>>
       /\ cur' = fresh + 1

insertProcedure(name, address, garbage) ==
  IF _isDuplicated(name) THEN UNCHANGED vars
  ELSE LET head == _getLayerHead
       IN  /\ heap' = [heap EXCEPT ![head].next = fresh]
                        \o <<Entry(name, "PROCEDURE", 0, address,
                                   heap[head].next, fresh + 1),
                             HeadEntry(fresh, garbage)>>
           /\ cur' = fresh + 1

insertVariable(name) ==
  IF _isDuplicated(name) THEN UNCHANGED vars
  ELSE LET slot == IF heap[cur].type # "VARIABLE" THEN 3
                   ELSE heap[cur].address + 1
       IN  /\ heap' = Append([heap EXCEPT ![cur].next = fresh],
                             Entry(name, "VARIABLE", 0, slot, NULL, NULL))
           /\ cur' = fresh

\* Slip: the rest of the layer's list is lost.
SlipInsertConstant(name, value) ==
  IF _isDuplicated(name) THEN UNCHANGED vars
  ELSE /\ heap' = Append([heap EXCEPT ![_getLayerHead].next = fresh],
                         Entry(name, "CONSTANT", value, 0, NULL, NULL))
       /\ cur' = fresh

\* Slip: the head's next is assigned before it is read.
SlipLinkConstant(name, value) ==
  IF _isDuplicated(name) THEN UNCHANGED vars
  ELSE /\ heap' = Append([heap EXCEPT ![_getLayerHead].next = fresh],
                         Entry(name, "CONSTANT", value, 0, fresh, NULL))
       /\ cur' = fresh

insertConstant(name, value) ==
  IF _isDuplicated(name) THEN UNCHANGED vars
  ELSE LET head == _getLayerHead
       IN  /\ heap' = Append([heap EXCEPT ![head].next = fresh],
                             Entry(name, "CONSTANT", value, 0,
                                   heap[head].next, NULL))
           /\ cur' = fresh

ascend ==
  IF heap[cur].parent = NULL THEN UNCHANGED vars
  ELSE cur' = heap[cur].parent /\ UNCHANGED heap
----------------------------------------------------------------------------
Init ==
  /\ \E garbage \in Garbage : heap = <<HeadEntry(NULL, garbage)>>
  /\ cur = root

\* Layers that are open: one more than the procedures around cur.
Enclosing ==
  LET outward[p \in Pointers] ==
        IF p = NULL THEN <<>> ELSE Append(outward[heap[p].parent], p)
  IN  outward[heap[cur].parent]

InsertProcedure ==
  /\ Len(heap) + 2 <= MaxHeap /\ Len(Enclosing) + 1 < MaxLayers
  /\ \E name \in Names, address \in Addresses, garbage \in Garbage :
       insertProcedure(name, address, garbage)

InsertVariable ==
  Len(heap) < MaxHeap /\ \E name \in Names : insertVariable(name)

InsertConstant ==
  /\ Len(heap) < MaxHeap
  /\ \E name \in Names, value \in Values : insertConstant(name, value)

Next == InsertProcedure \/ InsertVariable \/ InsertConstant \/ ascend

Spec == Init /\ [][Next]_vars
----------------------------------------------------------------------------
(***************************************************************************)
(* Properties.                                                             *)
(***************************************************************************)

\* Every pointer the code follows is NULL or an entry, parents are older than
\* the layers they open, and whatever opens a layer is a procedure with a
\* head of its own: _getLayerHead never follows a NULL child.
LinksSound ==
  /\ cur \in 1..Len(heap)
  /\ \A p \in 1..Len(heap) :
       /\ {heap[p].parent, heap[p].next, heap[p].child} \subseteq Pointers
       /\ heap[p].parent < p
       /\ heap[p].parent # NULL =>
            /\ heap[heap[p].parent].type = "PROCEDURE"
            /\ heap[heap[p].parent].child # NULL

\* No chain of next pointers runs in a circle, so the loops of findEntry and
\* countLayerSize end, and no entry is the next of two others: a layer is a
\* list.
Follow(p, k) ==
  LET f[i \in 0..k] == IF i = 0 THEN p
                       ELSE IF f[i - 1] = NULL THEN NULL ELSE heap[f[i - 1]].next
  IN  f[k]

LayersAreLists ==
  /\ \A p \in 1..Len(heap) : Follow(p, Len(heap)) = NULL
  /\ \A p, q \in 1..Len(heap) :
       heap[p].next # NULL /\ heap[p].next = heap[q].next => p = q

(***************************************************************************)
(* The table these pointers represent.                                     *)
(***************************************************************************)

Abstract(p) ==
  LET e == heap[p]
  IN  IF e.type = "CONSTANT"
      THEN [name |-> e.name, type |-> e.type, value |-> e.value]
      ELSE [name |-> e.name, type |-> e.type, address |-> e.address]

\* The list of the layer that e opens, from the head of that layer.
LayerOf(head) ==
  LET chain == Chain[heap[head].next]
  IN  [i \in DOMAIN chain |-> Abstract(chain[i])]

AbstractLayers ==
  <<LayerOf(root)>>
    \o [i \in DOMAIN Enclosing |-> LayerOf(heap[Enclosing[i]].child)]

AbstractCur ==
  IF cur = _getLayerHead THEN 0
  ELSE LET chain == Chain[heap[_getLayerHead].next]
       IN  CHOOSE i \in DOMAIN chain : chain[i] = cur

FirstSlots ==
  {IF g.type = "VARIABLE" THEN g.address + 1 ELSE 3 : g \in Garbage}

Table == INSTANCE SymbolManager
  WITH layers <- AbstractLayers, cur <- AbstractCur,
       FirstAddresses <- FirstSlots, MaxEntries <- MaxHeap

\* The pointers implement the lists of SymbolManager: an entry that is linked
\* in appears in exactly the layer and place it should, and no operation on
\* one layer disturbs another.
ImplementsTable == Table!Spec

\* findEntry walks the pointers to the same entry, at the same distance, as
\* the search of the open layers' lists finds; and the frame size is counted
\* over the same list.  In particular the walk sees an enclosing layer whole
\* although it enters it at the procedure and not at the head.
QueriesAgree ==
  /\ countLayerSize = Table!countLayerSize
  /\ \A name \in Names :
       LET mine == findEntry(name)
           theirs == Table!findEntry(name)
       IN  /\ mine.level = theirs.level
           /\ mine.level # -1 => Abstract(mine.entry) = theirs.entry
============================================================================
