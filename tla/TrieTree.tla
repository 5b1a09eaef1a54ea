------------------------------ MODULE TrieTree ------------------------------
(***************************************************************************)
(* TrieTree.cpp and the list of Keyword.h.  A node is the path of          *)
(* characters that leads to it; a tree maps its nodes to their types, each *)
(* the pair that makeNodeType packs.                                       *)
(***************************************************************************)
EXTENDS Characters, Functions

Type_None       == "none"
Type_Keyword    == "keyword"
Untyped         == [type |-> Type_None, subtype |-> 0]

\* match passes over characters without an index.
Path(name) == SelectSeq(name, validateCharacter)

\* The keywords are spelled in characters the tree has an index for, and no
\* two of them alike.
ASSUME KeywordsAssumption ==
  /\ Keywords \in Seq(Seq(STRING))
  /\ \A i \in DOMAIN Keywords : Path(Keywords[i]) = Keywords[i]
  /\ \A i, j \in DOMAIN Keywords : Keywords[i] = Keywords[j] => i = j

\* A tree of its root alone.
Root == [node \in {<<>>} |-> Untyped]

\* It creates the nodes that are missing on its way, so that a lookup always
\* ends at a node.
match(tree, name) ==
  LET onTheWay == {SubSeq(Path(name), 1, n) : n \in 0..(Len(Path(name)) - 1)}
      nodes    == onTheWay \cup {Path(name)} \cup DOMAIN tree
  IN  [node \in nodes |-> IF node \in DOMAIN tree THEN tree[node] ELSE Untyped]

\* A node that has a type already keeps it.
insert(tree, name, type, subtype) ==
  LET grown == match(tree, name)
  IN  IF grown[Path(name)].type # Type_None THEN grown
      ELSE [grown EXCEPT ![Path(name)] = [type |-> type, subtype |-> subtype]]

\* Keyword::insert, which the constructor of SymbolParser calls.
KeywordTree ==
  LET from[k \in 0..Len(Keywords)] ==
        IF k = 0 THEN Root
        ELSE insert(from[k - 1], Keywords[k], Type_Keyword, k - 1)
  IN  from[Len(Keywords)]
=============================================================================
