---------------------------- MODULE MCSymbolHeap ----------------------------
(* SymbolHeap for TLC: the memory a head entry is allocated in may hold any *)
(* type; MaxHeap counts the heads too.                                      *)
EXTENDS SymbolHeap

MCValues    == {7}
MCAddresses == {2}
MCGarbage   == {[type |-> "PROCEDURE", address |-> 0],
                [type |-> "VARIABLE",  address |-> 5]}
============================================================================
