-------------------------- MODULE MCSymbolManager --------------------------
(***************************************************************************)
(* SymbolManager for TLC, under the assumption of the proofs: three names, *)
(* one value and one code address (the properties do not depend on them),  *)
(* three layers of at most three entries.                                  *)
(***************************************************************************)
EXTENDS SymbolManagerProofs, TLC

MCValues         == {7}
MCAddresses      == {2}
MCFirstAddresses == {3}

Symmetry == Permutations(Names)
============================================================================
