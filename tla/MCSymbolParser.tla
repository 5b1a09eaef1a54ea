--------------------------- MODULE MCSymbolParser ---------------------------
(* SymbolParser for TLC: a small buffer, a small cache and short names, so   *)
(* that symbols cross the end of each, and all short files of a letter of    *)
(* each kind, the parts of operators, a separator and a line break.          *)
EXTENDS SymbolParser

CONSTANT MaxFile

MCSources   == BoundedSeq({"i", "U", "9", ":", "=", "<", ";", "\n"}, MaxFile)
MCKeywords  == <<<<"i">>>>
MCLeftovers == {<<>>, <<"?">>}
=============================================================================
