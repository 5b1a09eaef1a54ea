----------------------------- MODULE Characters -----------------------------
(***************************************************************************)
(* The characters, operators and symbols of the language, as the source    *)
(* names them: what SymbolParser.cpp and the specification of its task,    *)
(* Tokens, both speak about.  A character is a string of length one.       *)
(***************************************************************************)
EXTENDS Integers, Sequences, SequencesExt

CONSTANTS
  Keywords,   \* the reserved words, in the order of KEYWORD_LIST
  NameLength, \* MaximumSymbolNameLength
  Leftovers,  \* what an unterminated name may run on into
  IntBits,    \* width of int
  LongMax     \* greatest value of long

ASSUME CharactersAssumption ==
  /\ NameLength \in Nat \ {0}
  /\ \A i \in DOMAIN Keywords : Len(Keywords[i]) \in 1..(NameLength - 1)
  /\ Leftovers # {}
  /\ IntBits \in Nat \ {0}
  /\ LongMax \in Nat

NUL == "NUL"  \* what read returns at the end of the file

Digits == <<"0", "1", "2", "3", "4", "5", "6", "7", "8", "9">>
Lower  == {"a", "b", "c", "d", "e", "f", "g", "h", "i", "j", "k", "l", "m",
           "n", "o", "p", "q", "r", "s", "t", "u", "v", "w", "x", "y", "z"}
Upper  == {"A", "B", "C", "D", "E", "F", "G", "H", "I", "J", "K", "L", "M",
           "N", "O", "P", "Q", "R", "S", "T", "U", "V", "W", "X", "Y", "Z"}

isdigit(c) == c \in Range(Digits)
isalpha(c) == c \in Lower \cup Upper

EchoCharset     == {"(", ")", ";", ",", "."}
OperatorCharset == {"<", ">", "+", "-", "=", "*", "/", ":", "#"}

Operators == <<<<":", "=">>, <<"<", ">">>, <<"<", "=">>, <<">", "=">>,
               <<"=">>, <<"<">>, <<">">>, <<"+">>, <<"-">>, <<"*">>, <<"/">>, <<"#">>>>

\* The characters TrieTree has an index for.
validateCharacter(c) == c \in Lower \cup Range(Digits)

\* strtol stops at the greatest long, and the cast to int takes the low bits.
atoi(digits) ==
  LET digit(c) == (CHOOSE i \in DOMAIN Digits : Digits[i] = c) - 1
      value == FoldLeft(LAMBDA v, c : 10 * v + digit(c), 0, digits)
      long  == IF value > LongMax THEN LongMax ELSE value
      half  == 2 ^ (IntBits - 1)
  IN  ((long + half) % (2 * half)) - half
-----------------------------------------------------------------------------
(***************************************************************************)
(* The symbols handed to the compiler, and the error in their place.       *)
(***************************************************************************)
construct(type, desc, name) == [type |-> type, desc |-> desc, name |-> name]

\* strncpy copies NameLength characters and ends a shorter name only: what
\* follows in memory becomes part of the others.
Names(text) ==
  IF Len(text) < NameLength THEN {text}
  ELSE {SubSeq(text, 1, NameLength) \o rest : rest \in Leftovers}

Eof            == construct("ECHO", "$", <<"e", "o", "f">>)
EchoSymbol(c)  == construct("ECHO", c, <<>>)
NumberSymbol(digits) == construct("NUMBER", atoi(digits), <<>>)
OperatorSymbol(j)    == construct("OP", j - 1, Operators[j])
KeywordSymbol(k)     == construct("KEYWORD", k - 1, Keywords[k])
IdentifierSymbols(text) ==
  {construct("IDENT", 0, name) : name \in Names(text)}

Error(at) == [type |-> "ERROR", at |-> at]
=============================================================================
