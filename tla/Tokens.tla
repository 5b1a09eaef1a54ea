------------------------------- MODULE Tokens -------------------------------
(***************************************************************************)
(* What a lexical analyzer promises: the source is cut into symbols from   *)
(* left to right, each as long as it can be, nothing is read twice and     *)
(* nothing but characters that begin no symbol is passed over.  A run of   *)
(* operator characters that cannot be cut is dropped as a whole and        *)
(* reported.  The promise speaks of neither buffers nor lookahead.         *)
(***************************************************************************)
EXTENDS Integers, Sequences, SequencesExt

CONSTANTS
  Sources,           \* the texts considered
  Letters, Figures,  \* what a word and a number are made of
  EchoCharset,       \* characters that are symbols by themselves
  OperatorCharset,   \* what operators are made of
  Operators,         \* a sequence of them
  EchoSymbol(_), NumberSymbol(_), OperatorSymbol(_),
  Words(_),          \* the symbols a word may be handed on as
  Error(_), Eof

VARIABLES
  rest, \* the part of the source not yet cut into symbols
  out   \* what has been handed to the compiler

vars == <<rest, out>>

\* The longest part of the rest, from its beginning, with characters of C only.
Run(C) ==
  LET fits(n) == \A i \in 1..n : rest[i] \in C
  IN  SubSeq(rest, 1, CHOOSE n \in 0..Len(rest) :
                        fits(n) /\ (n = Len(rest) \/ ~fits(n + 1)))

\* Every operator character is an operator by itself but the colon.
Bad(run) ==
  \E i \in DOMAIN run : run[i] = ":" /\ ~(i < Len(run) /\ run[i + 1] = "=")
-----------------------------------------------------------------------------
Cut(text) == rest' = SubSeq(rest, Len(text) + 1, Len(rest))

\* A symbol that uninitialized memory may make the first one: no source at all.
Init ==
  /\ rest \in Sources \cup {<<>>}
  /\ out = <<>>

Reading == Eof \notin Range(out) /\ rest # <<>>

Skip ==
  /\ Reading
  /\ Head(rest) \notin EchoCharset \cup OperatorCharset \cup Letters \cup Figures
  /\ Cut(<<Head(rest)>>)
  /\ UNCHANGED out

Echo ==
  /\ Reading
  /\ Head(rest) \in EchoCharset
  /\ Cut(<<Head(rest)>>)
  /\ out' = Append(out, EchoSymbol(Head(rest)))

Word ==
  /\ Reading
  /\ Head(rest) \in Letters
  /\ Cut(Run(Letters \cup Figures))
  /\ \E symbol \in Words(Run(Letters \cup Figures)) : out' = Append(out, symbol)

Number ==
  /\ Reading
  /\ Head(rest) \in Figures
  /\ Cut(Run(Figures))
  /\ out' = Append(out, NumberSymbol(Run(Figures)))

Operator ==
  /\ Reading
  /\ Head(rest) \in OperatorCharset
  /\ ~Bad(Run(OperatorCharset))
  /\ \E j \in DOMAIN Operators :
       /\ IsPrefix(Operators[j], rest)
       /\ \A k \in DOMAIN Operators :
            IsPrefix(Operators[k], rest) => Len(Operators[k]) <= Len(Operators[j])
       /\ Cut(Operators[j])
       /\ out' = Append(out, OperatorSymbol(j))

Report ==
  /\ Reading
  /\ Head(rest) \in OperatorCharset
  /\ Bad(Run(OperatorCharset))
  /\ Cut(Run(OperatorCharset))
  /\ out' = Append(out, Error(0))

End ==
  /\ rest = <<>>
  /\ Eof \notin Range(out)
  /\ out' = Append(out, Eof)
  /\ UNCHANGED rest

Next == Skip \/ Echo \/ Word \/ Number \/ Operator \/ Report \/ End

Spec == Init /\ [][Next]_vars
=============================================================================
