---------------------------- MODULE SymbolParser ----------------------------
(***************************************************************************)
(* SymbolParser.cpp: nextSymbol, called again and again by plc.cpp until   *)
(* it returns the end of the source.  One action is one round of its loop, *)
(* entry and exit included.                                                *)
(*                                                                         *)
(* The run ends in `undefined' when a token outgrows the array it is       *)
(* collected in, and in `aborted' when the constructor of SyntaxError      *)
(* throws an exception of its own, which nobody catches.                   *)
(***************************************************************************)
EXTENDS SourceCode, TrieTree, FiniteSets

CONSTANTS
  Sources,   \* the files considered
  CacheSize  \* characters of cache

ASSUME SymbolParserAssumption ==
  /\ CacheSize \in Nat \ {0}
  /\ Sources \subseteq Seq(STRING)
  /\ \A file \in Sources : NUL \notin Range(file)

VARIABLES
  file,        \* the source, as it stands on the disk
  code,        \* the SourceCode object
  dict,        \* the trie of keywords
  parserState,
  calling,     \* nextSymbol is running
  cache,       \* its characters so far: pc of them
  buffer,      \* symbols to be delivered before reading on, top first
  out,         \* what nextSymbol has returned or thrown
  status

vars == <<file, code, dict, parserState, calling, cache, buffer, out, status>>

Matching == {"MatchEchoLetter", "MatchIdentifier", "MatchNumber", "MatchOperator"}
-----------------------------------------------------------------------------
(***************************************************************************)
(* Errors: the place a SyntaxError names, and the line it prints.          *)
(***************************************************************************)
\* The line of an offset; a line break belongs to the line it ends.
LineOf(pos) == Cardinality({i \in 1..Len(file) : i <= pos /\ file[i] = "\n"})

\* A position before the file makes the search run past its last line.
Shown(pos) == LineOf(IF pos < 0 THEN Len(file) - 1 ELSE pos)

\* Nothing but blanks to print, and substr throws.
BlankLine(pos) ==
  \A i \in 1..Len(file) :
    LineOf(i - 1) = Shown(pos) => file[i] \in {" ", "\t", "\n"}

\* A slip: the start of the run in place of the operator.
SlipErrorAt(c, pc, i) == c.position - pc

\* The position of the operator, i characters into a run of pc.
ErrorAt(c, pc, i) == c.position - (pc - i)
-----------------------------------------------------------------------------
(***************************************************************************)
(* A run of operator characters: the symbols it is split into, up to the   *)
(* first place where no operator fits.                                     *)
(***************************************************************************)
\* The first operator of the table that s begins with; 0 if there is none.
Fits(s) ==
  LET fit == {j \in DOMAIN Operators : IsPrefix(Operators[j], s)}
  IN  IF fit = {} THEN 0 ELSE CHOOSE j \in fit : \A k \in fit : j <= k

\* The operators found, and the offset of the character where none fits, or -1.
Split(run) ==
  LET from[i \in 0..Len(run)] ==
        IF i = Len(run) THEN [ops |-> <<>>, bad |-> -1]
        ELSE LET j == Fits(SubSeq(run, i + 1, Len(run)))
             IN  IF j = 0 THEN [ops |-> <<>>, bad |-> i]
                 ELSE LET more == from[i + Len(Operators[j])]
                      IN  [more EXCEPT !.ops = <<OperatorSymbol(j)>> \o @]
  IN  from[0]

\* A slip: moved from one stack to another once more than the order needs.
SlipPushOthers(ops) == Reverse(Tail(ops))

\* The first symbol is returned, and the others end on buffer in their order.
PushOthers(ops) == Tail(ops)
-----------------------------------------------------------------------------
(***************************************************************************)
(* nextSymbol.  Nobody assigns parserState before the first call: it holds *)
(* State_Finished, or a value that the first call replaces.                *)
(***************************************************************************)
Init ==
  /\ file \in Sources
  /\ code = open(file)
  /\ dict = KeywordTree
  /\ parserState \in {"BeginMatch", "Finished"}
  /\ calling = FALSE
  /\ cache = <<>>
  /\ buffer = <<>>
  /\ out = <<>>
  /\ status = "running"

\* plc.cpp asks for no further symbol behind the end of the source.
Called == status = "running" /\ ~calling /\ Eof \notin Range(out)

In(state) == status = "running" /\ calling /\ parserState = state

Return(symbol) ==
  /\ out' = Append(out, symbol)
  /\ calling' = FALSE
  /\ cache' = <<>>

\* The state that the first character of a symbol leads to.
StateOf(ch) ==
  CASE ch \in EchoCharset     -> "MatchEchoLetter"
    [] isalpha(ch)            -> "MatchIdentifier"
    [] isdigit(ch)            -> "MatchNumber"
    [] ch \in OperatorCharset -> "MatchOperator"
    [] OTHER                  -> "BeginMatch"

DeliverBuffered ==
  /\ Called
  /\ buffer # <<>>
  /\ buffer' = Tail(buffer)
  /\ out' = Append(out, Head(buffer))
  /\ UNCHANGED <<file, code, dict, parserState, calling, cache, status>>

DeliverEof ==
  /\ Called
  /\ buffer = <<>>
  /\ parserState = "Finished"
  /\ out' = Append(out, Eof)
  /\ UNCHANGED <<file, code, dict, parserState, calling, cache, buffer, status>>

\* A slip: the symbols on buffer are not delivered first.
SlipEnter ==
  /\ Called
  /\ parserState # "Finished"
  /\ calling' = TRUE
  /\ parserState' = "BeginMatch"
  /\ UNCHANGED <<file, code, dict, cache, buffer, out, status>>

Enter ==
  /\ Called
  /\ buffer = <<>>
  /\ parserState # "Finished"
  /\ calling' = TRUE
  /\ parserState' = "BeginMatch"
  /\ UNCHANGED <<file, code, dict, cache, buffer, out, status>>

\* A character that begins no symbol is overwritten by the next one.
BeginMatch ==
  /\ In("BeginMatch")
  /\ LET r == read(code) IN
       /\ r.ch # NUL
       /\ code' = r.code
       /\ parserState' = StateOf(r.ch)
       /\ cache' = IF parserState' = "BeginMatch" THEN cache ELSE <<r.ch>>
  /\ UNCHANGED <<file, dict, calling, buffer, out, status>>

\* A slip: NUL is passed over like a blank.
SlipEndOfSource ==
  /\ In("BeginMatch")
  /\ read(code).ch = NUL
  /\ code' = read(code).code
  /\ UNCHANGED <<file, dict, parserState, calling, cache, buffer, out, status>>

EndOfSource ==
  /\ In("BeginMatch")
  /\ LET r == read(code) IN r.ch = NUL /\ code' = r.code
  /\ parserState' = "Finished"
  /\ Return(Eof)
  /\ UNCHANGED <<file, dict, buffer, status>>

MatchEchoLetter ==
  /\ In("MatchEchoLetter")
  /\ parserState' = "SymbolFound"
  /\ Return(EchoSymbol(Last(cache)))
  /\ UNCHANGED <<file, code, dict, buffer, status>>

\* A slip: a run of operators goes on behind a line break.
SlipContinues(ch) ==
  \/ parserState = "MatchIdentifier" /\ (isalpha(ch) \/ isdigit(ch))
  \/ parserState = "MatchNumber" /\ isdigit(ch)
  \/ parserState = "MatchOperator" /\ (ch \in OperatorCharset \/ ch = "\n")

\* What may follow in a symbol that has begun.
Continues(ch) ==
  \/ parserState = "MatchIdentifier" /\ (isalpha(ch) \/ isdigit(ch))
  \/ parserState = "MatchNumber" /\ isdigit(ch)
  \/ parserState = "MatchOperator" /\ ch \in OperatorCharset

\* The character read next still has a place in cache.
Room == Len(cache) < CacheSize

MatchMore ==
  /\ parserState \in Matching \ {"MatchEchoLetter"} /\ In(parserState)
  /\ Room
  /\ LET r == read(code) IN
       /\ Continues(r.ch)
       /\ code' = r.code
       /\ cache' = Append(cache, r.ch)
  /\ UNCHANGED <<file, dict, parserState, calling, buffer, out, status>>

\* The character behind the symbol is read and pushed back.
Ended(state) ==
  /\ In(state)
  /\ Room
  /\ ~Continues(read(code).ch)
  /\ code' = undo(read(code).code, read(code).ch)

EndIdentifier ==
  /\ Ended("MatchIdentifier")
  /\ dict' = match(dict, cache)
  /\ LET node_type == dict'[Path(cache)] IN
       \E symbol \in IF node_type.type = Type_Keyword
                     THEN {KeywordSymbol(node_type.subtype + 1)}
                     ELSE IdentifierSymbols(cache) :
         Return(symbol)
  /\ parserState' = "SymbolFound"
  /\ UNCHANGED <<file, buffer, status>>

EndNumber ==
  /\ Ended("MatchNumber")
  /\ parserState' = "SymbolFound"
  /\ Return(NumberSymbol(cache))
  /\ UNCHANGED <<file, dict, buffer, status>>

EndOperators ==
  /\ Ended("MatchOperator")
  /\ Split(cache).bad = -1
  /\ parserState' = "SymbolFound"
  /\ buffer' = PushOthers(Split(cache).ops)
  /\ Return(Head(Split(cache).ops))
  /\ UNCHANGED <<file, dict, status>>

\* The operators split off before the bad one are lost with it, and plc.cpp
\* goes on behind the run.
Throw ==
  /\ Ended("MatchOperator")
  /\ LET bad == Split(cache).bad
         at  == ErrorAt(code', Len(cache), bad)
     IN  /\ bad # -1
         /\ ~BlankLine(at)
         /\ Return(Error(at))
  /\ UNCHANGED <<file, dict, parserState, buffer, status>>

Abort ==
  /\ Ended("MatchOperator")
  /\ LET bad == Split(cache).bad
     IN  bad # -1 /\ BlankLine(ErrorAt(code', Len(cache), bad))
  /\ status' = "aborted"
  /\ UNCHANGED <<file, dict, parserState, calling, cache, buffer, out>>

Overrun ==
  /\ parserState \in Matching \ {"MatchEchoLetter"} /\ In(parserState)
  /\ ~Room
  /\ status' = "undefined"
  /\ UNCHANGED <<file, code, dict, parserState, calling, cache, buffer, out>>

Next ==
  \/ DeliverBuffered \/ DeliverEof \/ Enter
  \/ BeginMatch \/ EndOfSource \/ MatchEchoLetter \/ MatchMore
  \/ EndIdentifier \/ EndNumber \/ EndOperators \/ Throw \/ Abort \/ Overrun

Spec == Init /\ [][Next]_vars

\* One thread, which runs as long as the compiler asks for symbols.
FairSpec == Spec /\ WF_vars(Next)
-----------------------------------------------------------------------------
TypeOK ==
  /\ code.input_buf_ptr \in 0..Len(code.input_buf)
  /\ Len(code.input_buf) <= BufferLength
  /\ Len(code.undo_buf) <= 1
  /\ parserState \in Matching \cup {"BeginMatch", "SymbolFound", "Finished"}
  /\ calling \in BOOLEAN
  /\ Len(cache) <= CacheSize
  /\ (buffer # <<>> => ~calling)
  /\ status \in {"running", "undefined", "aborted"}

(***************************************************************************)
(* The task this implements.  What has been read for a symbol that is not  *)
(* delivered yet is part of the rest: in cache, or on buffer.              *)
(***************************************************************************)
Undelivered ==
  IF parserState = "Finished" THEN <<>>
  ELSE FlattenSeq([i \in DOMAIN buffer |-> buffer[i].name]) \o cache \o Unread(code)

Delivered ==
  [i \in DOMAIN out |-> IF out[i].type = "ERROR" THEN Error(0) ELSE out[i]]

\* A letter in upper case does not count when a word is looked up.
Words(text) ==
  IF \E k \in DOMAIN Keywords : Keywords[k] = Path(text)
  THEN {KeywordSymbol(CHOOSE k \in DOMAIN Keywords : Keywords[k] = Path(text))}
  ELSE IdentifierSymbols(text)

Task == INSTANCE Tokens WITH
          rest <- Undelivered, out <- Delivered,
          Letters <- Lower \cup Upper, Figures <- Range(Digits)

\* Through lookahead, the buffer that is filled again in the middle of a
\* symbol, pushed back characters, operators queued on buffer and errors, the
\* source is cut into longest symbols from left to right: none is lost,
\* doubled, cut in two or out of order (SymbolParser.cpp:44, SourceCode.cpp:27).
ImplementsTokens == Task!Spec

\* An error names the colon that begins no operator, but one character too
\* few when the run ends the file: the NUL read there did not advance the
\* position, and pushing it back takes one from it (SourceCode.cpp:52,
\* SymbolParser.cpp:118).
EndsFile(offset) ==
  \A i \in (offset + 1)..Len(file) : file[i] \in OperatorCharset

BadColon(offset) ==
  /\ offset \in 0..(Len(file) - 1)
  /\ file[offset + 1] = ":"
  /\ ~(offset + 2 <= Len(file) /\ file[offset + 2] = "=")

ErrorLocated ==
  \A i \in DOMAIN out : out[i].type = "ERROR" =>
    \E offset \in {out[i].at, out[i].at + 1} :
      /\ BadColon(offset)
      /\ offset = out[i].at + 1 <=> EndsFile(offset)

\* The compiler dies without a message only on the error of a run that ends
\* the file (SyntaxError.h:35): every other one is reported.
AbortsAtEndOnly ==
  status = "aborted" =>
    \E offset \in 1..(Len(file) - 1) : EndsFile(offset) /\ BadColon(offset)

\* cache is overrun only by a run of CacheSize letters and digits or operator
\* characters (SymbolParser.cpp:41): no shorter symbol is at risk, wherever it
\* stands in the source and in the input buffer.
Symbolic(i, j) ==
  \/ \A k \in i..j : isalpha(file[k]) \/ isdigit(file[k])
  \/ \A k \in i..j : file[k] \in OperatorCharset

OverrunByLongOnly ==
  status = "undefined" =>
    \E i \in 1..(Len(file) - CacheSize + 1) : Symbolic(i, i + CacheSize - 1)

\* nextSymbol never loops for good: the source comes to its end, or the
\* compiler to one of the two ends above.
SourceEnds == <>(status # "running" \/ Eof \in Range(out))
=============================================================================
