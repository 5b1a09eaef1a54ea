------------------------ MODULE SymbolParserProofs ------------------------
(***************************************************************************)
(* Proofs about SymbolParser, for every source, every size of the input    *)
(* buffer and of cache, and every list of keywords.                        *)
(***************************************************************************)
EXTENDS SymbolParser, RecursionLemmas, SequenceTheorems, TLAPS

-----------------------------------------------------------------------------
(***************************************************************************)
(* SourceCode: what read takes and undo gives back is one character of     *)
(* what is still to be read.                                               *)
(***************************************************************************)
Chars == (STRING \cup OperatorCharset) \ {NUL}
Bytes == Chars \cup {NUL}

CodeObjects ==
  [fin : Seq(Chars), input_buf : Seq(Chars), input_buf_ptr : Nat,
   undo_buf : Seq(Bytes), position : Int]

\* At most one character is pushed back, and NUL only at the end of the file.
Sound(c) ==
  /\ c \in CodeObjects
  /\ c.input_buf_ptr <= Len(c.input_buf)
  /\ Len(c.input_buf) <= BufferLength
  /\ \/ c.undo_buf = <<>>
     \/ \E ch \in Chars : c.undo_buf = <<ch>>
     \/ c.undo_buf = <<NUL>> /\ Unread(c) = <<>>

\* The position, with what is still to be read and the NUL pushed back, which
\* was not counted when it was read: the length of the file.
Length(c) ==
  c.position + Len(Unread(c)) + (IF c.undo_buf = <<NUL>> THEN 1 ELSE 0)

LEMMA PositionMoves ==
  \A x \in Int : \A n \in Nat : \A m : m = n + 1 =>
    /\ (x + 1) + n + 0 = x + m + 0
    /\ (x - 1) + m + 0 = x + n + 0
OBVIOUS

\* A character in front of a sequence.
LEMMA CharacterInFront ==
  ASSUME NEW S, NEW ch \in S, NEW t \in Seq(S)
  PROVE  /\ <<ch>> \o t \in Seq(S)
         /\ Len(<<ch>> \o t) = Len(t) + 1
         /\ (<<ch>> \o t)[1] = ch
         /\ \A k \in 1..Len(t) : (<<ch>> \o t)[k + 1] = t[k]
         /\ Head(<<ch>> \o t) = ch /\ Tail(<<ch>> \o t) = t
         /\ <<ch>> \o t # <<>>
<1> DEFINE one == <<ch>>
<1>1. one \in Seq(S) /\ Len(one) = 1 /\ one[1] = ch
  OBVIOUS
<1> HIDE DEF one
<1> DEFINE s == one \o t
<1>2. /\ s \in Seq(S) /\ Len(s) = Len(one) + Len(t)
      /\ \A i \in 1..(Len(one) + Len(t)) : s[i] = IF i <= Len(one) THEN one[i] ELSE t[i - Len(one)]
  BY ONLY <1>1, t \in Seq(S), ConcatProperties
<1> HIDE DEF s
<1>4. Len(t) \in Nat
  OBVIOUS
<1>5. Len(s) = Len(t) + 1 /\ s[1] = ch /\ \A k \in 1..Len(t) : s[k + 1] = t[k]
  <2>1. \A k \in 1..Len(t) : k + 1 \in 1..(1 + Len(t)) /\ ~(k + 1 <= 1) /\ (k + 1) - 1 = k
    BY <1>4
  <2> QED BY <1>1, <1>2, <1>4, <2>1
<1>6. s # <<>>
  BY <1>4, <1>5
<1>7. Head(s) = ch /\ Tail(s) = t
  <2>1. Head(s) = s[1]
    BY <1>2, <1>6
  <2>2. Tail(s) \in Seq(S) /\ Len(Tail(s)) = Len(t) /\ \A i \in 1..Len(Tail(s)) : Tail(s)[i] = s[i + 1]
    BY <1>2, <1>4, <1>5, <1>6, HeadTailProperties
  <2>3. Tail(s) = t
    BY <1>5, <2>2, SeqEqual
  <2> QED BY <1>5, <2>1, <2>3
<1> QED BY <1>2, <1>5, <1>6, <1>7 DEF s, one

LEMMA InFrontOfBoth ==
  \A ch \in Chars : \A t, u \in Seq(Chars) : (<<ch>> \o t) \o u = <<ch>> \o (t \o u)
<1> SUFFICES ASSUME NEW S, NEW ch \in S, NEW t \in Seq(S), NEW u \in Seq(S)
             PROVE  (<<ch>> \o t) \o u = <<ch>> \o (t \o u)
  OBVIOUS
<1> DEFINE one == <<ch>>
<1>1. one \in Seq(S)
  OBVIOUS
<1> HIDE DEF one
<1>2. (one \o t) \o u = one \o (t \o u)
  BY ONLY <1>1, t \in Seq(S), u \in Seq(S), ConcatAssociative
<1> QED BY <1>2 DEF one

\* What is in front of the read pointer, and behind it.
LEMMA UnreadTyped ==
  ASSUME NEW c, Sound(c)
  PROVE  Unread(c) \in Seq(Chars)
<1>1. /\ c.input_buf \in Seq(Chars) /\ c.fin \in Seq(Chars) /\ c.undo_buf \in Seq(Bytes)
      /\ c.input_buf_ptr \in Nat /\ c.input_buf_ptr <= Len(c.input_buf)
  BY DEF Sound, CodeObjects
<1>2. SubSeq(c.input_buf, c.input_buf_ptr + 1, Len(c.input_buf)) \in Seq(Chars)
  BY <1>1
<1>3. c.undo_buf # <<NUL>> => c.undo_buf \in Seq(Chars)
  <2>1. CASE c.undo_buf = <<>>
    BY <2>1
  <2>2. CASE \E ch \in Chars : c.undo_buf = <<ch>>
    BY <2>2
  <2> QED BY <2>1, <2>2 DEF Sound
<1> QED BY <1>1, <1>2, <1>3 DEF Unread

\* A buffer that is filled again holds what comes next in the file.
LEMMA FreadKeepsRest ==
  ASSUME NEW c, Sound(c), c.undo_buf = <<>>, c.input_buf_ptr = Len(c.input_buf)
  PROVE  /\ Sound(fread(c)) /\ fread(c).undo_buf = <<>>
         /\ Unread(fread(c)) = Unread(c)
         /\ fread(c).position = c.position
         /\ Unread(c) # <<>> => fread(c).input_buf # <<>>
<1> DEFINE n == IF Len(c.fin) < BufferLength THEN Len(c.fin) ELSE BufferLength
           head == SubSeq(c.fin, 1, n)
           tail == SubSeq(c.fin, BufferLength + 1, Len(c.fin))
           d == fread(c)
<1>1. /\ c \in CodeObjects /\ c.fin \in Seq(Chars) /\ c.input_buf \in Seq(Chars)
      /\ BufferLength \in Nat \ {0}
  BY BufferAssumption DEF Sound, CodeObjects
<1>2. n \in Nat /\ n <= Len(c.fin) /\ n <= BufferLength /\ (c.fin # <<>> => n > 0)
  BY <1>1
<1>3. head \in Seq(Chars) /\ Len(head) = n /\ \A k \in 1..n : head[k] = c.fin[k]
  <2> HIDE DEF n
  <2> QED BY <1>1, <1>2
<1>4. tail = SubSeq(c.fin, n + 1, Len(c.fin)) /\ tail \in Seq(Chars)
  <2>0. /\ Len(c.fin) < BufferLength => n = Len(c.fin)
        /\ Len(c.fin) >= BufferLength => n = BufferLength
        /\ Len(c.fin) < BufferLength \/ Len(c.fin) >= BufferLength
    BY <1>1
  <2> HIDE DEF n
  <2>1. CASE Len(c.fin) < BufferLength
    <3>1. SubSeq(c.fin, BufferLength + 1, Len(c.fin)) = <<>>
      BY <1>1, <2>1, SubSeqEmpty
    <3>2. SubSeq(c.fin, Len(c.fin) + 1, Len(c.fin)) = <<>>
      BY <1>1, SubSeqEmpty
    <3>3. <<>> \in Seq(Chars)
      OBVIOUS
    <3> QED BY <2>0, <2>1, <3>1, <3>2, <3>3
  <2>2. CASE Len(c.fin) >= BufferLength
    <3>1. n = BufferLength
      BY <2>0, <2>2
    <3>2. SubSeq(c.fin, BufferLength + 1, Len(c.fin)) \in Seq(Chars)
      BY <1>1
    <3> QED BY <3>1, <3>2
  <2> QED BY <2>0, <2>1, <2>2
<1> HIDE DEF n, head, tail
<1>5. d = [c EXCEPT !.input_buf = head, !.fin = tail, !.input_buf_ptr = 0]
  BY DEF fread, n, head, tail
<1>6. /\ d \in CodeObjects /\ d.input_buf = head /\ d.fin = tail /\ d.input_buf_ptr = 0
      /\ d.undo_buf = <<>> /\ d.position = c.position
  <2>1. d = [fin |-> tail, input_buf |-> head, input_buf_ptr |-> 0,
             undo_buf |-> c.undo_buf, position |-> c.position]
    BY <1>1, <1>5 DEF CodeObjects
  <2>2. c.undo_buf \in Seq(Bytes) /\ c.position \in Int
    BY <1>1 DEF CodeObjects
  <2> HIDE DEF d
  <2> QED BY <1>3, <1>4, <2>1, <2>2 DEF CodeObjects
<1> HIDE DEF d
<1>7. Unread(c) = c.fin
  <2>1. SubSeq(c.input_buf, c.input_buf_ptr + 1, Len(c.input_buf)) = <<>>
    BY <1>1
  <2> QED BY <1>1, <2>1 DEF Unread
<1>8. Unread(d) = c.fin
  <2>1. SubSeq(d.input_buf, 1, Len(d.input_buf)) = head
    BY <1>2, <1>3, <1>6
  <2>2. head \o tail = c.fin
    <3>1. n \in 0..Len(c.fin) /\ Len(c.fin) \in Nat
      BY <1>1, <1>2
    <3>2. head = SubSeq(c.fin, 1, n)
      BY DEF head
    <3>3. SubSeq(c.fin, 1, n) \o SubSeq(c.fin, n + 1, Len(c.fin)) = SubSeq(c.fin, 1, Len(c.fin))
      <4>1. 1 \in 1..(Len(c.fin) + 1) /\ n \in (1 - 1)..Len(c.fin) /\ Len(c.fin) \in n..Len(c.fin)
        BY <3>1
      <4> QED BY <1>1, <4>1, ConcatAdjacentSubSeq
    <3> QED BY <1>1, <1>4, <3>2, <3>3, SubSeqFull
  <2>3. Unread(d) = <<>> \o SubSeq(d.input_buf, 1, Len(d.input_buf)) \o d.fin
    BY <1>6 DEF Unread
  <2>4. <<>> \o head = head
    BY <1>3
  <2> QED BY <1>6, <2>1, <2>2, <2>3, <2>4
<1>9. Sound(d)
  BY <1>2, <1>3, <1>6 DEF Sound
<1> QED BY <1>2, <1>3, <1>6, <1>7, <1>8, <1>9 DEF d

\* read takes the first of the characters still to be read, or finds the end.
LEMMA ReadTakesFirst ==
  ASSUME NEW c, Sound(c)
  PROVE  LET ch == read(c).ch
             d  == read(c).code
         IN  /\ Sound(d) /\ d.undo_buf = <<>>
             /\ Length(d) = Length(c)
             /\ \/ ch = NUL /\ Unread(c) = <<>> /\ Unread(d) = <<>>
                \/ ch \in Chars /\ Unread(c) = <<ch>> \o Unread(d)
<1>1. /\ c \in CodeObjects /\ c.input_buf_ptr <= Len(c.input_buf) /\ c.input_buf_ptr \in Nat
      /\ c.input_buf \in Seq(Chars) /\ c.fin \in Seq(Chars)
      /\ c.undo_buf \in Seq(Bytes) /\ c.position \in Int
  BY DEF Sound, CodeObjects
<1>2. CASE c.undo_buf # <<>>
  <2> DEFINE ch == c.undo_buf[1]
             d == read(c).code
             left == SubSeq(c.input_buf, c.input_buf_ptr + 1, Len(c.input_buf)) \o c.fin
  <2>1. c.undo_buf = <<ch>> /\ ch \in Bytes /\ (ch = NUL => Unread(c) = <<>>)
    <3>1. CASE \E x \in Chars : c.undo_buf = <<x>>
      BY <3>1 DEF Chars, Bytes
    <3>2. CASE c.undo_buf = <<NUL>> /\ Unread(c) = <<>>
      BY <3>2 DEF Bytes
    <3> QED BY <1>2, <3>1, <3>2 DEF Sound
  <2> HIDE DEF ch
  <2>2. Last(c.undo_buf) = ch /\ Front(c.undo_buf) = <<>>
    BY <2>1 DEF Last, Front
  <2>3. d = [c EXCEPT !.undo_buf = <<>>, !.position = c.position + 1] /\ read(c).ch = ch
    BY <1>2, <2>2 DEF read
  <2>4. d = [fin |-> c.fin, input_buf |-> c.input_buf, input_buf_ptr |-> c.input_buf_ptr,
             undo_buf |-> <<>>, position |-> c.position + 1]
    BY <1>1, <2>3 DEF CodeObjects
  <2> HIDE DEF d
  <2>5. d \in CodeObjects
    BY <1>1, <2>4 DEF CodeObjects
  <2>6. Sound(d) /\ d.undo_buf = <<>>
    BY <2>4, <2>5 DEF Sound
  <2>7. left \in Seq(Chars)
    BY <1>1
  <2>8. Unread(d) = left
    <3>1. Unread(d) = <<>> \o SubSeq(c.input_buf, c.input_buf_ptr + 1, Len(c.input_buf)) \o c.fin
      BY <2>4 DEF Unread, NUL
    <3>2. SubSeq(c.input_buf, c.input_buf_ptr + 1, Len(c.input_buf)) \in Seq(Chars)
      BY <1>1
    <3> QED BY <3>1, <3>2, ConcatEmptySeq
  <2>9. CASE ch = NUL
    <3>1. Unread(c) = <<>> \o SubSeq(c.input_buf, c.input_buf_ptr + 1, Len(c.input_buf)) \o c.fin
      BY <2>1, <2>9 DEF Unread
    <3>2. SubSeq(c.input_buf, c.input_buf_ptr + 1, Len(c.input_buf)) \in Seq(Chars)
      BY <1>1
    <3>3. Unread(c) = left
      BY <3>1, <3>2, ConcatEmptySeq
    <3>4. Length(c) = c.position + Len(Unread(c)) + 1
      BY <2>1, <2>9 DEF Length
    <3>5. Length(d) = (c.position + 1) + Len(Unread(d)) + 0
      BY <2>4 DEF Length, NUL
    <3>6. Len(<<>>) = 0 /\ Unread(c) = <<>> /\ Unread(d) = <<>>
      BY <2>1, <2>8, <2>9, <3>3
    <3>7. Length(d) = Length(c)
      BY <1>1, <3>4, <3>5, <3>6
    <3> QED BY <2>3, <2>6, <2>9, <3>6, <3>7 DEF d
  <2>10. CASE ch # NUL
    <3>1. c.undo_buf # <<NUL>> /\ ch \in Chars
      BY <2>1, <2>10 DEF Bytes
    <3>2. Unread(c) = <<ch>> \o SubSeq(c.input_buf, c.input_buf_ptr + 1, Len(c.input_buf)) \o c.fin
      BY <2>1, <3>1 DEF Unread
    <3>3. SubSeq(c.input_buf, c.input_buf_ptr + 1, Len(c.input_buf)) \in Seq(Chars) /\ <<ch>> \in Seq(Chars)
      BY <1>1, <3>1
    <3>4. Unread(c) = <<ch>> \o left
      BY <1>1, <3>1, <3>2, <3>3, InFrontOfBoth
    <3> HIDE DEF left
    <3>5. Len(Unread(c)) = Len(Unread(d)) + 1 /\ Len(Unread(d)) \in Nat
      BY <2>7, <2>8, <3>1, <3>4, CharacterInFront
    <3>6. Length(c) = c.position + Len(Unread(c)) + 0
      BY <3>1 DEF Length
    <3>7. Length(d) = (c.position + 1) + Len(Unread(d)) + 0
      BY <2>4 DEF Length, NUL
    <3>8. c.position \in Int
      BY <1>1
    <3>10. Length(d) = Length(c)
      BY ONLY <3>5, <3>6, <3>7, <3>8, PositionMoves
    <3> QED BY <2>3, <2>6, <2>8, <3>1, <3>4, <3>10 DEF d
  <2> QED BY <2>9, <2>10
<1>3. CASE c.undo_buf = <<>>
  <2> DEFINE b == IF c.input_buf_ptr = Len(c.input_buf) THEN fread(c) ELSE c
             d == read(c).code
  <2>1. /\ Sound(b) /\ b.undo_buf = <<>> /\ Unread(b) = Unread(c) /\ b.position = c.position
        /\ Unread(c) # <<>> => b.input_buf_ptr # Len(b.input_buf)
    <3>1. CASE c.input_buf_ptr = Len(c.input_buf)
      <4>1. fread(c).input_buf_ptr = 0
        BY <1>1 DEF fread, CodeObjects
      <4>2. /\ Sound(fread(c)) /\ fread(c).undo_buf = <<>> /\ Unread(fread(c)) = Unread(c)
            /\ fread(c).position = c.position
            /\ Unread(c) # <<>> => fread(c).input_buf # <<>>
        BY <1>3, <3>1, FreadKeepsRest
      <4>3. fread(c).input_buf \in Seq(Chars)
        BY <4>2 DEF Sound, CodeObjects
      <4>4. fread(c).input_buf # <<>> => Len(fread(c).input_buf) # 0
        BY <4>3
      <4> QED BY <3>1, <4>1, <4>2, <4>4
    <3>2. CASE c.input_buf_ptr # Len(c.input_buf)
      BY <1>3, <3>2
    <3> QED BY <3>1, <3>2
  <2>2. read(c) = Take(b)
    BY <1>3 DEF read
  <2> HIDE DEF b
  <2>3. /\ b \in CodeObjects /\ b.input_buf_ptr <= Len(b.input_buf) /\ b.input_buf_ptr \in Nat
        /\ b.input_buf \in Seq(Chars) /\ b.fin \in Seq(Chars) /\ Len(b.input_buf) <= BufferLength
        /\ b.position \in Int
    BY <2>1 DEF Sound, CodeObjects
  <2>4. CASE b.input_buf_ptr = Len(b.input_buf)
    <3>1. read(c).ch = NUL /\ d = b
      BY <2>2, <2>4 DEF Take
    <3>2. Unread(c) = <<>>
      BY <2>1, <2>4
    <3>3. Length(b) = Length(c)
      BY <1>3, <2>1 DEF Length
    <3> QED BY <2>1, <3>1, <3>2, <3>3
  <2>5. CASE b.input_buf_ptr # Len(b.input_buf)
    <3> DEFINE p == b.input_buf_ptr
               ch == b.input_buf[p + 1]
               left == SubSeq(b.input_buf, p + 2, Len(b.input_buf))
    <3>1. read(c).ch = ch /\ d = [b EXCEPT !.input_buf_ptr = p + 1, !.position = b.position + 1]
      BY <2>2, <2>5 DEF Take
    <3>2. d = [fin |-> b.fin, input_buf |-> b.input_buf, input_buf_ptr |-> p + 1,
               undo_buf |-> <<>>, position |-> b.position + 1]
      BY <2>1, <2>3, <3>1 DEF CodeObjects
    <3> HIDE DEF d
    <3>3. p + 1 \in 1..Len(b.input_buf) /\ Len(b.input_buf) \in Nat /\ (p + 1) + 1 = p + 2
      BY <2>3, <2>5
    <3>4. ch \in Chars /\ left \in Seq(Chars)
      BY <2>3, <3>3
    <3>5. d \in CodeObjects
      BY <2>3, <3>2, <3>3 DEF CodeObjects
    <3>6. Sound(d) /\ d.undo_buf = <<>>
      BY <2>3, <3>2, <3>3, <3>5 DEF Sound
    <3>7. Unread(d) = left \o b.fin
      <4>1. Unread(d) = <<>> \o left \o b.fin
        BY <3>2, <3>3 DEF Unread, NUL
      <4> QED BY <3>4, <4>1, ConcatEmptySeq
    <3>8. SubSeq(b.input_buf, p + 1, Len(b.input_buf)) = <<ch>> \o left
      <4>1. p + 1 \in 1..Len(b.input_buf) /\ Len(b.input_buf) \in (p + 1)..Len(b.input_buf)
        BY <3>3
      <4>2. SubSeq(b.input_buf, p + 1, Len(b.input_buf))
              = <<b.input_buf[p + 1]>> \o SubSeq(b.input_buf, (p + 1) + 1, Len(b.input_buf))
        BY <2>3, <4>1, SubSeqRecursiveFirst
      <4> QED BY <3>3, <4>2
    <3>9. Unread(b) = <<ch>> \o Unread(d)
      <4>1. Unread(b) = <<>> \o SubSeq(b.input_buf, p + 1, Len(b.input_buf)) \o b.fin
        BY <2>1 DEF Unread, NUL
      <4>2. <<ch>> \in Seq(Chars) /\ <<ch>> \o left \in Seq(Chars)
        BY <3>4
      <4>3. Unread(b) = (<<ch>> \o left) \o b.fin
        BY <3>8, <4>1, <4>2, ConcatEmptySeq
      <4> HIDE DEF ch, left
      <4>4. (<<ch>> \o left) \o b.fin = <<ch>> \o (left \o b.fin)
        BY <2>3, <3>4, InFrontOfBoth
      <4> QED BY <3>7, <4>3, <4>4
    <3>10. Length(d) = Length(c)
      <4>1. Length(c) = b.position + Len(Unread(b)) + 0
        BY <1>3, <2>1 DEF Length
      <4>2. Length(d) = (b.position + 1) + Len(Unread(d)) + 0
        BY <3>2 DEF Length, NUL
      <4>3. Unread(d) \in Seq(Chars) /\ <<ch>> \in Seq(Chars)
        BY <3>4, <3>6, UnreadTyped
      <4> HIDE DEF ch
      <4>4. Len(Unread(b)) = Len(Unread(d)) + 1 /\ Len(Unread(d)) \in Nat
        BY <3>4, <3>9, <4>3, CharacterInFront
      <4>5. b.position \in Int
        BY <2>3
      <4> QED BY ONLY <4>1, <4>2, <4>4, <4>5, PositionMoves
    <3> QED BY <2>1, <3>1, <3>4, <3>6, <3>9, <3>10 DEF d
  <2> QED BY <2>4, <2>5
<1> QED BY <1>2, <1>3

\* undo gives back what was read.
LEMMA UndoGivesBack ==
  ASSUME NEW c, Sound(c), c.undo_buf = <<>>,
         NEW ch, ch \in Chars \/ (ch = NUL /\ Unread(c) = <<>>)
  PROVE  /\ Sound(undo(c, ch))
         /\ Length(undo(c, ch)) = Length(c)
         /\ undo(c, ch).position = c.position - 1
         /\ Unread(undo(c, ch)) = IF ch = NUL THEN <<>> ELSE <<ch>> \o Unread(c)
<1> DEFINE d == undo(c, ch)
           rest == SubSeq(c.input_buf, c.input_buf_ptr + 1, Len(c.input_buf))
<1>1. /\ c \in CodeObjects /\ c.input_buf_ptr <= Len(c.input_buf) /\ c.input_buf_ptr \in Nat
      /\ c.input_buf \in Seq(Chars) /\ c.fin \in Seq(Chars) /\ c.position \in Int
      /\ Len(c.input_buf) <= BufferLength
  BY DEF Sound, CodeObjects
<1>2. ch \in Bytes
  BY DEF Bytes
<1>3. d = [fin |-> c.fin, input_buf |-> c.input_buf, input_buf_ptr |-> c.input_buf_ptr,
           undo_buf |-> <<ch>>, position |-> c.position - 1]
  <2>1. Append(c.undo_buf, ch) = <<ch>>
    OBVIOUS
  <2>2. d = [c EXCEPT !.undo_buf = <<ch>>, !.position = c.position - 1]
    BY <2>1 DEF undo
  <2> HIDE DEF d
  <2> QED BY <1>1, <2>2 DEF CodeObjects
<1> HIDE DEF d
<1>4. d \in CodeObjects
  BY <1>1, <1>2, <1>3 DEF CodeObjects
<1>5. rest \in Seq(Chars)
  BY <1>1
<1>6. Unread(c) = rest \o c.fin
  <2>1. Unread(c) = <<>> \o rest \o c.fin
    BY DEF Unread, NUL
  <2> QED BY <1>5, <2>1, ConcatEmptySeq
<1>7. Unread(c) \in Seq(Chars)
  BY UnreadTyped
<1>8. CASE ch = NUL
  <2>1. Unread(d) = <<>> \o rest \o c.fin
    BY <1>3, <1>8 DEF Unread
  <2>2. Unread(d) = <<>>
    BY <1>5, <1>6, <1>8, <2>1, ConcatEmptySeq DEF Chars
  <2>3. Sound(d)
    BY <1>1, <1>3, <1>4, <1>8, <2>2 DEF Sound
  <2>4. Length(d) = (c.position - 1) + Len(<<>>) + 1
    BY <1>3, <1>8, <2>2 DEF Length
  <2>5. Length(c) = c.position + Len(<<>>) + 0
    BY <1>8 DEF Length, NUL, Chars
  <2>6. Length(d) = Length(c)
    BY <1>1, <2>4, <2>5
  <2> QED BY <1>3, <1>8, <2>2, <2>3, <2>6 DEF d
<1>9. CASE ch # NUL
  <2>1. ch \in Chars /\ <<ch>> # <<NUL>> /\ <<ch>> \in Seq(Chars)
    BY <1>9
  <2>2. Unread(d) = <<ch>> \o rest \o c.fin
    BY <1>3, <2>1 DEF Unread
  <2>3. Unread(d) = <<ch>> \o Unread(c)
    <3> HIDE DEF rest
    <3>1. (<<ch>> \o rest) \o c.fin = <<ch>> \o (rest \o c.fin)
      BY <1>1, <1>5, <2>1, InFrontOfBoth
    <3> QED BY <1>6, <2>2, <3>1
  <2>4. Sound(d)
    BY <1>1, <1>3, <1>4, <2>1 DEF Sound
  <2>5. Length(d) = (c.position - 1) + Len(Unread(d)) + 0
    BY <1>3, <2>1 DEF Length
  <2>6. Length(c) = c.position + Len(Unread(c)) + 0
    BY DEF Length, NUL
  <2>7. Len(Unread(d)) = Len(Unread(c)) + 1 /\ Len(Unread(c)) \in Nat
    BY <1>7, <2>1, <2>3, CharacterInFront
  <2>9. c.position \in Int
    BY <1>1
  <2>8. Length(d) = Length(c)
    BY ONLY <2>5, <2>6, <2>7, <2>9, PositionMoves
  <2> QED BY <1>3, <1>9, <2>3, <2>4, <2>8 DEF d
<1> QED BY <1>8, <1>9
-----------------------------------------------------------------------------
(***************************************************************************)
(* Operators: the table, and what Split makes of a run.                    *)
(***************************************************************************)
LEMMA OperatorRows ==
  /\ DOMAIN Operators = 1..12
  /\ Operators[1] = <<":", "=">> /\ Operators[2] = <<"<", ">">>
  /\ Operators[3] = <<"<", "=">> /\ Operators[4] = <<">", "=">>
  /\ Operators[5] = <<"=">> /\ Operators[6] = <<"<">> /\ Operators[7] = <<">">>
  /\ Operators[8] = <<"+">> /\ Operators[9] = <<"-">> /\ Operators[10] = <<"*">>
  /\ Operators[11] = <<"/">> /\ Operators[12] = <<"#">>
BY DEF Operators

\* A colon stands in one of them only, in front of an equals sign.
LEMMA OperatorTable ==
  \A j \in 1..12 :
    /\ Operators[j] \in Seq(OperatorCharset)
    /\ Len(Operators[j]) \in {1, 2}
    /\ \A k \in 1..Len(Operators[j]) :
         Operators[j][k] = ":" => k = 1 /\ Len(Operators[j]) = 2 /\ Operators[j][2] = "="
<1> TAKE j \in 1..12
<1>1. CASE j \in 1..4
  <2>1. PICK a, b \in OperatorCharset : Operators[j] = <<a, b>> /\ b # ":" /\ (a = ":" => b = "=")
    <3>1. j = 1 \/ j = 2 \/ j = 3 \/ j = 4
      BY <1>1
    <3> QED BY <3>1, OperatorRows DEF OperatorCharset
  <2>2. Len(<<a, b>>) = 2 /\ <<a, b>>[1] = a /\ <<a, b>>[2] = b /\ <<a, b>> \in Seq(OperatorCharset)
    OBVIOUS
  <2>3. \A k \in 1..2 : k = 1 \/ k = 2
    OBVIOUS
  <2> QED BY <2>1, <2>2, <2>3
<1>2. CASE j \in 5..12
  <2>1. PICK a \in OperatorCharset : Operators[j] = <<a>> /\ a # ":"
    <3>1. j = 5 \/ j = 6 \/ j = 7 \/ j = 8 \/ j = 9 \/ j = 10 \/ j = 11 \/ j = 12
      BY <1>2
    <3> QED BY <3>1, OperatorRows DEF OperatorCharset
  <2>2. Len(<<a>>) = 1 /\ <<a>>[1] = a /\ <<a>> \in Seq(OperatorCharset)
    OBVIOUS
  <2>3. \A k \in 1..1 : k = 1
    OBVIOUS
  <2> QED BY <2>1, <2>2, <2>3
<1> QED BY <1>1, <1>2

LEMMA CharsetInChars == OperatorCharset \subseteq Chars /\ Seq(OperatorCharset) \subseteq Seq(Chars)
<1>1. OperatorCharset \subseteq Chars
  BY DEF OperatorCharset, Chars, NUL
<1> QED BY <1>1, SeqMonotonic

LEMMA PrefixMeans ==
  \A s, t \in Seq(Chars) :
    IsPrefix(s, t) <=> Len(s) <= Len(t) /\ \A k \in 1..Len(s) : s[k] = t[k]
<1> TAKE s, t \in Seq(Chars)
<1>1. CASE Len(s) <= Len(t)
  <2>1. SubSeq(s, 1, Len(s)) = s
    BY SubSeqFull
  <2> DEFINE u == SubSeq(t, 1, Len(s))
  <2>2. u \in Seq(Chars) /\ Len(u) = Len(s) /\ \A k \in 1..Len(s) : u[k] = t[k]
    BY <1>1
  <2> HIDE DEF u
  <2>3. s = u <=> \A k \in 1..Len(s) : s[k] = t[k]
    BY <2>2, SeqEqual
  <2> QED BY <1>1, <2>1, <2>3 DEF IsPrefix, u
<1>2. CASE ~(Len(s) <= Len(t))
  BY <1>2 DEF IsPrefix
<1> QED BY <1>1, <1>2

\* Fits finds the first operator of the table that its argument begins with.
LEMMA FitsFirst ==
  \A s : /\ Fits(s) \in 0..12
         /\ Fits(s) = 0 => \A j \in 1..12 : ~IsPrefix(Operators[j], s)
         /\ Fits(s) # 0 =>
              /\ IsPrefix(Operators[Fits(s)], s)
              /\ \A j \in 1..12 : IsPrefix(Operators[j], s) => Fits(s) <= j
<1> TAKE s
<1> DEFINE fit == {j \in DOMAIN Operators : IsPrefix(Operators[j], s)}
<1>1. fit = {j \in 1..12 : IsPrefix(Operators[j], s)}
  BY OperatorRows
<1>2. CASE fit = {}
  <2>1. Fits(s) = 0
    BY <1>2 DEF Fits
  <2> QED BY <1>1, <1>2, <2>1
<1>3. CASE fit # {}
  <2>1. Fits(s) = CHOOSE j \in fit : \A k \in fit : j <= k
    BY <1>3 DEF Fits
  <2> HIDE DEF fit
  <2>2. fit \in SUBSET Nat
    BY <1>1
  <2>3. \E j \in fit : \A k \in fit : j <= k
    BY <1>3, <2>2, LeastNumber
  <2>4. Fits(s) \in fit /\ \A k \in fit : Fits(s) <= k
    BY <2>1, <2>3
  <2> QED BY <1>1, <2>4
<1> QED BY <1>2, <1>3

\* Nothing fits a run that begins with a colon without an equals sign only.
LEMMA NothingFits ==
  ASSUME NEW s \in Seq(OperatorCharset), s # <<>>, Fits(s) = 0
  PROVE  s[1] = ":" /\ ~(2 <= Len(s) /\ s[2] = "=")
<1>1. s \in Seq(Chars) /\ Len(s) \in Nat /\ 1 <= Len(s) /\ s[1] \in OperatorCharset
  BY CharsetInChars
<1>2. \A j \in 1..12 : /\ Operators[j] \in Seq(Chars)
                       /\ ~(Len(Operators[j]) <= Len(s) /\ \A k \in 1..Len(Operators[j]) : Operators[j][k] = s[k])
  BY <1>1, FitsFirst, OperatorTable, CharsetInChars, PrefixMeans
<1>3. ASSUME NEW j \in 5..12 PROVE Operators[j][1] # s[1]
  <2>1. Len(Operators[j]) = 1
    <3>1. j = 5 \/ j = 6 \/ j = 7 \/ j = 8 \/ j = 9 \/ j = 10 \/ j = 11 \/ j = 12
      OBVIOUS
    <3>2. \E a : Operators[j] = <<a>>
      BY <3>1, OperatorRows
    <3> QED BY <3>2
  <2>2. ~(Len(Operators[j]) <= Len(s) /\ \A k \in 1..Len(Operators[j]) : Operators[j][k] = s[k])
    <3>1. j \in 1..12
      OBVIOUS
    <3> QED BY ONLY <1>2, <3>1
  <2> DEFINE o == Operators[j]
  <2> HIDE DEF o
  <2>3. ~(Len(o) <= Len(s) /\ \A k \in 1..Len(o) : o[k] = s[k]) /\ Len(o) = 1
    BY <2>1, <2>2 DEF o
  <2>4. o[1] # s[1]
    <3>1. \A k \in 1..1 : k = 1
      OBVIOUS
    <3> QED BY ONLY <1>1, <2>3, <3>1
  <2> QED BY <2>4 DEF o
<1>4. s[1] \notin {"=", "<", ">", "+", "-", "*", "/", "#"}
  <2>1. /\ Operators[5][1] # s[1] /\ Operators[6][1] # s[1] /\ Operators[7][1] # s[1]
        /\ Operators[8][1] # s[1] /\ Operators[9][1] # s[1] /\ Operators[10][1] # s[1]
        /\ Operators[11][1] # s[1] /\ Operators[12][1] # s[1]
    BY <1>3
  <2> QED BY <2>1, OperatorRows
<1>5. s[1] = ":"
  BY <1>1, <1>4 DEF OperatorCharset
<1>6. ~(2 <= Len(s) /\ s[2] = "=")
  <2>1. Len(Operators[1]) = 2 /\ Operators[1][1] = ":" /\ Operators[1][2] = "="
    BY OperatorRows
  <2>2. ~(Len(Operators[1]) <= Len(s) /\ \A k \in 1..Len(Operators[1]) : Operators[1][k] = s[k])
    <3>1. 1 \in 1..12
      OBVIOUS
    <3> QED BY ONLY <1>2, <3>1
  <2> DEFINE o == Operators[1]
  <2> HIDE DEF o
  <2>3. /\ ~(Len(o) <= Len(s) /\ \A k \in 1..Len(o) : o[k] = s[k])
        /\ Len(o) = 2 /\ o[1] = ":" /\ o[2] = "="
    BY <2>1, <2>2 DEF o
  <2>4. \A k \in 1..2 : k = 1 \/ k = 2
    OBVIOUS
  <2> QED BY ONLY <1>1, <1>5, <2>3, <2>4
<1> QED BY <1>5, <1>6

OperatorSymbols == {OperatorSymbol(j) : j \in 1..12}

Parts == [ops : Seq(OperatorSymbols), bad : Int]

\* One step of Split, which works on what it makes of the rest of the run.
SplitStep(run, f, i) ==
  IF i = Len(run) THEN [ops |-> <<>>, bad |-> -1]
  ELSE LET j == Fits(SubSeq(run, i + 1, Len(run)))
       IN  IF j = 0 THEN [ops |-> <<>>, bad |-> i]
           ELSE LET more == f[i + Len(Operators[j])]
                IN  [more EXCEPT !.ops = <<OperatorSymbol(j)>> \o @]

\* The operator that fits at a of the run, which ends at b.
FitsAt(op, run, a, b) ==
  \E j \in 1..12 :
    /\ op = OperatorSymbol(j)
    /\ j = Fits(SubSeq(run, a + 1, Len(run)))
    /\ b = a + Len(Operators[j])

\* The run is cut into ops from i to its end, at the places p.
CutsAt(p, ops, run, i) ==
  /\ p \in [0..Len(ops) -> 0..Len(run)]
  /\ p[0] = i /\ p[Len(ops)] = Len(run)
  /\ \A k \in 1..Len(ops) : FitsAt(ops[k], run, p[k - 1], p[k])

CutFrom(ops, run, i) == \E p : CutsAt(p, ops, run, i)

\* Every colon from i on is the first half of an operator, or one is not.
ColonsPaired(run, i) ==
  \A k \in (i + 1)..Len(run) : run[k] = ":" => k < Len(run) /\ run[k + 1] = "="

ColonAlone(run, i) ==
  run[i + 1] = ":" /\ ~(i + 2 <= Len(run) /\ run[i + 2] = "=")

CutRight(run, i, parts) ==
  /\ parts.bad = -1 => CutFrom(parts.ops, run, i) /\ ColonsPaired(run, i)
  /\ parts.bad # -1 => parts.bad \in i..(Len(run) - 1) /\ ColonAlone(run, parts.bad)

\* An operator that fits lies in the run.
LEMMA FitsInside ==
  ASSUME NEW run \in Seq(OperatorCharset), NEW i \in 0..(Len(run) - 1),
         NEW j \in 1..12, j = Fits(SubSeq(run, i + 1, Len(run)))
  PROVE  /\ i + Len(Operators[j]) \in (i + 1)..Len(run)
         /\ \A k \in 1..Len(Operators[j]) : run[i + k] = Operators[j][k]
<1> DEFINE s == SubSeq(run, i + 1, Len(run))
           o == Operators[j]
<1>1. s \in Seq(OperatorCharset) /\ Len(s) = Len(run) - i /\ \A k \in 1..(Len(run) - i) : s[k] = run[i + k]
  OBVIOUS
<1> HIDE DEF s
<1>2. IsPrefix(o, s)
  <2>1. Fits(s) # 0 /\ j = Fits(s)
    BY DEF s
  <2> QED BY <2>1, FitsFirst
<1>3. o \in Seq(OperatorCharset) /\ Len(o) \in {1, 2}
  BY OperatorTable
<1> HIDE DEF o
<1>4. Len(o) <= Len(s) /\ \A k \in 1..Len(o) : o[k] = s[k]
  <2>1. o \in Seq(Chars) /\ s \in Seq(Chars)
    BY <1>1, <1>3, CharsetInChars
  <2> QED BY <1>2, <2>1, PrefixMeans
<1>5. \A k \in 1..Len(o) : k \in 1..(Len(run) - i)
  BY <1>1, <1>3, <1>4
<1>6. i + Len(o) \in (i + 1)..Len(run)
  <2>1. i \in Nat /\ Len(run) \in Nat
    OBVIOUS
  <2>2. Len(o) \in Nat /\ 1 <= Len(o)
    <3>1. Len(o) = 1 \/ Len(o) = 2
      BY ONLY <1>3
    <3>2. CASE Len(o) = 1
      BY ONLY <3>2
    <3>3. CASE Len(o) = 2
      BY ONLY <3>3
    <3> QED BY ONLY <3>1, <3>2, <3>3
  <2>3. Len(o) <= Len(run) - i
    BY ONLY <1>1, <1>4
  <2>4. \A a, b, n \in Nat : 1 <= b /\ b <= n - a => a + b \in (a + 1)..n
    OBVIOUS
  <2> QED BY ONLY <2>1, <2>2, <2>3, <2>4
<1> QED BY <1>1, <1>4, <1>5, <1>6 DEF o

\* The result of a step has its type.
LEMMA StepTyped ==
  ASSUME NEW run \in Seq(OperatorCharset), NEW f, NEW i \in 0..Len(run),
         \A k \in (i + 1)..Len(run) : f[k] \in Parts
  PROVE  SplitStep(run, f, i) \in Parts
<1> DEFINE j == Fits(SubSeq(run, i + 1, Len(run)))
<1>1. CASE i = Len(run)
  <2>1. SplitStep(run, f, i) = [ops |-> <<>>, bad |-> -1]
    BY <1>1 DEF SplitStep
  <2>2. <<>> \in Seq(OperatorSymbols)
    OBVIOUS
  <2> QED BY <2>1, <2>2 DEF Parts
<1>2. CASE i # Len(run) /\ j = 0
  <2>1. SplitStep(run, f, i) = [ops |-> <<>>, bad |-> i]
    BY <1>2 DEF SplitStep
  <2>2. <<>> \in Seq(OperatorSymbols) /\ i \in Int
    OBVIOUS
  <2> QED BY <2>1, <2>2 DEF Parts
<1>3. CASE i # Len(run) /\ j # 0
  <2> DEFINE more == f[i + Len(Operators[j])]
             op == OperatorSymbol(j)
             ops == <<op>> \o more.ops
  <2>1. j \in 1..12 /\ i \in 0..(Len(run) - 1)
    BY <1>3, FitsFirst
  <2>2. more \in Parts
    BY <2>1, FitsInside
  <2>3. op \in OperatorSymbols
    BY <2>1 DEF OperatorSymbols
  <2>4. SplitStep(run, f, i) = [more EXCEPT !.ops = ops]
    BY <1>3 DEF SplitStep
  <2> HIDE DEF more, op
  <2>5. <<op>> \in Seq(OperatorSymbols) /\ more.ops \in Seq(OperatorSymbols) /\ more.bad \in Int
    BY <2>2, <2>3 DEF Parts
  <2>6. ops \in Seq(OperatorSymbols)
    BY <2>5
  <2> HIDE DEF ops
  <2>7. SplitStep(run, f, i) = [ops |-> ops, bad |-> more.bad]
    BY <2>2, <2>4 DEF Parts
  <2> QED BY <2>5, <2>6, <2>7 DEF Parts
<1> QED BY <1>1, <1>2, <1>3

\* What the operator in front adds to a cut of the rest.
LEMMA CutInFront ==
  ASSUME NEW run \in Seq(OperatorCharset), NEW i \in 0..(Len(run) - 1),
         NEW j \in 1..12, j = Fits(SubSeq(run, i + 1, Len(run))),
         NEW ops \in Seq(OperatorSymbols), NEW next, next = i + Len(Operators[j]),
         CutFrom(ops, run, next), ColonsPaired(run, next)
  PROVE  CutFrom(<<OperatorSymbol(j)>> \o ops, run, i) /\ ColonsPaired(run, i)
<1> DEFINE op == OperatorSymbol(j)
           all == <<op>> \o ops
<1>1. /\ next \in (i + 1)..Len(run) /\ Len(run) \in Nat
      /\ \A k \in 1..Len(Operators[j]) : run[i + k] = Operators[j][k]
  <2>1. /\ i + Len(Operators[j]) \in (i + 1)..Len(run)
        /\ \A k \in 1..Len(Operators[j]) : run[i + k] = Operators[j][k]
    BY FitsInside
  <2> QED BY <2>1
<1>2. PICK p : CutsAt(p, ops, run, next)
  BY DEF CutFrom
<1>3. op \in OperatorSymbols
  BY DEF OperatorSymbols
<1> HIDE DEF op
<1>4. /\ Len(all) = Len(ops) + 1 /\ Len(ops) \in Nat
      /\ all[1] = op /\ \A k \in 1..Len(ops) : all[k + 1] = ops[k]
  BY <1>3, CharacterInFront
<1> HIDE DEF all
<1> DEFINE q == [k \in 0..Len(all) |-> IF k = 0 THEN i ELSE p[k - 1]]
<1>5. CutsAt(q, all, run, i)
  <2>1. /\ p \in [0..Len(ops) -> 0..Len(run)] /\ p[0] = next /\ p[Len(ops)] = Len(run)
        /\ \A k \in 1..Len(ops) : FitsAt(ops[k], run, p[k - 1], p[k])
    BY <1>2 DEF CutsAt
  <2>2. q \in [0..Len(all) -> 0..Len(run)]
    <3>1. \A k \in 0..Len(all) : k # 0 => k - 1 \in 0..Len(ops)
      BY <1>4
    <3> QED BY <1>1, <2>1, <3>1
  <2>3. q[0] = i /\ q[Len(all)] = Len(run)
    <3>1. 0 \in 0..Len(all) /\ Len(all) \in 0..Len(all) /\ Len(all) # 0 /\ Len(all) - 1 = Len(ops)
      BY <1>4
    <3> QED BY <2>1, <3>1
  <2>4. ASSUME NEW k \in 1..Len(all) PROVE FitsAt(all[k], run, q[k - 1], q[k])
    <3>1. CASE k = 1
      <4>1. q[0] = i /\ q[1] = next
        BY <1>4, <2>1
      <4>2. FitsAt(op, run, i, next)
        BY DEF FitsAt, op
      <4> QED BY <1>4, <3>1, <4>1, <4>2
    <3>2. CASE k # 1
      <4>1. k - 1 \in 1..Len(ops) /\ k - 1 \in 0..Len(all) /\ k \in 0..Len(all) /\ k # 0 /\ k - 1 # 0
            /\ (k - 1) + 1 = k
        BY <1>4, <3>2
      <4>2. q[k - 1] = p[(k - 1) - 1] /\ q[k] = p[k - 1] /\ all[k] = ops[k - 1]
        BY <1>4, <4>1
      <4>3. FitsAt(ops[k - 1], run, p[(k - 1) - 1], p[k - 1])
        BY <2>1, <4>1
      <4> QED BY <4>2, <4>3
    <3> QED BY <3>1, <3>2
  <2> HIDE DEF q
  <2> QED BY <2>2, <2>3, <2>4 DEF CutsAt
<1>6. ColonsPaired(run, i)
  <2> SUFFICES ASSUME NEW k \in (i + 1)..Len(run), run[k] = ":"
               PROVE  k < Len(run) /\ run[k + 1] = "="
    BY DEF ColonsPaired
  <2>1. CASE k > next
    <3>1. k \in (next + 1)..Len(run)
      BY <1>1, <2>1
    <3> QED BY <3>1 DEF ColonsPaired
  <2>2. CASE k <= next
    <3> DEFINE o == Operators[j]
    <3>1. Len(o) \in {1, 2} /\ \A m \in 1..Len(o) : o[m] = ":" => m = 1 /\ Len(o) = 2 /\ o[2] = "="
      BY OperatorTable
    <3> HIDE DEF o
    <3>2. k - i \in 1..Len(o) /\ i + (k - i) = k
      BY <1>1, <2>2, <3>1 DEF o
    <3>3. o[k - i] = ":"
      BY <1>1, <3>2 DEF o
    <3>4. k - i = 1 /\ Len(o) = 2 /\ o[2] = "="
      BY <3>1, <3>2, <3>3
    <3>5. run[i + 2] = "=" /\ i + 2 = k + 1
      <4>1. 2 \in 1..Len(o)
        BY <3>4
      <4>2. run[i + 2] = o[2]
        BY <1>1, <4>1 DEF o
      <4> QED BY <3>2, <3>4, <4>2
    <3>6. next = i + 2
      BY <3>4 DEF o
    <3> QED BY <1>1, <3>4, <3>5, <3>6
  <2> QED BY <1>1, <2>1, <2>2
<1> QED BY <1>5, <1>6 DEF CutFrom, all, op

\* A step is right when what it works on is.
LEMMA StepRight ==
  ASSUME NEW run \in Seq(OperatorCharset), NEW f, NEW i \in 0..Len(run),
         \A k \in (i + 1)..Len(run) : f[k] \in Parts /\ CutRight(run, k, f[k])
  PROVE  CutRight(run, i, SplitStep(run, f, i))
<1> DEFINE s == SubSeq(run, i + 1, Len(run))
           j == Fits(s)
<1>0. Len(run) \in Nat
  OBVIOUS
<1>1. CASE i = Len(run)
  <2> DEFINE p == [k \in 0..0 |-> i]
             none == <<>>
  <2>1. SplitStep(run, f, i) = [ops |-> none, bad |-> -1]
    BY <1>1 DEF SplitStep
  <2>2. CutsAt(p, none, run, i)
    <3>1. Len(none) = 0
      OBVIOUS
    <3> HIDE DEF none
    <3>2. p \in [0..Len(none) -> 0..Len(run)] /\ p[0] = i
      BY <1>0, <1>1, <3>1
    <3> HIDE DEF p
    <3>3. 1..Len(none) = {}
      BY <3>1
    <3> QED BY <1>1, <3>1, <3>2, <3>3 DEF CutsAt
  <2>3. ColonsPaired(run, i)
    <3>1. (i + 1)..Len(run) = {}
      BY <1>0, <1>1
    <3> QED BY <3>1 DEF ColonsPaired
  <2> HIDE DEF none, p
  <2> QED BY <2>1, <2>2, <2>3 DEF CutRight, CutFrom
<1>2. CASE i # Len(run) /\ j = 0
  <2>1. SplitStep(run, f, i) = [ops |-> <<>>, bad |-> i]
    BY <1>2 DEF SplitStep
  <2>2. /\ i \in i..(Len(run) - 1) /\ i # -1
    BY <1>0, <1>2
  <2>3. s \in Seq(OperatorCharset) /\ Len(s) = Len(run) - i /\ \A k \in 1..(Len(run) - i) : s[k] = run[i + k]
    OBVIOUS
  <2>4. Fits(s) = 0
    BY <1>2
  <2> HIDE DEF s
  <2>5. s # <<>>
    <3>1. Len(s) # 0
      BY <1>0, <1>2, <2>3
    <3> QED BY <3>1
  <2>6. s[1] = ":" /\ ~(2 <= Len(s) /\ s[2] = "=")
    BY <2>3, <2>4, <2>5, NothingFits
  <2>7. s[1] = run[i + 1]
    <3>1. 1 \in 1..(Len(run) - i)
      BY <1>0, <1>2
    <3> QED BY <2>3, <3>1
  <2>8. ASSUME i + 2 <= Len(run) PROVE s[2] = run[i + 2] /\ 2 <= Len(s)
    <3>1. 2 \in 1..(Len(run) - i)
      BY <1>0, <2>8
    <3> QED BY <2>3, <3>1
  <2>9. ColonAlone(run, i)
    BY <2>6, <2>7, <2>8 DEF ColonAlone
  <2> QED BY <2>1, <2>2, <2>9 DEF CutRight
<1>3. CASE i # Len(run) /\ j # 0
  <2> DEFINE next == i + Len(Operators[j])
             more == f[next]
             op == OperatorSymbol(j)
             ops == <<op>> \o more.ops
  <2>1. j \in 1..12 /\ i \in 0..(Len(run) - 1) /\ j = Fits(SubSeq(run, i + 1, Len(run)))
    BY <1>0, <1>3, FitsFirst
  <2>2. next \in (i + 1)..Len(run)
    BY <2>1, FitsInside
  <2>3. more \in Parts /\ CutRight(run, next, more)
    BY <2>2
  <2>4. SplitStep(run, f, i) = [more EXCEPT !.ops = ops]
    BY <1>3 DEF SplitStep
  <2>5. next = i + Len(Operators[j])
    OBVIOUS
  <2> HIDE DEF next
  <2> HIDE DEF j
  <2> HIDE DEF more
  <2>6. SplitStep(run, f, i) = [ops |-> ops, bad |-> more.bad]
    BY <2>3, <2>4 DEF Parts
  <2>7. more.bad \in Int /\ more.ops \in Seq(OperatorSymbols)
    BY <2>3 DEF Parts
  <2>8. CASE more.bad = -1
    <3>1. CutFrom(more.ops, run, next) /\ ColonsPaired(run, next)
      BY <2>3, <2>8 DEF CutRight
    <3>2. CutFrom(ops, run, i) /\ ColonsPaired(run, i)
      BY <2>1, <2>5, <2>7, <3>1, CutInFront
    <3> HIDE DEF ops
    <3> QED BY <2>6, <2>8, <3>2 DEF CutRight
  <2>9. CASE more.bad # -1
    <3>1. more.bad \in next..(Len(run) - 1) /\ ColonAlone(run, more.bad)
      BY <2>3, <2>9 DEF CutRight
    <3>2. more.bad \in i..(Len(run) - 1)
      BY <1>0, <2>2, <3>1
    <3> HIDE DEF ops
    <3> QED BY <2>6, <2>9, <3>1, <3>2 DEF CutRight
  <2> QED BY <2>8, <2>9
<1> QED BY <1>1, <1>2, <1>3

\* A run is cut into operators to its end, or to a colon that stands alone.
LEMMA SplitCuts ==
  ASSUME NEW run \in Seq(OperatorCharset)
  PROVE  Split(run) \in Parts /\ CutRight(run, 0, Split(run))
<1> DEFINE N == Len(run)
           F == CHOOSE f : f = [i \in 0..N |-> SplitStep(run, f, i)]
           step == [i \in 0..N |-> [f \in [0..N -> Parts] |-> SplitStep(run, f, i)]]
<1>1. N \in Nat
  OBVIOUS
<1>2. \A i \in 0..N : \A f \in [0..N -> Parts] : SplitStep(run, f, i) \in Parts
  <2> TAKE i \in 0..N
  <2> TAKE f \in [0..N -> Parts]
  <2>1. \A k \in (i + 1)..N : f[k] \in Parts
    BY <1>1
  <2> QED BY <2>1, StepTyped
<1>3. ASSUME NEW i \in 0..N, NEW f \in [0..N -> Parts], NEW g \in [0..N -> Parts],
             \A k \in (i + 1)..N : f[k] = g[k]
      PROVE  SplitStep(run, f, i) = SplitStep(run, g, i)
  <2> DEFINE j == Fits(SubSeq(run, i + 1, Len(run)))
  <2>1. CASE i = N \/ j = 0
    BY <2>1 DEF SplitStep
  <2>2. CASE i # N /\ j # 0
    <3>1. j \in 1..12 /\ i \in 0..(N - 1)
      BY <1>1, <2>2, FitsFirst
    <3>2. i + Len(Operators[j]) \in (i + 1)..N
      BY <3>1, FitsInside
    <3>3. f[i + Len(Operators[j])] = g[i + Len(Operators[j])]
      BY <1>3, <3>2
    <3> QED BY <2>2, <3>3 DEF SplitStep
  <2> QED BY <2>1, <2>2
<1>4. LooksAhead(step, N, Parts)
  <2>1. step \in [0..N -> [[0..N -> Parts] -> Parts]]
    BY <1>2
  <2>2. \A i \in 0..N : \A f \in [0..N -> Parts] : step[i][f] = SplitStep(run, f, i)
    OBVIOUS
  <2> HIDE DEF step, N
  <2>3. \A i \in 0..N : \A f, g \in [0..N -> Parts] :
          (\A k \in (i + 1)..N : f[k] = g[k]) => step[i][f] = step[i][g]
    <3> TAKE i \in 0..N
    <3> TAKE f, g \in [0..N -> Parts]
    <3> HAVE \A k \in (i + 1)..N : f[k] = g[k]
    <3>1. SplitStep(run, f, i) = SplitStep(run, g, i)
      BY <1>3
    <3> QED BY <2>2, <3>1
  <2> QED BY <2>1, <2>3 DEF LooksAhead
<1>5. [ops |-> <<>>, bad |-> -1] \in Parts
  <2>1. <<>> \in Seq(OperatorSymbols)
    OBVIOUS
  <2> QED BY <2>1 DEF Parts
<1>6. \E f \in [0..N -> Parts] : \A i \in 0..N : f[i] = step[i][f]
  <2> HIDE DEF step, N
  <2> QED BY ONLY <1>1, <1>4, <1>5, RecursionDownwards
<1>7. PICK h \in [0..N -> Parts] : \A i \in 0..N : h[i] = step[i][h]
  BY <1>6
<1>8. h = [i \in 0..N |-> SplitStep(run, h, i)]
  <2>1. \A i \in 0..N : h[i] = SplitStep(run, h, i)
    BY <1>7
  <2> HIDE DEF N
  <2> QED BY <2>1
<1>9. F = [i \in 0..N |-> SplitStep(run, F, i)]
  <2> HIDE DEF N
  <2> QED BY <1>8
<1>10. Split(run) = F[0]
  BY DEF Split, SplitStep
<1> HIDE DEF F, step
<1> DEFINE S == {k \in 0..N : F[k] \in Parts /\ CutRight(run, k, F[k])}
<1>11. \A i \in 0..N : F[i] = SplitStep(run, F, i)
  BY <1>9
<1>12. \A i \in 0..N : (\A k \in (i + 1)..N : k \in S) => i \in S
  <2> TAKE i \in 0..N
  <2> HAVE \A k \in (i + 1)..N : k \in S
  <2>1. \A k \in (i + 1)..N : F[k] \in Parts /\ CutRight(run, k, F[k])
    OBVIOUS
  <2>2. SplitStep(run, F, i) \in Parts
    BY <2>1, StepTyped
  <2>3. CutRight(run, i, SplitStep(run, F, i))
    BY <2>1, StepRight
  <2> QED BY <1>11, <2>2, <2>3
<1> HIDE DEF S
<1>13. \A i \in 0..N : i \in S
  <2> HIDE DEF N
  <2> QED BY ONLY <1>1, <1>12, Downwards
<1>14. 0 \in S
  BY <1>1, <1>13
<1> QED BY <1>10, <1>14 DEF S

-----------------------------------------------------------------------------
(***************************************************************************)
(* The operators of a cut, spelled one behind the other, are the run.      *)
(***************************************************************************)
LEMMA FitsBeforeEnd ==
  ASSUME NEW run \in Seq(OperatorCharset), NEW op, NEW a \in 0..Len(run), NEW b,
         FitsAt(op, run, a, b)
  PROVE  /\ a \in 0..(Len(run) - 1) /\ b \in (a + 1)..Len(run)
         /\ op.name = SubSeq(run, a + 1, b)
         /\ op.name \in Seq(OperatorCharset)
         /\ op.type = "OP"
<1> DEFINE s == SubSeq(run, a + 1, Len(run))
<1>1. PICK j \in 1..12 : op = OperatorSymbol(j) /\ j = Fits(s) /\ b = a + Len(Operators[j])
  BY DEF FitsAt
<1> DEFINE o == Operators[j]
<1>2. op.name = o /\ op.type = "OP"
  BY <1>1 DEF OperatorSymbol, construct
<1>3. o \in Seq(OperatorCharset) /\ Len(o) \in {1, 2}
  BY OperatorTable
<1>4. a # Len(run)
  <2> SUFFICES ASSUME a = Len(run) PROVE FALSE
    OBVIOUS
  <2>1. s = <<>>
    BY SubSeqEmpty
  <2>2. IsPrefix(o, s)
    <3>1. Fits(s) # 0 /\ j = Fits(s)
      BY <1>1
    <3> QED BY <3>1, FitsFirst
  <2> HIDE DEF s, o
  <2>3. o \in Seq(Chars) /\ s \in Seq(Chars) /\ Len(s) = 0
    BY <1>3, <2>1, CharsetInChars
  <2>4. Len(o) <= 0
    BY <2>2, <2>3, PrefixMeans
  <2>5. Len(o) = 1 \/ Len(o) = 2
    BY <1>3
  <2> QED BY <2>4, <2>5
<1>5. a \in 0..(Len(run) - 1)
  BY <1>4
<1>6. /\ a + Len(o) \in (a + 1)..Len(run)
      /\ \A k \in 1..Len(o) : run[a + k] = o[k]
  <2>1. j = Fits(SubSeq(run, a + 1, Len(run)))
    BY <1>1
  <2> QED BY <1>5, <2>1, FitsInside
<1>7. o = SubSeq(run, a + 1, b)
  <2> DEFINE t == SubSeq(run, a + 1, b)
  <2> HIDE DEF s, o
  <2>1. b = a + Len(o)
    BY <1>1 DEF o
  <2>2. Len(o) \in Nat
    BY <1>3
  <2>3. t \in Seq(OperatorCharset) /\ Len(t) = Len(o) /\ \A k \in 1..Len(o) : t[k] = run[a + k]
    <3>1. b \in (a + 1)..Len(run) /\ b - a = Len(o)
      BY <1>6, <2>1, <2>2
    <3> QED BY <3>1
  <2> HIDE DEF t
  <2>4. o = t
    BY <1>3, <1>6, <2>3, SeqEqual
  <2> QED BY <2>4 DEF t
<1> QED BY <1>1, <1>2, <1>3, <1>5, <1>6, <1>7

\* The names of some operators.
Spelling(ops) == [k \in DOMAIN ops |-> ops[k].name]

LEMMA FlattenCut ==
  ASSUME NEW run \in Seq(OperatorCharset), NEW i \in 0..Len(run),
         NEW ops \in Seq(OperatorSymbols), CutFrom(ops, run, i)
  PROVE  FlattenSeq(Spelling(ops)) = SubSeq(run, i + 1, Len(run))
<1> DEFINE n == Len(ops)
           names == Spelling(ops)
           R == Seq(OperatorCharset)
           Body(f, k) == IF k = 1 THEN names[k] ELSE f[k - 1] \o names[k]
           F == CHOOSE f : f = [k \in 1..Len(names) |-> Body(f, k)]
           step == [k \in 1..n |-> [f \in [1..n -> R] |-> Body(f, k)]]
<1>1. n \in Nat /\ Len(names) = n /\ \A k \in 1..n : names[k] = ops[k].name
  BY DEF Spelling
<1>2. PICK p : CutsAt(p, ops, run, i)
  BY DEF CutFrom
<1>3. p \in [0..n -> 0..Len(run)] /\ p[0] = i /\ p[n] = Len(run)
  BY <1>2 DEF CutsAt
<1>4. ASSUME NEW k \in 1..n
      PROVE  /\ k - 1 \in 0..n /\ p[k - 1] \in 0..(Len(run) - 1) /\ p[k] \in (p[k - 1] + 1)..Len(run)
             /\ names[k] = SubSeq(run, p[k - 1] + 1, p[k])
             /\ names[k] \in R
  <2>2. FitsAt(ops[k], run, p[k - 1], p[k])
    BY <1>2 DEF CutsAt
  <2> HIDE DEF n, names, R
  <2>1. k - 1 \in 0..n
    BY <1>1
  <2> DEFINE a == p[k - 1]
             b == p[k]
             op == ops[k]
  <2>3. a \in 0..Len(run) /\ FitsAt(op, run, a, b) /\ names[k] = op.name
    BY <1>1, <1>3, <2>1, <2>2
  <2> HIDE DEF a, b, op
  <2>4. /\ a \in 0..(Len(run) - 1) /\ b \in (a + 1)..Len(run)
        /\ op.name = SubSeq(run, a + 1, b) /\ op.name \in Seq(OperatorCharset)
    BY <2>3, FitsBeforeEnd
  <2> QED BY <2>1, <2>3, <2>4 DEF a, b, R
<1>5. CASE n = 0
  <2>1. FlattenSeq(names) = names
    BY <1>1, <1>5 DEF FlattenSeq
  <2>2. names = <<>>
    <3>1. DOMAIN ops = {}
      BY <1>5
    <3>2. names = [k \in {} |-> ops[k].name]
      BY <3>1 DEF Spelling
    <3> QED BY <3>2
  <2>3. SubSeq(run, i + 1, Len(run)) = <<>>
    BY <1>3, <1>5, SubSeqEmpty
  <2> QED BY <2>1, <2>2, <2>3
<1>6. CASE n # 0
  <2>1. FlattenSeq(names) = F[n]
    BY <1>1, <1>6 DEF FlattenSeq
  <2> HIDE DEF names, n, R
  <2>2. LooksBack(step, 1, n, R)
    <3>1. ASSUME NEW k \in 1..n, NEW f \in [1..n -> R] PROVE Body(f, k) \in R
      <4>1. CASE k = 1
        BY <1>4, <4>1
      <4>2. CASE k # 1
        <5>1. k - 1 \in 1..n
          BY <1>1, <4>2
        <5>2. f[k - 1] \in R /\ names[k] \in R
          BY <1>4, <5>1
        <5> QED BY <4>2, <5>2 DEF R
      <4> QED BY <4>1, <4>2
    <3>2. step \in [1..n -> [[1..n -> R] -> R]]
      BY <3>1
    <3>3. ASSUME NEW k \in 1..n, NEW f \in [1..n -> R], NEW g \in [1..n -> R],
                 \A m \in 1..(k - 1) : f[m] = g[m]
          PROVE  step[k][f] = step[k][g]
      <4>1. k # 1 => k - 1 \in 1..(k - 1)
        BY <1>1
      <4>2. Body(f, k) = Body(g, k)
        BY <3>3, <4>1
      <4> QED BY <4>2
    <3> HIDE DEF step
    <3> QED BY <3>2, <3>3 DEF LooksBack
  <2>3. \E f \in [1..n -> R] : \A k \in 1..n : f[k] = step[k][f]
    <3>1. 1 \in Nat /\ n \in Nat /\ 1 <= n /\ <<>> \in R
      BY <1>1, <1>6 DEF R
    <3> HIDE DEF step
    <3> QED BY ONLY <2>2, <3>1, RecursionUpwards
  <2>4. PICK h \in [1..n -> R] : \A k \in 1..n : h[k] = step[k][h]
    BY <2>3
  <2>5. h = [k \in 1..Len(names) |-> Body(h, k)]
    <3>1. \A k \in 1..n : h[k] = Body(h, k)
      BY <2>4
    <3> QED BY <1>1, <3>1
  <2>6. F = [k \in 1..Len(names) |-> Body(F, k)]
    BY <2>5
  <2> HIDE DEF F, step
  <2>7. \A k \in 1..n : F[k] = Body(F, k)
    BY <1>1, <2>6
  <2> DEFINE S == {k \in 1..n : F[k] = SubSeq(run, p[0] + 1, p[k]) /\ p[k] >= p[0]}
  <2>8. ASSUME NEW k \in 1..n, \A m \in 1..(k - 1) : m \in S PROVE k \in S
    <3> DEFINE a == p[0]
               b == p[k - 1]
               c == p[k]
    <3>1. /\ a \in 0..Len(run) /\ b \in 0..(Len(run) - 1) /\ c \in (b + 1)..Len(run)
          /\ names[k] = SubSeq(run, b + 1, c) /\ names[k] \in R
      BY <1>3, <1>4
    <3>2. CASE k = 1
      <4>1. F[k] = names[k] /\ a = b
        BY <2>7, <3>2
      <4> HIDE DEF a, b, c
      <4>2. c >= a
        BY <3>1, <4>1
      <4> QED BY <3>1, <4>1, <4>2 DEF a, c
    <3>3. CASE k # 1
      <4>1. k - 1 \in S
        <5>1. k - 1 \in 1..(k - 1)
          BY <1>1, <3>3
        <5> QED BY <2>8, <5>1
      <4>2. F[k] = F[k - 1] \o names[k] /\ F[k - 1] = SubSeq(run, a + 1, b) /\ b >= a
        BY <2>7, <3>3, <4>1
      <4> HIDE DEF a, b, c
      <4>3. a + 1 \in 1..(Len(run) + 1) /\ b \in ((a + 1) - 1)..Len(run) /\ c \in b..Len(run)
        BY <3>1, <4>2
      <4>4. SubSeq(run, a + 1, b) \o SubSeq(run, b + 1, c) = SubSeq(run, a + 1, c)
        BY <4>3, ConcatAdjacentSubSeq
      <4>5. F[k] = SubSeq(run, a + 1, c) /\ c >= a
        <5>1. F[k] = SubSeq(run, a + 1, c)
          BY <3>1, <4>2, <4>4
        <5>2. c >= a
          BY <3>1, <4>2
        <5> QED BY <5>1, <5>2
      <4> QED BY <4>5 DEF a, c
    <3> QED BY <3>2, <3>3
  <2>9. \A k \in 1..n : k \in S
    <3>1. 1 \in Nat /\ n \in Int /\ \A k \in 1..n : (\A m \in 1..(k - 1) : m \in S) => k \in S
      <4> HIDE DEF S
      <4> QED BY <1>1, <2>8
    <3> HIDE DEF S
    <3> QED BY ONLY <3>1, Upwards
  <2>10. n \in S
    BY <1>1, <1>6, <2>9
  <2>11. F[n] = SubSeq(run, p[0] + 1, p[n])
    BY <2>10
  <2> QED BY <1>3, <2>1, <2>11 DEF names
<1> QED BY <1>5, <1>6

\* What is left of a cut behind its first operator.
LEMMA CutTail ==
  ASSUME NEW run \in Seq(OperatorCharset), NEW i \in 0..Len(run),
         NEW ops \in Seq(OperatorSymbols), ops # <<>>,
         CutFrom(ops, run, i), ColonsPaired(run, i)
  PROVE  \E next \in (i + 1)..Len(run) :
           /\ FitsAt(Head(ops), run, i, next)
           /\ CutFrom(Tail(ops), run, next) /\ ColonsPaired(run, next)
<1>1. PICK p : CutsAt(p, ops, run, i)
  BY DEF CutFrom
<1>2. /\ p \in [0..Len(ops) -> 0..Len(run)] /\ p[0] = i /\ p[Len(ops)] = Len(run)
      /\ \A k \in 1..Len(ops) : FitsAt(ops[k], run, p[k - 1], p[k])
  BY <1>1 DEF CutsAt
<1>3. Len(ops) \in Nat /\ 1 <= Len(ops) /\ Len(run) \in Nat
  OBVIOUS
<1> DEFINE tail == Tail(ops)
           next == p[1]
           q == [k \in 0..Len(tail) |-> p[k + 1]]
<1>4. Len(tail) = Len(ops) - 1 /\ \A k \in 1..Len(tail) : tail[k] = ops[k + 1]
  BY HeadTailProperties
<1>5. FitsAt(Head(ops), run, i, next)
  <2>1. FitsAt(ops[1], run, p[1 - 1], p[1])
    BY <1>2, <1>3
  <2>2. Head(ops) = ops[1] /\ 1 - 1 = 0
    OBVIOUS
  <2> QED BY <1>2, <2>1, <2>2
<1>6. next \in (i + 1)..Len(run)
  <2> HIDE DEF next
  <2> QED BY <1>5, FitsBeforeEnd
<1> HIDE DEF tail
<1>7. CutsAt(q, tail, run, next)
  <2>1. q \in [0..Len(tail) -> 0..Len(run)]
    BY <1>2, <1>3, <1>4
  <2>2. q[0] = next /\ q[Len(tail)] = Len(run)
    BY <1>2, <1>3, <1>4
  <2>3. ASSUME NEW k \in 1..Len(tail) PROVE FitsAt(tail[k], run, q[k - 1], q[k])
    <3>1. k + 1 \in 1..Len(ops) /\ (k + 1) - 1 = k /\ k - 1 \in 0..Len(tail) /\ k \in 0..Len(tail)
          /\ (k - 1) + 1 = k
      BY <1>3, <1>4
    <3>2. FitsAt(ops[k + 1], run, p[k], p[k + 1])
      BY <1>2, <3>1
    <3>3. q[k - 1] = p[k] /\ q[k] = p[k + 1]
      BY <3>1
    <3> HIDE DEF q
    <3> QED BY <1>4, <3>2, <3>3
  <2> HIDE DEF q
  <2> QED BY <2>1, <2>2, <2>3 DEF CutsAt
<1>8. ColonsPaired(run, next)
  <2> HIDE DEF next
  <2>1. \A k \in (next + 1)..Len(run) : k \in (i + 1)..Len(run)
    BY <1>3, <1>6
  <2> QED BY <2>1 DEF ColonsPaired
<1> HIDE DEF q, next
<1> QED BY <1>5, <1>6, <1>7, <1>8 DEF CutFrom, tail
-----------------------------------------------------------------------------
(***************************************************************************)
(* The longest run of the rest: Run of Tokens, of any sequence.            *)
(***************************************************************************)
LongestRun(r, C) ==
  LET fits(n) == \A i \in 1..n : r[i] \in C
  IN  SubSeq(r, 1, CHOOSE n \in 0..Len(r) : fits(n) /\ (n = Len(r) \/ ~fits(n + 1)))

\* Nothing that goes on with a character of C.
EndsThere(u, C) == u = <<>> \/ u[1] \notin C

LEMMA ConcatParts ==
  \A s, u \in Seq(Chars) :
    /\ s \o u \in Seq(Chars) /\ Len(s \o u) = Len(s) + Len(u)
    /\ \A k \in 1..Len(s) : (s \o u)[k] = s[k]
    /\ \A k \in 1..Len(u) : (s \o u)[Len(s) + k] = u[k]
    /\ SubSeq(s \o u, 1, Len(s)) = s
    /\ SubSeq(s \o u, Len(s) + 1, Len(s \o u)) = u
<1> TAKE s, u \in Seq(Chars)
<1> DEFINE r == s \o u
<1>1. /\ r \in Seq(Chars) /\ Len(r) = Len(s) + Len(u)
      /\ \A k \in 1..(Len(s) + Len(u)) : r[k] = IF k <= Len(s) THEN s[k] ELSE u[k - Len(s)]
  BY ConcatProperties
<1> HIDE DEF r
<1>2. Len(s) \in Nat /\ Len(u) \in Nat
  OBVIOUS
<1>3. \A k \in 1..Len(s) : r[k] = s[k]
  BY <1>1, <1>2
<1>4. \A k \in 1..Len(u) : r[Len(s) + k] = u[k]
  <2>1. \A k \in 1..Len(u) : Len(s) + k \in 1..(Len(s) + Len(u)) /\ ~(Len(s) + k <= Len(s)) /\ (Len(s) + k) - Len(s) = k
    BY <1>2
  <2> QED BY <1>1, <2>1
<1>5. SubSeq(r, 1, Len(s)) = s
  <2> DEFINE t == SubSeq(r, 1, Len(s))
  <2>1. t \in Seq(Chars) /\ Len(t) = Len(s) /\ \A k \in 1..Len(s) : t[k] = r[k]
    BY <1>1, <1>2
  <2> HIDE DEF t
  <2>2. t = s
    BY <1>3, <2>1, SeqEqual
  <2> QED BY <2>2 DEF t
<1>6. SubSeq(r, Len(s) + 1, Len(r)) = u
  <2> DEFINE t == SubSeq(r, Len(s) + 1, Len(r))
  <2>1. t \in Seq(Chars) /\ Len(t) = Len(u) /\ \A k \in 1..Len(u) : t[k] = r[Len(s) + k]
    BY <1>1, <1>2
  <2> HIDE DEF t
  <2>2. t = u
    BY <1>4, <2>1, SeqEqual
  <2> QED BY <2>2 DEF t
<1> QED BY <1>1, <1>3, <1>4, <1>5, <1>6 DEF r

LEMMA RunIs ==
  \A s, u \in Seq(Chars) : \A C :
    (\A k \in 1..Len(s) : s[k] \in C) /\ EndsThere(u, C) => LongestRun(s \o u, C) = s
<1> TAKE s, u \in Seq(Chars)
<1> TAKE C
<1> HAVE (\A k \in 1..Len(s) : s[k] \in C) /\ EndsThere(u, C)
<1> DEFINE r == s \o u
           fits(n) == \A i \in 1..n : r[i] \in C
           last(n) == fits(n) /\ (n = Len(r) \/ ~fits(n + 1))
<1>1. /\ Len(r) = Len(s) + Len(u) /\ Len(s) \in Nat /\ Len(u) \in Nat
      /\ \A k \in 1..Len(s) : r[k] = s[k]
      /\ \A k \in 1..Len(u) : r[Len(s) + k] = u[k]
      /\ SubSeq(r, 1, Len(s)) = s
  BY ConcatParts
<1> HIDE DEF r
<1>2. fits(Len(s))
  BY <1>1
<1>3. ASSUME Len(u) # 0 PROVE r[Len(s) + 1] \notin C
  <2>1. u # <<>> /\ 1 \in 1..Len(u)
    BY <1>1, <1>3
  <2> QED BY <1>1, <2>1 DEF EndsThere
<1>4. last(Len(s))
  <2>1. CASE Len(u) = 0
    BY <1>1, <1>2, <2>1
  <2>2. CASE Len(u) # 0
    <3>1. Len(s) + 1 \in 1..(Len(s) + 1)
      BY <1>1
    <3> QED BY <1>2, <1>3, <2>2, <3>1
  <2> QED BY <2>1, <2>2
<1>5. ASSUME NEW n \in 0..Len(r), last(n) PROVE n = Len(s)
  <2>1. CASE n < Len(s)
    <3>1. \A i \in 1..(n + 1) : i \in 1..Len(s)
      BY <1>1, <2>1
    <3>2. fits(n + 1)
      BY <1>1, <3>1
    <3>3. n # Len(r)
      BY <1>1, <2>1
    <3> QED BY <1>5, <3>2, <3>3
  <2>2. CASE n > Len(s)
    <3>1. Len(s) + 1 \in 1..n /\ Len(u) # 0
      BY <1>1, <2>2
    <3> QED BY <1>3, <1>5, <3>1
  <2>3. n \in Nat /\ Len(s) \in Nat
    BY <1>1
  <2>4. \A a, b \in Nat : a < b \/ a > b \/ a = b
    OBVIOUS
  <2> QED BY ONLY <2>1, <2>2, <2>3, <2>4
<1>6. Len(s) \in 0..Len(r)
  BY <1>1
<1> HIDE DEF fits
<1>7. (CHOOSE n \in 0..Len(r) : last(n)) = Len(s)
  BY <1>4, <1>5, <1>6
<1>8. LongestRun(r, C) = SubSeq(r, 1, CHOOSE n \in 0..Len(r) : last(n))
  BY DEF LongestRun, fits
<1> QED BY <1>1, <1>7, <1>8 DEF r

-----------------------------------------------------------------------------
(***************************************************************************)
(* Delivering an operator, the first of a cut of the run that is left: it  *)
(* is the longest that the rest begins with.                               *)
(***************************************************************************)
LEMMA OperatorOrder ==
  /\ \A j \in 1..4 : Len(Operators[j]) = 2
  /\ \A j \in 5..12 : Len(Operators[j]) = 1
<1>1. ASSUME NEW j \in 1..4 PROVE Len(Operators[j]) = 2
  <2>1. j = 1 \/ j = 2 \/ j = 3 \/ j = 4
    OBVIOUS
  <2>2. \E a, b : Operators[j] = <<a, b>>
    BY <2>1, OperatorRows
  <2> QED BY <2>2
<1>2. ASSUME NEW j \in 5..12 PROVE Len(Operators[j]) = 1
  <2>1. j = 5 \/ j = 6 \/ j = 7 \/ j = 8 \/ j = 9 \/ j = 10 \/ j = 11 \/ j = 12
    OBVIOUS
  <2>2. \E a : Operators[j] = <<a>>
    BY <2>1, OperatorRows
  <2> QED BY <2>2
<1> QED BY <1>1, <1>2

\* An operator never begins in a run and ends behind it.
LEMMA PrefixOfRun ==
  ASSUME NEW w \in Seq(OperatorCharset), NEW u \in Seq(Chars), EndsThere(u, OperatorCharset),
         NEW j \in 1..12
  PROVE  IsPrefix(Operators[j], w \o u) <=> IsPrefix(Operators[j], w)
<1> DEFINE o == Operators[j]
           r == w \o u
<1>1. o \in Seq(OperatorCharset) /\ o \in Seq(Chars) /\ w \in Seq(Chars)
  BY OperatorTable, CharsetInChars
<1>2. /\ r \in Seq(Chars) /\ Len(r) = Len(w) + Len(u) /\ Len(w) \in Nat /\ Len(u) \in Nat
      /\ \A k \in 1..Len(w) : r[k] = w[k]
      /\ \A k \in 1..Len(u) : r[Len(w) + k] = u[k]
  <2>1. w \in Seq(Chars) /\ u \in Seq(Chars)
    BY <1>1
  <2> QED BY <2>1, ConcatParts
<1> HIDE DEF o, r
<1>3. Len(o) \in Nat /\ \A k \in 1..Len(o) : o[k] \in OperatorCharset
  BY <1>1
<1>4. ASSUME Len(o) <= Len(r), \A k \in 1..Len(o) : o[k] = r[k]
      PROVE  Len(o) <= Len(w)
  <2> SUFFICES ASSUME ~(Len(o) <= Len(w)) PROVE FALSE
    OBVIOUS
  <2>1. Len(u) # 0 /\ Len(w) + 1 \in 1..Len(o)
    BY <1>2, <1>3, <1>4
  <2>2. 1 \in 1..Len(u) /\ u # <<>>
    BY <1>2, <2>1
  <2>3. r[Len(w) + 1] = u[1] /\ u[1] \notin OperatorCharset
    BY <1>2, <2>2 DEF EndsThere
  <2> QED BY <1>3, <1>4, <2>1, <2>3
<1>5. (Len(o) <= Len(r) /\ \A k \in 1..Len(o) : o[k] = r[k])
        <=> (Len(o) <= Len(w) /\ \A k \in 1..Len(o) : o[k] = w[k])
  <2>1. Len(o) <= Len(w) => \A k \in 1..Len(o) : r[k] = w[k]
    BY <1>2, <1>3
  <2>2. Len(o) <= Len(w) => Len(o) <= Len(r)
    BY <1>2, <1>3
  <2> QED BY <1>4, <2>1, <2>2
<1>6. IsPrefix(o, r) <=> IsPrefix(o, w)
  BY <1>1, <1>2, <1>5, PrefixMeans
<1> QED BY <1>6 DEF o, r

\* Bad of Tokens.
BadRun(run) ==
  \E i \in DOMAIN run : run[i] = ":" /\ ~(i < Len(run) /\ run[i + 1] = "=")

\* op is the longest operator that rest begins with, and left what follows.
OperatorNext(rest, op, left) ==
  /\ rest \in Seq(Chars) /\ rest # <<>> /\ Head(rest) \in OperatorCharset
  /\ ~BadRun(LongestRun(rest, OperatorCharset))
  /\ \E j \in DOMAIN Operators :
       /\ op = OperatorSymbol(j)
       /\ IsPrefix(Operators[j], rest)
       /\ \A k \in DOMAIN Operators :
            IsPrefix(Operators[k], rest) => Len(Operators[k]) <= Len(Operators[j])
       /\ SubSeq(rest, Len(Operators[j]) + 1, Len(rest)) = left

LEMMA LongestOperator ==
  ASSUME NEW run \in Seq(OperatorCharset), NEW i \in 0..Len(run), NEW op, NEW next,
         FitsAt(op, run, i, next), ColonsPaired(run, i),
         NEW u \in Seq(Chars), EndsThere(u, OperatorCharset)
  PROVE  OperatorNext(SubSeq(run, i + 1, Len(run)) \o u, op,
                      SubSeq(run, next + 1, Len(run)) \o u)
<1> DEFINE w == SubSeq(run, i + 1, Len(run))
           rest == w \o u
<1>1. PICK j \in 1..12 : op = OperatorSymbol(j) /\ j = Fits(w) /\ next = i + Len(Operators[j])
  BY DEF FitsAt
<1>2. i \in 0..(Len(run) - 1) /\ next \in (i + 1)..Len(run) /\ i \in Nat /\ Len(run) \in Nat
  <2>1. i \in 0..(Len(run) - 1) /\ next \in (i + 1)..Len(run)
    BY FitsBeforeEnd
  <2> QED BY <2>1
<1>3. w \in Seq(OperatorCharset) /\ Len(w) = Len(run) - i /\ \A k \in 1..Len(w) : w[k] = run[i + k]
  BY <1>2
<1>4. w \in Seq(Chars)
  <2> HIDE DEF w
  <2> QED BY <1>3, CharsetInChars
<1>5. /\ rest \in Seq(Chars) /\ Len(rest) = Len(w) + Len(u)
      /\ \A k \in 1..Len(w) : rest[k] = w[k]
      /\ \A k \in 1..Len(u) : rest[Len(w) + k] = u[k]
  <2> HIDE DEF w
  <2> QED BY <1>4, ConcatParts
<1>6. rest # <<>> /\ Head(rest) \in OperatorCharset
  <2> HIDE DEF rest, w
  <2>1. 1 \in 1..Len(w) /\ Len(rest) # 0
    BY <1>2, <1>3, <1>5
  <2>2. rest[1] \in OperatorCharset /\ rest # <<>>
    BY <1>3, <1>5, <2>1
  <2>3. Head(rest) = rest[1]
    BY <1>5, <2>2
  <2> QED BY <2>2, <2>3
<1>7. LongestRun(rest, OperatorCharset) = w
  <2> HIDE DEF w
  <2>1. \A k \in 1..Len(w) : w[k] \in OperatorCharset
    BY <1>3
  <2> QED BY <1>4, <2>1, RunIs
<1>8. ~BadRun(w)
  <2> HIDE DEF w
  <2>1. DOMAIN w = 1..Len(w)
    BY <1>3
  <2>2. ASSUME NEW k \in 1..Len(w), w[k] = ":" PROVE k < Len(w) /\ w[k + 1] = "="
    <3>1. i + k \in (i + 1)..Len(run) /\ run[i + k] = ":"
      BY <1>2, <1>3, <2>2
    <3>2. i + k < Len(run) /\ run[(i + k) + 1] = "="
      BY <3>1 DEF ColonsPaired
    <3>3. k + 1 \in 1..Len(w) /\ (i + k) + 1 = i + (k + 1) /\ k < Len(w)
      BY <1>2, <1>3, <3>2
    <3> QED BY <1>3, <3>2, <3>3
  <2> QED BY <2>1, <2>2 DEF BadRun
<1>9. IsPrefix(Operators[j], w) /\ \A k \in 1..12 : IsPrefix(Operators[k], w) => j <= k
  <2>1. Fits(w) # 0 /\ j = Fits(w)
    BY <1>1
  <2> HIDE DEF w
  <2> QED BY <2>1, FitsFirst, SMTT(30)
<1>10. \A k \in 1..12 : IsPrefix(Operators[k], rest) <=> IsPrefix(Operators[k], w)
  <2> HIDE DEF w
  <2> QED BY <1>3, PrefixOfRun
<1>11. \A k \in 1..12 : IsPrefix(Operators[k], rest) => Len(Operators[k]) <= Len(Operators[j])
  <2>1. \A k \in 1..12 : j <= k => Len(Operators[k]) <= Len(Operators[j])
    <3> TAKE k \in 1..12
    <3> HAVE j <= k
    <3>1. CASE j \in 1..4
      <4>1. k \in 1..4 \/ k \in 5..12
        OBVIOUS
      <4>2. Len(Operators[j]) = 2 /\ (Len(Operators[k]) = 2 \/ Len(Operators[k]) = 1)
        BY <3>1, <4>1, OperatorOrder
      <4>3. \A x, y : x = 2 /\ (y = 2 \/ y = 1) => y <= x
        OBVIOUS
      <4> QED BY ONLY <4>2, <4>3
    <3>2. CASE j \in 5..12
      <4>1. k \in 5..12
        BY <3>2
      <4>2. Len(Operators[j]) = 1 /\ Len(Operators[k]) = 1
        BY <3>2, <4>1, OperatorOrder
      <4> QED BY <4>2
    <3> QED BY <3>1, <3>2
  <2> HIDE DEF rest, w
  <2> QED BY <1>9, <1>10, <2>1
<1>12. SubSeq(rest, Len(Operators[j]) + 1, Len(rest)) = SubSeq(run, next + 1, Len(run)) \o u
  <2> DEFINE n == Len(Operators[j])
             a == SubSeq(run, i + 1, next)
             b == SubSeq(run, next + 1, Len(run))
  <2>1. n = next - i /\ n \in Nat
    <3>1. n = 1 \/ n = 2
      BY OperatorTable
    <3>2. n \in Nat
      BY <3>1
    <3> HIDE DEF n
    <3>3. next = i + n
      BY <1>1 DEF n
    <3> QED BY <1>2, <3>2, <3>3
  <2>2. a \in Seq(OperatorCharset) /\ Len(a) = next - i /\ b \in Seq(OperatorCharset)
    BY <1>2
  <2>3. a \o b = w
    <3>1. i + 1 \in 1..(Len(run) + 1) /\ next \in ((i + 1) - 1)..Len(run) /\ Len(run) \in next..Len(run)
      BY <1>2
    <3> HIDE DEF w
    <3>2. SubSeq(run, i + 1, next) \o SubSeq(run, next + 1, Len(run)) = SubSeq(run, i + 1, Len(run))
      BY <3>1, ConcatAdjacentSubSeq
    <3> QED BY <3>2 DEF w
  <2> HIDE DEF w, a, b, n
  <2>4. a \in Seq(Chars) /\ b \in Seq(Chars)
    BY <2>2, CharsetInChars
  <2>5. rest = a \o (b \o u)
    <3>1. (a \o b) \o u = a \o (b \o u)
      BY <2>4, ConcatAssociative
    <3>2. (a \o b) \o u = w \o u
      BY ONLY <2>3, Zenon
    <3>3. rest = w \o u
      BY Zenon
    <3> QED BY ONLY <3>1, <3>2, <3>3, Zenon
  <2>6. b \o u \in Seq(Chars)
    BY <2>4
  <2> DEFINE v == b \o u
  <2> HIDE DEF v, rest
  <2>7. rest = a \o v /\ v \in Seq(Chars) /\ Len(a) = n
    BY <2>1, <2>2, <2>5, <2>6 DEF v
  <2>8. SubSeq(rest, n + 1, Len(rest)) = v
    BY <2>4, <2>7, ConcatParts
  <2> QED BY <2>8 DEF n, v, b
<1> HIDE DEF rest
<1>13. DOMAIN Operators = 1..12
  BY OperatorRows
<1> DEFINE left == SubSeq(run, next + 1, Len(run)) \o u
<1>14. SubSeq(rest, Len(Operators[j]) + 1, Len(rest)) = left
  BY <1>12
<1> HIDE DEF left, w
<1>15. /\ ~BadRun(LongestRun(rest, OperatorCharset)) /\ IsPrefix(Operators[j], rest)
       /\ op = OperatorSymbol(j) /\ j \in DOMAIN Operators
  BY <1>1, <1>7, <1>8, <1>9, <1>10, <1>13
<1>16. OperatorNext(rest, op, left)
  BY <1>5, <1>6, <1>11, <1>13, <1>14, <1>15 DEF OperatorNext
<1> QED BY <1>16 DEF rest, left, w

-----------------------------------------------------------------------------
(***************************************************************************)
(* The tree of keywords: the first n of them have their type, and nothing  *)
(* else has one.                                                           *)
(***************************************************************************)
Entry(node, n) ==
  IF \E k \in 1..n : Keywords[k] = node
  THEN [type |-> Type_Keyword, subtype |-> (CHOOSE k \in 1..n : Keywords[k] = node) - 1]
  ELSE Untyped

Dictionary(tree, n) ==
  /\ \A node \in DOMAIN tree : tree[node] = Entry(node, n)
  /\ \A k \in 1..n : Keywords[k] \in DOMAIN tree

LEMMA KeywordFacts ==
  /\ Len(Keywords) \in Nat /\ DOMAIN Keywords = 1..Len(Keywords)
  /\ \A k \in 1..Len(Keywords) : Keywords[k] \in Seq(STRING) /\ Path(Keywords[k]) = Keywords[k]
  /\ \A k, m \in 1..Len(Keywords) : Keywords[k] = Keywords[m] => k = m
BY KeywordsAssumption

\* The entry of the keyword k.
LEMMA EntryIs ==
  ASSUME NEW n \in 0..Len(Keywords)
  PROVE  /\ \A k \in 1..n : Entry(Keywords[k], n) = [type |-> Type_Keyword, subtype |-> k - 1]
         /\ \A node : (\A k \in 1..n : Keywords[k] # node) => Entry(node, n) = Untyped
<1>1. \A k \in 1..n : k \in 1..Len(Keywords)
  BY KeywordFacts
<1>2. ASSUME NEW k \in 1..n
      PROVE  Entry(Keywords[k], n) = [type |-> Type_Keyword, subtype |-> k - 1]
  <2>1. (CHOOSE m \in 1..n : Keywords[m] = Keywords[k]) = k
    <3>1. \A m \in 1..n : Keywords[m] = Keywords[k] => m = k
      BY <1>1, KeywordFacts
    <3> QED BY <3>1
  <2> QED BY <2>1 DEF Entry
<1>3. \A node : (\A k \in 1..n : Keywords[k] # node) => Entry(node, n) = Untyped
  BY DEF Entry
<1> QED BY <1>2, <1>3

\* A lookup gives no node a type, and ends at one.
LEMMA MatchKeeps ==
  ASSUME NEW tree, NEW n \in 0..Len(Keywords), Dictionary(tree, n), NEW name
  PROVE  Dictionary(match(tree, name), n) /\ Path(name) \in DOMAIN match(tree, name)
<1> DEFINE onTheWay == {SubSeq(Path(name), 1, m) : m \in 0..(Len(Path(name)) - 1)}
           nodes == onTheWay \cup {Path(name)} \cup DOMAIN tree
           grown == [node \in nodes |-> IF node \in DOMAIN tree THEN tree[node] ELSE Untyped]
<1>1. match(tree, name) = grown
  BY DEF match
<1>2. Path(name) \in nodes /\ DOMAIN tree \subseteq nodes
  OBVIOUS
<1> HIDE DEF nodes
<1>3. DOMAIN grown = nodes
  OBVIOUS
<1>4. ASSUME NEW node \in nodes PROVE grown[node] = Entry(node, n)
  <2>1. CASE node \in DOMAIN tree
    BY <2>1 DEF Dictionary
  <2>2. CASE node \notin DOMAIN tree
    <3>1. \A k \in 1..n : Keywords[k] # node
      BY <2>2 DEF Dictionary
    <3>2. Entry(node, n) = Untyped
      BY <3>1, EntryIs
    <3> QED BY <2>2, <3>2
  <2> QED BY <2>1, <2>2
<1> HIDE DEF grown
<1> QED BY <1>1, <1>2, <1>3, <1>4 DEF Dictionary

\* Inserting a keyword gives it its type.
LEMMA InsertAdds ==
  ASSUME NEW k \in 1..Len(Keywords), NEW tree, Dictionary(tree, k - 1)
  PROVE  Dictionary(insert(tree, Keywords[k], Type_Keyword, k - 1), k)
<1> DEFINE node == Keywords[k]
           grown == match(tree, node)
           entry == [type |-> Type_Keyword, subtype |-> k - 1]
<1>1. Len(Keywords) \in Nat /\ Path(node) = node
  BY KeywordFacts
<1>2. k - 1 \in 0..Len(Keywords) /\ k \in 0..Len(Keywords)
  BY <1>1
<1>3. Dictionary(grown, k - 1) /\ node \in DOMAIN grown
  <2> HIDE DEF node
  <2> QED BY <1>1, <1>2, MatchKeeps
<1> HIDE DEF grown
<1>4. \A m \in 1..(k - 1) : m \in 1..Len(Keywords) /\ m # k /\ m \in 1..k
  BY <1>1
<1>5. grown[node] = Untyped
  <2>1. \A m \in 1..(k - 1) : Keywords[m] # node
    BY <1>4, KeywordFacts
  <2> HIDE DEF node
  <2>2. Entry(node, k - 1) = Untyped
    BY <1>2, <2>1, EntryIs
  <2> QED BY <1>3, <2>2 DEF Dictionary
<1>6. insert(tree, node, Type_Keyword, k - 1) = [grown EXCEPT ![node] = entry]
  <2>1. grown[node].type = Type_None
    BY <1>5 DEF Untyped
  <2> QED BY <1>1, <2>1 DEF insert, grown
<1> DEFINE new == [grown EXCEPT ![node] = entry]
<1>7. DOMAIN new = DOMAIN grown
  OBVIOUS
<1>8. ASSUME NEW x \in DOMAIN grown PROVE new[x] = Entry(x, k)
  <2>1. CASE x = node
    <3>1. new[x] = entry
      BY <2>1
    <3>2. Entry(node, k) = entry
      <4>1. k \in 1..k
        OBVIOUS
      <4> QED BY <1>2, <4>1, EntryIs
    <3> QED BY <2>1, <3>1, <3>2
  <2>2. CASE x # node
    <3>1. new[x] = Entry(x, k - 1)
      BY <1>3, <2>2 DEF Dictionary
    <3>2. CASE \E m \in 1..(k - 1) : Keywords[m] = x
      <4>1. PICK m \in 1..(k - 1) : Keywords[m] = x
        BY <3>2
      <4>2. m \in 1..k
        BY <1>4
      <4>3. Entry(x, k - 1) = [type |-> Type_Keyword, subtype |-> m - 1]
        BY <1>2, <4>1, EntryIs
      <4>4. Entry(x, k) = [type |-> Type_Keyword, subtype |-> m - 1]
        BY <1>2, <4>1, <4>2, EntryIs
      <4> QED BY <3>1, <4>3, <4>4
    <3>3. CASE \A m \in 1..(k - 1) : Keywords[m] # x
      <4>1. \A m \in 1..k : m \in 1..(k - 1) \/ m = k
        OBVIOUS
      <4>2. \A m \in 1..k : Keywords[m] # x
        BY <2>2, <3>3, <4>1
      <4>3. Entry(x, k - 1) = Untyped /\ Entry(x, k) = Untyped
        BY <1>2, <3>3, <4>2, EntryIs
      <4> QED BY <3>1, <4>3
    <3> QED BY <3>2, <3>3
  <2> QED BY <2>1, <2>2
<1>9. \A m \in 1..k : Keywords[m] \in DOMAIN grown
  <2>1. \A m \in 1..k : m \in 1..(k - 1) \/ m = k
    OBVIOUS
  <2> QED BY <1>3, <2>1 DEF Dictionary
<1>10. Dictionary(new, k)
  <2> HIDE DEF new
  <2> QED BY <1>7, <1>8, <1>9 DEF Dictionary
<1> QED BY <1>6, <1>10

\* The trees whose nodes are paths of characters.
NodeTypes == [type : {Type_None, Type_Keyword}, subtype : Int]
Trees == UNION {[D -> NodeTypes] : D \in SUBSET Seq(STRING)}

LEMMA InsertTyped ==
  ASSUME NEW tree \in Trees, NEW k \in 1..Len(Keywords)
  PROVE  insert(tree, Keywords[k], Type_Keyword, k - 1) \in Trees
<1> DEFINE name == Keywords[k]
           onTheWay == {SubSeq(Path(name), 1, m) : m \in 0..(Len(Path(name)) - 1)}
           nodes == onTheWay \cup {Path(name)} \cup DOMAIN tree
           grown == [node \in nodes |-> IF node \in DOMAIN tree THEN tree[node] ELSE Untyped]
           entry == [type |-> Type_Keyword, subtype |-> k - 1]
<1>1. name \in Seq(STRING) /\ Path(name) = name
  BY KeywordFacts
<1>2. match(tree, name) = grown
  BY DEF match
<1>3. PICK D \in SUBSET Seq(STRING) : tree \in [D -> NodeTypes]
  BY DEF Trees
<1>4. nodes \in SUBSET Seq(STRING)
  <2> HIDE DEF name
  <2>1. \A m \in 0..(Len(name) - 1) : SubSeq(name, 1, m) \in Seq(STRING)
    BY <1>1
  <2>2. onTheWay \subseteq Seq(STRING)
    BY <1>1, <2>1
  <2> HIDE DEF onTheWay
  <2> QED BY <1>1, <1>3, <2>2
<1>5. Untyped \in NodeTypes /\ entry \in NodeTypes
  BY DEF Untyped, NodeTypes
<1> HIDE DEF nodes, entry
<1>6. grown \in [nodes -> NodeTypes]
  BY <1>3, <1>5
<1> HIDE DEF grown
<1>7. [grown EXCEPT ![Path(name)] = entry] \in [nodes -> NodeTypes]
  BY <1>5, <1>6
<1>8. \/ insert(tree, name, Type_Keyword, k - 1) = grown
      \/ insert(tree, name, Type_Keyword, k - 1) = [grown EXCEPT ![Path(name)] = entry]
  BY <1>2 DEF insert, entry
<1>9. insert(tree, name, Type_Keyword, k - 1) \in [nodes -> NodeTypes]
  BY <1>6, <1>7, <1>8
<1> QED BY <1>4, <1>9 DEF Trees

\* The constructor inserts them all.
LEMMA TreeBuilt == Dictionary(KeywordTree, Len(Keywords))
<1> DEFINE N == Len(Keywords)
           Body(f, k) == IF k = 0 THEN Root ELSE insert(f[k - 1], Keywords[k], Type_Keyword, k - 1)
           F == CHOOSE f : f = [k \in 0..N |-> Body(f, k)]
           step == [k \in 0..N |-> [f \in [0..N -> Trees] |-> Body(f, k)]]
<1>1. N \in Nat
  BY KeywordFacts
<1>2. Root \in Trees
  <2>1. {<<>>} \in SUBSET Seq(STRING)
    OBVIOUS
  <2>2. Root \in [{<<>>} -> NodeTypes]
    BY DEF Root, Untyped, NodeTypes
  <2> QED BY <2>1, <2>2 DEF Trees
<1>3. ASSUME NEW k \in 0..N, NEW f \in [0..N -> Trees] PROVE Body(f, k) \in Trees
  <2>1. CASE k = 0
    BY <1>2, <2>1
  <2>2. CASE k # 0
    <3>1. k \in 1..N /\ k - 1 \in 0..N
      BY <1>1, <2>2
    <3>2. f[k - 1] \in Trees
      BY <3>1
    <3>3. insert(f[k - 1], Keywords[k], Type_Keyword, k - 1) \in Trees
      BY <3>1, <3>2, InsertTyped
    <3> QED BY <2>2, <3>3
  <2> QED BY <2>1, <2>2
<1>4. ASSUME NEW k \in 0..N, NEW f \in [0..N -> Trees], NEW g \in [0..N -> Trees],
             \A m \in 0..(k - 1) : f[m] = g[m]
      PROVE  Body(f, k) = Body(g, k)
  <2>1. k # 0 => k - 1 \in 0..(k - 1)
    BY <1>1
  <2> QED BY <1>4, <2>1
<1>5. LooksBack(step, 0, N, Trees)
  <2> HIDE DEF N, Body
  <2>1. step \in [0..N -> [[0..N -> Trees] -> Trees]]
    BY <1>3
  <2>2. \A k \in 0..N : \A f \in [0..N -> Trees] : step[k][f] = Body(f, k)
    OBVIOUS
  <2> HIDE DEF step
  <2>3. \A k \in 0..N : \A f, g \in [0..N -> Trees] :
          (\A m \in 0..(k - 1) : f[m] = g[m]) => step[k][f] = step[k][g]
    <3> TAKE k \in 0..N
    <3> TAKE f, g \in [0..N -> Trees]
    <3> HAVE \A m \in 0..(k - 1) : f[m] = g[m]
    <3>1. Body(f, k) = Body(g, k)
      BY <1>4
    <3> QED BY <2>2, <3>1
  <2> QED BY <2>1, <2>3 DEF LooksBack
<1>6. \E f \in [0..N -> Trees] : \A k \in 0..N : f[k] = step[k][f]
  <2>1. 0 \in Nat /\ N \in Nat /\ 0 <= N
    BY <1>1
  <2> HIDE DEF step, N
  <2> QED BY ONLY <1>2, <1>5, <2>1, RecursionUpwards
<1>7. PICK h \in [0..N -> Trees] : \A k \in 0..N : h[k] = step[k][h]
  BY <1>6
<1>8. F = [k \in 0..N |-> Body(F, k)]
  <2> HIDE DEF N, Body
  <2>1. h = [k \in 0..N |-> Body(h, k)]
    BY <1>7
  <2> QED BY <2>1
<1>9. KeywordTree = F[N]
  BY DEF KeywordTree
<1> HIDE DEF F, step
<1> DEFINE S == {k \in 0..N : Dictionary(F[k], k)}
<1>10. ASSUME NEW k \in 0..N, \A m \in 0..(k - 1) : m \in S PROVE k \in S
  <2>1. CASE k = 0
    <3>1. F[k] = Root
      BY <1>8, <2>1
    <3>2. Dictionary(Root, 0)
      <4>1. \A node : Entry(node, 0) = Untyped
        BY DEF Entry
      <4> QED BY <4>1 DEF Dictionary, Root
    <3> QED BY <2>1, <3>1, <3>2
  <2>2. CASE k # 0
    <3>1. k \in 1..N /\ k - 1 \in 0..(k - 1)
      BY <1>1, <2>2
    <3>2. Dictionary(F[k - 1], k - 1)
      BY <1>10, <3>1
    <3>3. F[k] = insert(F[k - 1], Keywords[k], Type_Keyword, k - 1)
      BY <1>8, <2>2
    <3>4. Dictionary(F[k], k)
      BY <3>1, <3>2, <3>3, InsertAdds
    <3> QED BY <3>4
  <2> QED BY <2>1, <2>2
<1>11. \A k \in 0..N : k \in S
  <2>1. 0 \in Nat /\ N \in Int /\ \A k \in 0..N : (\A m \in 0..(k - 1) : m \in S) => k \in S
    <3> HIDE DEF S
    <3> QED BY <1>1, <1>10
  <2> HIDE DEF S, N
  <2> QED BY ONLY <2>1, Upwards
<1>12. N \in S
  BY <1>1, <1>11
<1> QED BY <1>9, <1>12

-----------------------------------------------------------------------------
(***************************************************************************)
(* The kinds of characters.                                                *)
(***************************************************************************)
LEMMA DigitSet == Range(Digits) = {"0", "1", "2", "3", "4", "5", "6", "7", "8", "9"}
<1>1. DOMAIN Digits = 1..10
  BY DEF Digits
<1>2. Range(Digits) = {Digits[i] : i \in 1..10}
  BY <1>1 DEF Range
<1>3. \A i \in 1..10 : i = 1 \/ i = 2 \/ i = 3 \/ i = 4 \/ i = 5 \/ i = 6 \/ i = 7 \/ i = 8 \/ i = 9 \/ i = 10
  OBVIOUS
<1>4. /\ Digits[1] = "0" /\ Digits[2] = "1" /\ Digits[3] = "2" /\ Digits[4] = "3" /\ Digits[5] = "4"
      /\ Digits[6] = "5" /\ Digits[7] = "6" /\ Digits[8] = "7" /\ Digits[9] = "8" /\ Digits[10] = "9"
  BY DEF Digits
<1> QED BY <1>2, <1>3, <1>4

\* The state a character leads to says what it is.
LEMMA StateOfMeans ==
  \A ch :
    /\ StateOf(ch) \in Matching \cup {"BeginMatch"}
    /\ StateOf(ch) = "MatchEchoLetter" => ch \in EchoCharset
    /\ StateOf(ch) = "MatchIdentifier" => ch \in Lower \cup Upper
    /\ StateOf(ch) = "MatchNumber" => ch \in Range(Digits)
    /\ StateOf(ch) = "MatchOperator" => ch \in OperatorCharset
    /\ StateOf(ch) = "BeginMatch" =>
         ch \notin EchoCharset \cup OperatorCharset \cup (Lower \cup Upper) \cup Range(Digits)
<1> TAKE ch
<1> DEFINE echo == ch \in EchoCharset
           alpha == ch \in Lower \cup Upper
           digit == ch \in Range(Digits)
           op == ch \in OperatorCharset
<1>1. echo => ~alpha /\ ~digit /\ ~op
  BY DigitSet DEF EchoCharset, Lower, Upper, OperatorCharset
<1>2. op => ~alpha /\ ~digit
  BY DigitSet DEF Lower, Upper, OperatorCharset
<1>3. digit => ~alpha
  BY DigitSet DEF Lower, Upper
<1>4. StateOf(ch) = CASE echo -> "MatchEchoLetter" [] alpha -> "MatchIdentifier"
                      [] digit -> "MatchNumber" [] op -> "MatchOperator" [] OTHER -> "BeginMatch"
  BY DEF StateOf, isalpha, isdigit
<1> HIDE DEF echo, alpha, digit, op
<1>5. CASE echo
  <2>1. StateOf(ch) = "MatchEchoLetter"
    BY <1>1, <1>4, <1>5
  <2> QED BY <1>5, <2>1 DEF echo, Matching
<1>6. CASE alpha
  <2>1. StateOf(ch) = "MatchIdentifier"
    BY <1>1, <1>2, <1>3, <1>4, <1>6
  <2> QED BY <1>6, <2>1 DEF alpha, Matching
<1>7. CASE digit
  <2>1. StateOf(ch) = "MatchNumber"
    BY <1>1, <1>2, <1>3, <1>4, <1>7
  <2> QED BY <1>7, <2>1 DEF digit, Matching
<1>8. CASE op
  <2>1. StateOf(ch) = "MatchOperator"
    BY <1>1, <1>2, <1>3, <1>4, <1>8
  <2> QED BY <1>8, <2>1 DEF op, Matching
<1>9. CASE ~echo /\ ~alpha /\ ~digit /\ ~op
  <2>1. StateOf(ch) = "BeginMatch"
    BY <1>4, <1>9
  <2> QED BY <1>9, <2>1 DEF echo, alpha, digit, op
<1> QED BY <1>5, <1>6, <1>7, <1>8, <1>9

\* The end of the source goes on with nothing.
LEMMA NULEndsAll == NUL \notin Lower \cup Upper /\ NUL \notin Range(Digits) /\ NUL \notin OperatorCharset
BY DigitSet DEF Lower, Upper, OperatorCharset, NUL

\* No operator is written with blanks.
LEMMA BlanksAside == \A ch \in OperatorCharset : ch \notin {" ", "\t", "\n"}
BY DEF OperatorCharset

\* A character that is read and pushed back.
LEMMA Lookahead ==
  ASSUME NEW c, Sound(c)
  PROVE  LET ch == read(c).ch
             d  == undo(read(c).code, ch)
         IN  /\ Sound(d) /\ Length(d) = Length(c) /\ Unread(d) = Unread(c)
             /\ ch = NUL => Unread(c) = <<>> /\ d.position = Length(c) - 1
             /\ ch # NUL => /\ ch \in Chars /\ Unread(c) # <<>> /\ Unread(c)[1] = ch
                            /\ d.position = Length(c) - Len(Unread(c))
<1> DEFINE ch == read(c).ch
           b == read(c).code
           d == undo(b, ch)
<1>1. /\ Sound(b) /\ b.undo_buf = <<>> /\ Length(b) = Length(c)
      /\ \/ ch = NUL /\ Unread(c) = <<>> /\ Unread(b) = <<>>
         \/ ch \in Chars /\ Unread(c) = <<ch>> \o Unread(b)
  BY ReadTakesFirst
<1> HIDE DEF ch, b
<1>2. Sound(d) /\ Length(d) = Length(b) /\ d.position = b.position - 1
      /\ Unread(d) = IF ch = NUL THEN <<>> ELSE <<ch>> \o Unread(b)
  BY <1>1, UndoGivesBack
<1>3. ch \in Chars => ch # NUL
  BY DEF Chars
<1>4. Length(b) = b.position + Len(Unread(b)) /\ b.position \in Int
  <2>1. b.undo_buf # <<NUL>>
    BY <1>1
  <2>2. b.position \in Int /\ Len(Unread(b)) \in Nat
    BY <1>1, UnreadTyped DEF Sound, CodeObjects
  <2> QED BY <2>1, <2>2 DEF Length
<1> HIDE DEF d
<1>5. CASE ch = NUL
  <2>1. Unread(c) = <<>> /\ Unread(b) = <<>> /\ Unread(d) = <<>>
    BY <1>1, <1>2, <1>3, <1>5
  <2>2. Len(Unread(b)) = 0
    BY <2>1
  <2>3. d.position = Length(c) - 1
    BY <1>1, <1>2, <1>4, <2>2
  <2> QED BY <1>1, <1>2, <1>5, <2>1, <2>3 DEF d, ch, b
<1>6. CASE ch # NUL
  <2>1. ch \in Chars /\ Unread(c) = <<ch>> \o Unread(b) /\ Unread(d) = Unread(c)
    BY <1>1, <1>2, <1>6
  <2>2. Unread(b) \in Seq(Chars)
    BY <1>1, UnreadTyped
  <2>3. Unread(c) # <<>> /\ Unread(c)[1] = ch /\ Len(Unread(c)) = Len(Unread(b)) + 1
    BY <2>1, <2>2, CharacterInFront
  <2>4. d.position = Length(c) - Len(Unread(c))
    <3>1. Len(Unread(b)) \in Nat
      BY <2>2
    <3> QED BY <1>1, <1>2, <1>4, <2>3, <3>1
  <2> QED BY <1>1, <1>2, <1>6, <2>1, <2>3, <2>4 DEF d, ch, b
<1> QED BY <1>5, <1>6

-----------------------------------------------------------------------------
(***************************************************************************)
(* The invariant.  What has been read for a symbol that is not delivered   *)
(* yet and what is still to be read make the end of the file; what is in   *)
(* cache is of one kind; what is on buffer is the rest of a run that was   *)
(* cut to its end.                                                         *)
(***************************************************************************)
EndOf(t, f) ==
  /\ Len(t) <= Len(f)
  /\ \A k \in 1..Len(t) : t[k] = f[(Len(f) - Len(t)) + k]

Collects(state, text) ==
  /\ text \in Seq(Chars) /\ 1 <= Len(text)
  /\ state = "MatchEchoLetter" => Len(text) = 1 /\ text[1] \in EchoCharset
  /\ state = "MatchIdentifier" =>
       /\ text[1] \in Lower \cup Upper
       /\ \A k \in 1..Len(text) : text[k] \in (Lower \cup Upper) \cup Range(Digits)
  /\ state = "MatchNumber" => \A k \in 1..Len(text) : text[k] \in Range(Digits)
  /\ state = "MatchOperator" => text \in Seq(OperatorCharset)

RestOfRun(ops) ==
  \E run \in Seq(OperatorCharset) : \E i \in 0..Len(run) :
    CutFrom(ops, run, i) /\ ColonsPaired(run, i)

Reading ==
  /\ file \in Seq(Chars)
  /\ Sound(code) /\ Length(code) = Len(file)
  /\ EndOf(cache \o Unread(code), file)

Control ==
  /\ parserState \in Matching \cup {"BeginMatch", "SymbolFound", "Finished"}
  /\ calling \in BOOLEAN
  /\ status \in {"running", "undefined", "aborted"}
  /\ calling => parserState \in Matching \cup {"BeginMatch"}

Collected ==
  IF calling /\ parserState \in Matching
  THEN Collects(parserState, cache) /\ Len(cache) <= CacheSize
  ELSE cache = <<>>

Queued ==
  /\ buffer \in Seq(OperatorSymbols)
  /\ buffer # <<>> =>
       /\ ~calling /\ parserState # "Finished" /\ Eof \notin Range(out)
       /\ EndsThere(Unread(code), OperatorCharset)
       /\ RestOfRun(buffer)

Handed ==
  /\ \E S : out \in Seq(S)
  /\ Eof \in Range(out) => ~calling

IInv ==
  /\ Reading /\ Control /\ Collected /\ Queued /\ Handed
  /\ Dictionary(dict, Len(Keywords))
  /\ ErrorLocated /\ AbortsAtEndOnly /\ OverrunByLongOnly

\* The end of an end.
LEMMA EndOfEnd ==
  \A s, u, f \in Seq(Chars) : EndOf(s \o u, f) => EndOf(u, f)
<1> TAKE s, u, f \in Seq(Chars)
<1> HAVE EndOf(s \o u, f)
<1> DEFINE r == s \o u
<1>1. /\ Len(r) = Len(s) + Len(u) /\ Len(s) \in Nat /\ Len(u) \in Nat /\ Len(f) \in Nat
      /\ \A k \in 1..Len(u) : r[Len(s) + k] = u[k]
  BY ConcatParts
<1>2. EndOf(r, f)
  OBVIOUS
<1> HIDE DEF r
<1>3. Len(u) <= Len(f)
  BY <1>1, <1>2 DEF EndOf
<1>4. ASSUME NEW k \in 1..Len(u) PROVE u[k] = f[(Len(f) - Len(u)) + k]
  <2>1. Len(s) + k \in 1..Len(r)
    BY <1>1
  <2>2. r[Len(s) + k] = f[(Len(f) - Len(r)) + (Len(s) + k)]
    BY <1>2, <2>1 DEF EndOf
  <2>3. (Len(f) - Len(r)) + (Len(s) + k) = (Len(f) - Len(u)) + k
    BY <1>1
  <2> QED BY <1>1, <2>2, <2>3
<1> QED BY <1>3, <1>4 DEF EndOf

\* A character moves from what is unread to cache.
LEMMA CharacterMoves ==
  \A ch \in Chars : \A s, u \in Seq(Chars) :
    /\ Append(s, ch) \o u = s \o (<<ch>> \o u)
    /\ Append(s, ch) \in Seq(Chars) /\ Len(Append(s, ch)) = Len(s) + 1
    /\ \A k \in 1..Len(s) : Append(s, ch)[k] = s[k]
    /\ Append(s, ch)[Len(s) + 1] = ch
<1> TAKE ch \in Chars
<1> TAKE s, u \in Seq(Chars)
<1> DEFINE one == <<ch>>
<1>1. one \in Seq(Chars) /\ Append(s, ch) = s \o one
  <2>1. Append(s, ch) = s \o <<ch>>
    BY AppendIsConcat
  <2> QED BY <2>1
<1>2. /\ Append(s, ch) \in Seq(Chars) /\ Len(Append(s, ch)) = Len(s) + 1
      /\ \A k \in 1..Len(s) : Append(s, ch)[k] = s[k]
      /\ Append(s, ch)[Len(s) + 1] = ch
  BY AppendProperties
<1> HIDE DEF one
<1>3. (s \o one) \o u = s \o (one \o u)
  BY <1>1, ConcatAssociative
<1> QED BY <1>1, <1>2, <1>3 DEF one

LEMMA NothingInFront == \A u \in Seq(Chars) : <<>> \o u = u /\ u \o <<>> = u
BY ConcatEmptySeq

\* Something more has been handed on.
LEMMA OneMore ==
  ASSUME NEW o, NEW symbol, \E S : o \in Seq(S)
  PROVE  /\ \E S : Append(o, symbol) \in Seq(S)
         /\ DOMAIN o = 1..Len(o) /\ Len(o) \in Nat
         /\ DOMAIN Append(o, symbol) = 1..(Len(o) + 1)
         /\ \A i \in 1..Len(o) : Append(o, symbol)[i] = o[i]
         /\ Append(o, symbol)[Len(o) + 1] = symbol
         /\ Range(Append(o, symbol)) = Range(o) \cup {symbol}
<1>1. PICK S : o \in Seq(S)
  OBVIOUS
<1> DEFINE T == S \cup {symbol}
<1>2. o \in Seq(T) /\ symbol \in T
  <2>1. S \subseteq T /\ symbol \in T
    OBVIOUS
  <2> HIDE DEF T
  <2>2. Seq(S) \subseteq Seq(T)
    BY <2>1, SeqMonotonic
  <2> QED BY <1>1, <2>1, <2>2
<1> HIDE DEF T
<1> DEFINE p == Append(o, symbol)
<1>3. /\ p \in Seq(T) /\ Len(p) = Len(o) + 1 /\ Len(o) \in Nat
      /\ \A i \in 1..Len(o) : p[i] = o[i]
      /\ p[Len(o) + 1] = symbol
  BY <1>2, AppendProperties
<1> HIDE DEF p
<1>4. DOMAIN o = 1..Len(o) /\ DOMAIN p = 1..(Len(o) + 1)
  BY <1>2, <1>3
<1>5. Range(p) = Range(o) \cup {symbol}
  <2>1. \A i \in 1..(Len(o) + 1) : i \in 1..Len(o) \/ i = Len(o) + 1
    BY <1>3
  <2>2. \A i \in 1..Len(o) : i \in 1..(Len(o) + 1)
    BY <1>3
  <2>3. Len(o) + 1 \in 1..(Len(o) + 1)
    BY <1>3
  <2> QED BY <1>3, <1>4, <2>1, <2>2, <2>3 DEF Range
<1> QED BY <1>3, <1>4, <1>5 DEF p

-----------------------------------------------------------------------------
(***************************************************************************)
(* It holds at the beginning.                                              *)
(***************************************************************************)
LEMMA OpenSound ==
  ASSUME NEW f \in Seq(Chars)
  PROVE  /\ Sound(open(f)) /\ Unread(open(f)) = f /\ Length(open(f)) = Len(f)
<1> DEFINE c == open(f)
           none == <<>>
<1>1. c = [fin |-> f, input_buf |-> none, input_buf_ptr |-> 0, undo_buf |-> none, position |-> 0]
  BY DEF open
<1>2. none \in Seq(Chars) /\ none \in Seq(Bytes) /\ Len(none) = 0 /\ none # <<NUL>> /\ none = <<>>
  OBVIOUS
<1> HIDE DEF c, none
<1>3. /\ c.fin = f /\ c.input_buf = none /\ c.input_buf_ptr = 0 /\ c.undo_buf = none /\ c.position = 0
      /\ c \in CodeObjects
  BY <1>1, <1>2 DEF CodeObjects
<1>4. SubSeq(c.input_buf, c.input_buf_ptr + 1, Len(c.input_buf)) = none
  <2>1. SubSeq(none, 0 + 1, 0) = none
    BY <1>2, SubSeqEmpty
  <2> QED BY <1>2, <1>3, <2>1
<1>5. Unread(c) = f
  <2>1. Unread(c) = (none \o none) \o f
    BY <1>2, <1>3, <1>4 DEF Unread
  <2>2. none \o none = none /\ none \o f = f
    BY <1>2, NothingInFront
  <2> QED BY <2>1, <2>2
<1>6. Sound(c)
  BY <1>2, <1>3, BufferAssumption DEF Sound
<1>7. Length(c) = Len(f)
  <2>1. Len(f) \in Nat
    OBVIOUS
  <2> QED BY <1>2, <1>3, <1>5, <2>1 DEF Length
<1> QED BY <1>5, <1>6, <1>7 DEF c

LEMMA SourcesTyped == \A f \in Sources : f \in Seq(Chars)
<1> TAKE f \in Sources
<1>1. f \in Seq(STRING) /\ NUL \notin Range(f)
  BY SymbolParserAssumption
<1>2. \A k \in 1..Len(f) : f[k] \in Chars
  <2> TAKE k \in 1..Len(f)
  <2>1. f[k] \in STRING /\ f[k] \in Range(f)
    BY <1>1 DEF Range
  <2> QED BY <1>1, <2>1 DEF Chars
<1>3. f \in [1..Len(f) -> Chars] /\ Len(f) \in Nat
  BY <1>1, <1>2
<1> QED BY <1>3

LEMMA InvInit == Init => IInv
<1> SUFFICES ASSUME Init PROVE IInv
  OBVIOUS
<1> DEFINE none == <<>>
<1>1. /\ file \in Seq(Chars) /\ code = open(file) /\ dict = KeywordTree
      /\ parserState \in {"BeginMatch", "Finished"} /\ calling = FALSE /\ cache = none
      /\ buffer = none /\ out = none /\ status = "running"
  BY SourcesTyped DEF Init
<1>2. Reading
  <2>1. Sound(code) /\ Unread(code) = file /\ Length(code) = Len(file)
    BY <1>1, OpenSound
  <2>2. cache \o Unread(code) = file
    BY <1>1, <2>1, NothingInFront
  <2>3. EndOf(file, file)
    <3>1. Len(file) \in Nat
      BY <1>1
    <3> QED BY <3>1 DEF EndOf
  <2> QED BY <1>1, <2>1, <2>2, <2>3 DEF Reading
<1>3. Control
  BY <1>1 DEF Control
<1>4. Collected
  BY <1>1 DEF Collected
<1>5. Queued
  BY <1>1 DEF Queued
<1>6. Handed
  <2>1. none \in Seq({}) /\ Range(none) = {}
    BY DEF Range
  <2> HIDE DEF none
  <2> QED BY <1>1, <2>1 DEF Handed
<1>7. ErrorLocated
  <2>1. DOMAIN none = {}
    OBVIOUS
  <2> HIDE DEF none
  <2> QED BY <1>1, <2>1 DEF ErrorLocated
<1>8. AbortsAtEndOnly /\ OverrunByLongOnly
  BY <1>1 DEF AbortsAtEndOnly, OverrunByLongOnly
<1> QED BY <1>1, <1>2, <1>3, <1>4, <1>5, <1>6, <1>7, <1>8, TreeBuilt DEF IInv
-----------------------------------------------------------------------------
(***************************************************************************)
(* What the steps have in common.                                          *)
(***************************************************************************)
LEMMA SymbolTypes ==
  /\ Eof.type = "ECHO"
  /\ \A op \in OperatorSymbols : op.type = "OP" /\ op # Eof
  /\ \A c : EchoSymbol(c).type = "ECHO"
  /\ \A text : NumberSymbol(text).type = "NUMBER"
  /\ \A k : KeywordSymbol(k).type = "KEYWORD"
  /\ \A text : \A symbol \in IdentifierSymbols(text) : symbol.type = "IDENT"
  /\ \A at : Error(at).type = "ERROR" /\ Error(at) # Eof /\ Error(at).at = at
<1>1. Eof.type = "ECHO"
  BY DEF Eof, construct
<1>2. \A op \in OperatorSymbols : op.type = "OP"
  BY DEF OperatorSymbols, OperatorSymbol, construct
<1>3. \A op \in OperatorSymbols : op # Eof
  BY <1>1, <1>2
<1>4. \A c : EchoSymbol(c).type = "ECHO"
  BY DEF EchoSymbol, construct
<1>5. \A text : NumberSymbol(text).type = "NUMBER"
  BY DEF NumberSymbol, construct
<1>6. \A k : KeywordSymbol(k).type = "KEYWORD"
  BY DEF KeywordSymbol, construct
<1>7. \A text : \A symbol \in IdentifierSymbols(text) : symbol.type = "IDENT"
  BY DEF IdentifierSymbols, construct
<1>8. \A at : Error(at).type = "ERROR" /\ Error(at).at = at
  BY DEF Error
<1>9. \A at : Error(at) # Eof
  BY <1>1, <1>8
<1> QED BY <1>1, <1>2, <1>3, <1>4, <1>5, <1>6, <1>7, <1>8, <1>9

\* What is in cache, and what is unread.
LEMMA CacheTyped ==
  ASSUME IInv
  PROVE  /\ cache \in Seq(Chars) /\ Unread(code) \in Seq(Chars) /\ file \in Seq(Chars)
         /\ Sound(code) /\ Length(code) = Len(file) /\ EndOf(Unread(code), file)
         /\ EndOf(cache \o Unread(code), file)
<1>1. cache \in Seq(Chars)
  <2>1. <<>> \in Seq(Chars)
    OBVIOUS
  <2> QED BY <2>1 DEF IInv, Collected, Collects
<1>2. Unread(code) \in Seq(Chars)
  BY UnreadTyped DEF IInv, Reading
<1>3. /\ file \in Seq(Chars) /\ EndOf(cache \o Unread(code), file)
      /\ Sound(code) /\ Length(code) = Len(file)
  BY DEF IInv, Reading
<1>4. EndOf(Unread(code), file)
  BY <1>1, <1>2, <1>3, EndOfEnd
<1> QED BY <1>1, <1>2, <1>3, <1>4

\* In the middle of a call nothing is on buffer, and the end is not handed on.
LEMMA InCall ==
  ASSUME IInv, calling
  PROVE  buffer = <<>> /\ Eof \notin Range(out)
BY DEF IInv, Queued, Handed

\* What ErrorLocated says of one error.
LocatedIn(f, at) ==
  \E offset \in {at, at + 1} :
    /\ offset \in 0..(Len(f) - 1) /\ f[offset + 1] = ":"
    /\ ~(offset + 2 <= Len(f) /\ f[offset + 2] = "=")
    /\ offset = at + 1 <=> \A i \in (offset + 1)..Len(f) : f[i] \in OperatorCharset

LEMMA ErrorsLocatedIn ==
  /\ ErrorLocated <=> \A i \in DOMAIN out : out[i].type = "ERROR" => LocatedIn(file, out[i].at)
  /\ ErrorLocated' <=> \A i \in DOMAIN out' : out'[i].type = "ERROR" => LocatedIn(file', out'[i].at)
<1>1. ErrorLocated <=> \A i \in DOMAIN out : out[i].type = "ERROR" => LocatedIn(file, out[i].at)
  BY DEF ErrorLocated, LocatedIn, BadColon, EndsFile
<1>2. ErrorLocated' <=> \A i \in DOMAIN out' : out'[i].type = "ERROR" => LocatedIn(file', out'[i].at)
  BY DEF ErrorLocated, LocatedIn, BadColon, EndsFile
<1> QED BY <1>1, <1>2

LEMMA ErrorsKept ==
  ASSUME IInv, file' = file, out' = out \/ \E symbol : out' = Append(out, symbol) /\ symbol.type # "ERROR"
  PROVE  ErrorLocated'
<1>1. ErrorLocated /\ \E S : out \in Seq(S)
  BY DEF IInv, Handed
<1>2. CASE out' = out
  BY <1>1, <1>2, ErrorsLocatedIn
<1>3. CASE \E symbol : out' = Append(out, symbol) /\ symbol.type # "ERROR"
  <2>1. PICK symbol : out' = Append(out, symbol) /\ symbol.type # "ERROR"
    BY <1>3
  <2>2. /\ DOMAIN out = 1..Len(out) /\ Len(out) \in Nat /\ DOMAIN out' = 1..(Len(out) + 1)
        /\ \A i \in 1..Len(out) : out'[i] = out[i]
        /\ out'[Len(out) + 1] = symbol
    BY <1>1, <2>1, OneMore
  <2>3. \A i \in DOMAIN out' : out'[i].type = "ERROR" => i \in DOMAIN out /\ out'[i] = out[i]
    <3>1. \A i \in 1..(Len(out) + 1) : i \in 1..Len(out) \/ i = Len(out) + 1
      BY <2>2
    <3> QED BY <2>1, <2>2, <3>1
  <2> QED BY <1>1, <2>3, ErrorsLocatedIn
<1> QED BY <1>2, <1>3

LEMMA EndsKept ==
  ASSUME IInv, UNCHANGED <<file, status>>
  PROVE  AbortsAtEndOnly' /\ OverrunByLongOnly'
<1>1. AbortsAtEndOnly'
  BY DEF IInv, AbortsAtEndOnly, BadColon, EndsFile
<1>2. OverrunByLongOnly'
  BY DEF IInv, OverrunByLongOnly, Symbolic
<1> QED BY <1>1, <1>2

\* A call that ends.
LEMMA AfterReturn ==
  ASSUME IInv, calling, UNCHANGED <<file, status>>,
         Sound(code'), Length(code') = Len(file), EndOf(Unread(code'), file),
         parserState' \in Matching \cup {"BeginMatch", "SymbolFound", "Finished"},
         NEW symbol, Return(symbol),
         Dictionary(dict', Len(Keywords)), Queued', ErrorLocated'
  PROVE  IInv'
<1>1. out' = Append(out, symbol) /\ calling' = FALSE /\ cache' = <<>>
  BY DEF Return
<1>2. Reading'
  <2>1. cache' \o Unread(code)' = Unread(code)'
    <3>1. Unread(code') \in Seq(Chars)
      BY UnreadTyped
    <3>2. Unread(code)' = Unread(code')
      OBVIOUS
    <3> QED BY <1>1, <3>1, <3>2, NothingInFront
  <2>2. file \in Seq(Chars)
    BY CacheTyped
  <2>3. Reading' <=> (file' \in Seq(Chars) /\ Sound(code') /\ Length(code') = Len(file')
                       /\ EndOf(cache' \o Unread(code)', file'))
    BY DEF Reading
  <2> QED BY <2>1, <2>2, <2>3
<1>3. Control'
  BY <1>1 DEF Control, IInv
<1>4. Collected'
  BY <1>1 DEF Collected
<1>5. Handed'
  <2>1. \E S : out' \in Seq(S)
    <3>1. \E S : out \in Seq(S)
      BY DEF IInv, Handed
    <3> QED BY <1>1, <3>1, OneMore
  <2> QED BY <1>1, <2>1 DEF Handed
<1>6. AbortsAtEndOnly' /\ OverrunByLongOnly'
  BY EndsKept
<1> QED BY <1>2, <1>3, <1>4, <1>5, <1>6 DEF IInv

\* A symbol that has ended: what was read behind it is unread again, and no
\* part of it.
LEMMA EndedFacts ==
  ASSUME IInv, NEW state \in Matching, Ended(state)
  PROVE  LET ch == read(code).ch
         IN  /\ calling /\ status = "running" /\ parserState = state
             /\ buffer = <<>> /\ Eof \notin Range(out)
             /\ Collects(state, cache) /\ Len(cache) <= CacheSize
             /\ Sound(code') /\ Length(code') = Len(file) /\ Unread(code') = Unread(code)
             /\ EndOf(Unread(code'), file)
             /\ ~Continues(ch)
             /\ ch = NUL => Unread(code) = <<>> /\ code'.position = Len(file) - 1
             /\ ch # NUL => /\ Unread(code) # <<>> /\ Unread(code)[1] = ch
                            /\ code'.position = Len(file) - Len(Unread(code))
<1>1. /\ calling /\ status = "running" /\ parserState = state /\ ~Continues(read(code).ch)
      /\ code' = undo(read(code).code, read(code).ch)
  BY DEF Ended, In
<1>2. buffer = <<>> /\ Eof \notin Range(out)
  BY <1>1, InCall
<1>3. Collects(state, cache) /\ Len(cache) <= CacheSize
  BY <1>1 DEF IInv, Collected
<1>4. Sound(code) /\ Length(code) = Len(file) /\ EndOf(Unread(code), file)
  BY CacheTyped
<1> DEFINE ch == read(code).ch
           d == undo(read(code).code, ch)
<1>5. /\ Sound(d) /\ Length(d) = Length(code) /\ Unread(d) = Unread(code)
      /\ ch = NUL => Unread(code) = <<>> /\ d.position = Length(code) - 1
      /\ ch # NUL => /\ ch \in Chars /\ Unread(code) # <<>> /\ Unread(code)[1] = ch
                     /\ d.position = Length(code) - Len(Unread(code))
  BY <1>4, Lookahead
<1>6. code' = d
  BY <1>1
<1> HIDE DEF d, ch
<1>7. ~Continues(ch)
  BY <1>1 DEF ch
<1>8. Unread(code') = Unread(d) /\ Sound(code') /\ Length(code') = Length(d) /\ code'.position = d.position
  BY <1>5, <1>6
<1> QED BY <1>1, <1>2, <1>3, <1>4, <1>5, <1>7, <1>8 DEF ch

-----------------------------------------------------------------------------
(***************************************************************************)
(* Every step keeps the invariant.                                         *)
(***************************************************************************)
LEMMA Unchanged ==
  ASSUME IInv, UNCHANGED vars
  PROVE  IInv'
<1>1. /\ UNCHANGED <<file, code, dict, parserState, calling, cache, buffer, out, status>>
      /\ Unread(code)' = Unread(code)
  BY DEF vars
<1>2. Reading'
  BY <1>1 DEF IInv, Reading
<1>3. Control'
  BY <1>1 DEF IInv, Control
<1>4. Collected'
  BY <1>1 DEF IInv, Collected
<1>5. Queued'
  BY <1>1 DEF IInv, Queued
<1>6. Handed'
  BY <1>1 DEF IInv, Handed
<1>7. ErrorLocated' /\ AbortsAtEndOnly' /\ OverrunByLongOnly'
  BY <1>1, ErrorsKept, EndsKept
<1>8. Dictionary(dict', Len(Keywords))
  BY <1>1 DEF IInv
<1> QED BY <1>2, <1>3, <1>4, <1>5, <1>6, <1>7, <1>8 DEF IInv

LEMMA StepDeliverBuffered ==
  ASSUME IInv, DeliverBuffered
  PROVE  IInv'
<1>1. /\ UNCHANGED <<file, code, dict, parserState, calling, cache, status>>
      /\ buffer # <<>> /\ buffer' = Tail(buffer) /\ out' = Append(out, Head(buffer))
      /\ ~calling /\ Eof \notin Range(out)
  BY DEF DeliverBuffered, Called
<1>2. buffer \in Seq(OperatorSymbols) /\ \E S : out \in Seq(S)
  BY DEF IInv, Queued, Handed
<1> DEFINE op == Head(buffer)
<1>3. op \in OperatorSymbols /\ Tail(buffer) \in Seq(OperatorSymbols)
  BY <1>1, <1>2
<1> HIDE DEF op
<1>4. op.type = "OP" /\ op # Eof /\ op.type # "ERROR"
  BY <1>3, SymbolTypes
<1>5. out' = Append(out, op)
  BY <1>1 DEF op
<1>6. Reading'
  BY <1>1 DEF IInv, Reading
<1>7. Control' /\ Collected'
  BY <1>1 DEF IInv, Control, Collected
<1>8. Range(out') = Range(out) \cup {op} /\ \E S : out' \in Seq(S)
  BY <1>2, <1>5, OneMore
<1>9. Handed'
  BY <1>1, <1>8 DEF Handed
<1>10. RestOfRun(Tail(buffer))
  <2>1. RestOfRun(buffer)
    BY <1>1 DEF IInv, Queued
  <2>5. PICK run \in Seq(OperatorCharset) :
          \E i \in 0..Len(run) : CutFrom(buffer, run, i) /\ ColonsPaired(run, i)
    BY <2>1 DEF RestOfRun
  <2>2. PICK i \in 0..Len(run) : CutFrom(buffer, run, i) /\ ColonsPaired(run, i)
    BY <2>5
  <2>3. PICK next \in (i + 1)..Len(run) : CutFrom(Tail(buffer), run, next) /\ ColonsPaired(run, next)
    BY <1>1, <1>2, <2>2, CutTail
  <2>4. next \in 0..Len(run)
    OBVIOUS
  <2> QED BY <2>3, <2>4 DEF RestOfRun
<1>11. Queued'
  BY <1>1, <1>3, <1>4, <1>8, <1>10 DEF IInv, Queued
<1>12. ErrorLocated' /\ AbortsAtEndOnly' /\ OverrunByLongOnly'
  BY <1>1, <1>4, <1>5, ErrorsKept, EndsKept
<1>13. Dictionary(dict', Len(Keywords))
  BY <1>1 DEF IInv
<1> QED BY <1>6, <1>7, <1>9, <1>11, <1>12, <1>13 DEF IInv

LEMMA StepDeliverEof ==
  ASSUME IInv, DeliverEof
  PROVE  IInv'
<1>1. /\ UNCHANGED <<file, code, dict, parserState, calling, cache, buffer, status>>
      /\ buffer = <<>> /\ out' = Append(out, Eof) /\ ~calling
  BY DEF DeliverEof, Called
<1>2. Reading' /\ Control' /\ Collected'
  BY <1>1 DEF IInv, Reading, Control, Collected
<1>3. \E S : out' \in Seq(S)
  <2>1. \E S : out \in Seq(S)
    BY DEF IInv, Handed
  <2> QED BY <1>1, <2>1, OneMore
<1>4. Handed'
  BY <1>1, <1>3 DEF Handed
<1>5. Queued'
  BY <1>1 DEF IInv, Queued
<1>6. ErrorLocated' /\ AbortsAtEndOnly' /\ OverrunByLongOnly'
  <2>1. Eof.type # "ERROR"
    BY SymbolTypes
  <2> QED BY <1>1, <2>1, ErrorsKept, EndsKept
<1>7. Dictionary(dict', Len(Keywords))
  BY <1>1 DEF IInv
<1> QED BY <1>2, <1>4, <1>5, <1>6, <1>7 DEF IInv

LEMMA StepEnter ==
  ASSUME IInv, Enter
  PROVE  IInv'
<1>1. /\ UNCHANGED <<file, code, dict, cache, buffer, out, status>>
      /\ buffer = <<>> /\ ~calling /\ calling' = TRUE /\ parserState' = "BeginMatch"
      /\ Eof \notin Range(out)
  BY DEF Enter, Called
<1>2. Reading'
  BY <1>1 DEF IInv, Reading
<1>3. Control' /\ Collected'
  BY <1>1 DEF IInv, Control, Collected, Matching
<1>4. Queued' /\ Handed'
  BY <1>1 DEF IInv, Queued, Handed
<1>5. ErrorLocated' /\ AbortsAtEndOnly' /\ OverrunByLongOnly'
  BY <1>1, ErrorsKept, EndsKept
<1>6. Dictionary(dict', Len(Keywords))
  BY <1>1 DEF IInv
<1> QED BY <1>2, <1>3, <1>4, <1>5, <1>6 DEF IInv

\* A character that is read for good.
LEMMA ReadFacts ==
  ASSUME IInv
  PROVE  LET ch == read(code).ch
             d  == read(code).code
         IN  /\ Sound(d) /\ Length(d) = Len(file) /\ Unread(d) \in Seq(Chars)
             /\ EndOf(Unread(d), file)
             /\ ch = NUL => Unread(code) = <<>> /\ Unread(d) = <<>>
             /\ ch # NUL => ch \in Chars /\ Unread(code) = <<ch>> \o Unread(d)
<1> DEFINE ch == read(code).ch
           d == read(code).code
<1>1. Sound(code) /\ Length(code) = Len(file) /\ EndOf(Unread(code), file) /\ file \in Seq(Chars)
  BY CacheTyped
<1>2. /\ Sound(d) /\ Length(d) = Length(code)
      /\ \/ ch = NUL /\ Unread(code) = <<>> /\ Unread(d) = <<>>
         \/ ch \in Chars /\ Unread(code) = <<ch>> \o Unread(d)
  BY <1>1, ReadTakesFirst
<1> HIDE DEF d, ch
<1>3. Unread(d) \in Seq(Chars)
  BY <1>2, UnreadTyped
<1>4. ch \in Chars => ch # NUL
  BY DEF Chars
<1>5. EndOf(Unread(d), file)
  <2>1. CASE ch = NUL
    BY <1>1, <1>2, <1>4, <2>1
  <2>2. CASE ch # NUL
    <3> DEFINE one == <<ch>>
    <3>1. one \in Seq(Chars) /\ Unread(code) = one \o Unread(d)
      BY <1>2, <2>2
    <3> HIDE DEF one
    <3> QED BY <1>1, <1>3, <3>1, EndOfEnd
  <2> QED BY <2>1, <2>2
<1> QED BY <1>1, <1>2, <1>3, <1>4, <1>5 DEF d, ch

LEMMA StepBeginMatch ==
  ASSUME IInv, BeginMatch
  PROVE  IInv'
<1> DEFINE ch == read(code).ch
           d == read(code).code
<1>1. /\ UNCHANGED <<file, dict, calling, buffer, out, status>>
      /\ calling /\ parserState = "BeginMatch" /\ status = "running"
      /\ ch # NUL /\ code' = d /\ parserState' = StateOf(ch)
      /\ cache' = IF parserState' = "BeginMatch" THEN cache ELSE <<ch>>
  BY DEF BeginMatch, In
<1>2. cache = <<>>
  BY <1>1 DEF IInv, Collected, Matching
<1>3. /\ Sound(d) /\ Length(d) = Len(file) /\ Unread(d) \in Seq(Chars) /\ EndOf(Unread(d), file)
      /\ ch \in Chars /\ Unread(code) = <<ch>> \o Unread(d)
  BY <1>1, ReadFacts
<1> HIDE DEF ch, d
<1>4. Unread(code)' = Unread(d) /\ Sound(code') /\ Length(code') = Len(file)
  BY <1>1, <1>3
<1>5. EndOf(cache' \o Unread(d), file)
  <2>1. CASE parserState' = "BeginMatch"
    <3>1. cache' \o Unread(d) = Unread(d)
      BY <1>1, <1>2, <1>3, <2>1, NothingInFront
    <3> QED BY <1>3, <3>1
  <2>2. CASE parserState' # "BeginMatch"
    <3>1. cache' \o Unread(d) = Unread(code)
      BY <1>1, <1>3, <2>2
    <3> QED BY <3>1, CacheTyped
  <2> QED BY <2>1, <2>2
<1>6. Reading'
  <2>1. file' \in Seq(Chars)
    BY <1>1, CacheTyped
  <2> QED BY <1>1, <1>4, <1>5, <2>1 DEF Reading
<1>7. parserState' \in Matching \cup {"BeginMatch"}
  BY <1>1, StateOfMeans
<1>8. Control'
  BY <1>1, <1>7 DEF IInv, Control
<1>9. Collected'
  <2>1. CASE parserState' \in Matching
    <3> DEFINE one == <<ch>>
    <3>1. one \in Seq(Chars) /\ Len(one) = 1 /\ one[1] = ch
      BY <1>3
    <3>2. ch \in OperatorCharset => one \in Seq(OperatorCharset)
      OBVIOUS
    <3>3. cache' = one
      BY <1>1, <2>1 DEF Matching
    <3> HIDE DEF one
    <3>4. \A k \in 1..1 : k = 1
      OBVIOUS
    <3>5. Collects(parserState', one)
      <4>1. /\ StateOf(ch) = "MatchEchoLetter" => ch \in EchoCharset
            /\ StateOf(ch) = "MatchIdentifier" => ch \in Lower \cup Upper
            /\ StateOf(ch) = "MatchNumber" => ch \in Range(Digits)
            /\ StateOf(ch) = "MatchOperator" => ch \in OperatorCharset
        BY StateOfMeans
      <4> QED BY <1>1, <3>1, <3>2, <3>4, <4>1 DEF Collects
    <3>6. Len(one) <= CacheSize
      BY <3>1, SymbolParserAssumption
    <3> QED BY <1>1, <2>1, <3>3, <3>5, <3>6 DEF Collected
  <2>2. CASE parserState' \notin Matching
    <3>1. parserState' = "BeginMatch"
      BY <1>7, <2>2
    <3> QED BY <1>1, <1>2, <2>2, <3>1 DEF Collected
  <2> QED BY <2>1, <2>2
<1>10. Queued' /\ Handed'
  <2>1. buffer = <<>>
    BY <1>1, InCall
  <2> QED BY <1>1, <2>1 DEF IInv, Queued, Handed
<1>11. ErrorLocated' /\ AbortsAtEndOnly' /\ OverrunByLongOnly'
  BY <1>1, ErrorsKept, EndsKept
<1>12. Dictionary(dict', Len(Keywords))
  BY <1>1 DEF IInv
<1> QED BY <1>6, <1>8, <1>9, <1>10, <1>11, <1>12 DEF IInv

LEMMA StepEndOfSource ==
  ASSUME IInv, EndOfSource
  PROVE  IInv'
<1>1. /\ UNCHANGED <<file, dict, buffer, status>>
      /\ calling /\ code' = read(code).code /\ parserState' = "Finished" /\ Return(Eof)
  BY DEF EndOfSource, In
<1>2. Sound(code') /\ Length(code') = Len(file) /\ EndOf(Unread(code'), file)
  BY <1>1, ReadFacts
<1>3. Queued'
  <2>1. buffer = <<>>
    BY <1>1, InCall
  <2> QED BY <1>1, <2>1 DEF IInv, Queued
<1>4. ErrorLocated'
  <2>1. out' = Append(out, Eof) /\ Eof.type # "ERROR"
    BY <1>1, SymbolTypes DEF Return
  <2> QED BY <1>1, <2>1, ErrorsKept
<1>5. Dictionary(dict', Len(Keywords))
  BY <1>1 DEF IInv
<1> QED BY <1>1, <1>2, <1>3, <1>4, <1>5, AfterReturn

LEMMA StepMatchEchoLetter ==
  ASSUME IInv, MatchEchoLetter
  PROVE  IInv'
<1> DEFINE symbol == EchoSymbol(Last(cache))
<1>1. /\ UNCHANGED <<file, code, dict, buffer, status>>
      /\ calling /\ parserState' = "SymbolFound" /\ Return(symbol)
  BY DEF MatchEchoLetter, In
<1>2. Sound(code') /\ Length(code') = Len(file) /\ EndOf(Unread(code'), file)
  BY <1>1, CacheTyped
<1>3. Queued'
  <2>1. buffer = <<>>
    BY <1>1, InCall
  <2> QED BY <1>1, <2>1 DEF IInv, Queued
<1>4. ErrorLocated'
  <2>1. symbol.type # "ERROR"
    BY SymbolTypes
  <2> HIDE DEF symbol
  <2>2. out' = Append(out, symbol)
    BY <1>1 DEF Return
  <2> QED BY <1>1, <2>1, <2>2, ErrorsKept
<1>5. Dictionary(dict', Len(Keywords))
  BY <1>1 DEF IInv
<1> HIDE DEF symbol
<1> QED BY <1>1, <1>2, <1>3, <1>4, <1>5, AfterReturn

LEMMA StepMatchMore ==
  ASSUME IInv, MatchMore
  PROVE  IInv'
<1> DEFINE ch == read(code).ch
           d == read(code).code
<1>1. /\ UNCHANGED <<file, dict, parserState, calling, buffer, out, status>>
      /\ calling /\ parserState \in Matching \ {"MatchEchoLetter"} /\ Room
      /\ Continues(ch) /\ code' = d /\ cache' = Append(cache, ch)
  BY DEF MatchMore, In
<1>2. ch # NUL
  BY <1>1, NULEndsAll DEF Continues, isalpha, isdigit
<1>3. /\ Sound(d) /\ Length(d) = Len(file) /\ Unread(d) \in Seq(Chars)
      /\ ch \in Chars /\ Unread(code) = <<ch>> \o Unread(d)
  BY <1>2, ReadFacts
<1>4. Continues(ch) <=>
        \/ parserState = "MatchIdentifier" /\ ch \in (Lower \cup Upper) \cup Range(Digits)
        \/ parserState = "MatchNumber" /\ ch \in Range(Digits)
        \/ parserState = "MatchOperator" /\ ch \in OperatorCharset
  BY DEF Continues, isalpha, isdigit
<1> HIDE DEF ch, d
<1>5. /\ cache \in Seq(Chars) /\ EndOf(cache \o Unread(code), file) /\ file \in Seq(Chars)
      /\ Collects(parserState, cache) /\ Len(cache) <= CacheSize
  BY <1>1, CacheTyped DEF IInv, Collected
<1>6. /\ cache' \o Unread(d) = cache \o Unread(code)
      /\ cache' \in Seq(Chars) /\ Len(cache') = Len(cache) + 1
      /\ \A k \in 1..Len(cache) : cache'[k] = cache[k]
      /\ cache'[Len(cache) + 1] = ch
  BY <1>1, <1>3, <1>5, CharacterMoves
<1>7. Reading'
  <2>1. Unread(code)' = Unread(d)
    BY <1>1
  <2> QED BY <1>1, <1>3, <1>5, <1>6, <2>1 DEF Reading
<1>8. Control'
  BY <1>1 DEF IInv, Control
<1>9. Collected'
  <2>1. /\ Len(cache) \in Nat /\ 1 <= Len(cache)
        /\ \A k \in 1..(Len(cache) + 1) : k \in 1..Len(cache) \/ k = Len(cache) + 1
        /\ 1 \in 1..Len(cache)
    <3>1. Len(cache) \in Nat /\ 1 <= Len(cache)
      BY <1>5 DEF Collects
    <3> QED BY <3>1
  <2>2. Len(cache') <= CacheSize
    BY <1>1, <1>6, <2>1, SymbolParserAssumption DEF Room
  <2>3. parserState = "MatchOperator" => cache' \in Seq(OperatorCharset)
    <3> SUFFICES ASSUME parserState = "MatchOperator" PROVE cache' \in Seq(OperatorCharset)
      OBVIOUS
    <3>1. cache \in Seq(OperatorCharset) /\ ch \in OperatorCharset
      BY <1>1, <1>4, <1>5 DEF Collects
    <3>2. Append(cache, ch) \in Seq(OperatorCharset)
      BY <3>1
    <3> QED BY <1>1, <3>2
  <2>4. parserState = "MatchIdentifier" =>
          /\ cache'[1] \in Lower \cup Upper
          /\ \A k \in 1..Len(cache') : cache'[k] \in (Lower \cup Upper) \cup Range(Digits)
    <3> SUFFICES ASSUME parserState = "MatchIdentifier"
                 PROVE  /\ cache'[1] \in Lower \cup Upper
                        /\ \A k \in 1..Len(cache') : cache'[k] \in (Lower \cup Upper) \cup Range(Digits)
      OBVIOUS
    <3>1. /\ ch \in (Lower \cup Upper) \cup Range(Digits) /\ cache[1] \in Lower \cup Upper
          /\ \A k \in 1..Len(cache) : cache[k] \in (Lower \cup Upper) \cup Range(Digits)
      BY <1>1, <1>4, <1>5 DEF Collects
    <3> QED BY ONLY <1>6, <2>1, <3>1
  <2>5. parserState = "MatchNumber" => \A k \in 1..Len(cache') : cache'[k] \in Range(Digits)
    <3> SUFFICES ASSUME parserState = "MatchNumber"
                 PROVE  \A k \in 1..Len(cache') : cache'[k] \in Range(Digits)
      OBVIOUS
    <3>1. ch \in Range(Digits) /\ \A k \in 1..Len(cache) : cache[k] \in Range(Digits)
      BY <1>1, <1>4, <1>5 DEF Collects
    <3> QED BY ONLY <1>6, <2>1, <3>1
  <2>6. 1 <= Len(cache')
    BY <1>6, <2>1
  <2>7. Collects(parserState, cache')
    BY <1>1, <1>6, <2>3, <2>4, <2>5, <2>6 DEF Collects
  <2> QED BY <1>1, <2>2, <2>7 DEF Collected
<1>10. Queued' /\ Handed'
  <2>1. buffer = <<>>
    BY <1>1, InCall
  <2> QED BY <1>1, <2>1 DEF IInv, Queued, Handed
<1>11. ErrorLocated' /\ AbortsAtEndOnly' /\ OverrunByLongOnly'
  BY <1>1, ErrorsKept, EndsKept
<1>12. Dictionary(dict', Len(Keywords))
  BY <1>1 DEF IInv
<1> QED BY <1>7, <1>8, <1>9, <1>10, <1>11, <1>12 DEF IInv

\* What a word may be handed on as.
LEMMA WordFound ==
  ASSUME IInv, EndIdentifier
  PROVE  /\ UNCHANGED <<file, buffer, status>> /\ parserState' = "SymbolFound"
         /\ Dictionary(dict', Len(Keywords))
         /\ \E symbol \in Words(cache) : Return(symbol) /\ symbol.type # "ERROR"
<1> DEFINE node == Path(cache)
           N == Len(Keywords)
           symbols == IF dict'[node].type = Type_Keyword
                      THEN {KeywordSymbol(dict'[node].subtype + 1)} ELSE IdentifierSymbols(cache)
<1>1. /\ dict' = match(dict, cache) /\ UNCHANGED <<file, buffer, status>>
      /\ parserState' = "SymbolFound" /\ \E symbol \in symbols : Return(symbol)
  BY DEF EndIdentifier
<1>2. N \in Nat /\ DOMAIN Keywords = 1..N
  BY KeywordFacts
<1>3. Dictionary(dict', N) /\ node \in DOMAIN dict'
  <2>1. Dictionary(dict, N) /\ N \in 0..N
    BY <1>2 DEF IInv
  <2> HIDE DEF node
  <2>2. Dictionary(match(dict, cache), N) /\ Path(cache) \in DOMAIN match(dict, cache)
    BY <2>1, MatchKeeps
  <2> QED BY <1>1, <2>2 DEF node
<1>4. dict'[node] = Entry(node, N)
  <2> HIDE DEF node
  <2> QED BY <1>3 DEF Dictionary
<1>5. symbols = Words(cache)
  <2>1. CASE \E k \in 1..N : Keywords[k] = node
    <3> DEFINE k == CHOOSE k \in 1..N : Keywords[k] = node
    <3>1. k \in 1..N /\ Keywords[k] = node
      BY <2>1
    <3>2. dict'[node] = [type |-> Type_Keyword, subtype |-> k - 1]
      BY <1>4, <2>1 DEF Entry
    <3>3. Words(cache) = {KeywordSymbol(k)}
      BY <1>2, <2>1 DEF Words
    <3> HIDE DEF k, node
    <3>4. (k - 1) + 1 = k
      BY <3>1
    <3>5. symbols = {KeywordSymbol((k - 1) + 1)}
      BY <3>2
    <3> QED BY <3>3, <3>4, <3>5
  <2>2. CASE ~\E k \in 1..N : Keywords[k] = node
    <3>1. dict'[node].type # Type_Keyword
      BY <1>4, <2>2 DEF Entry, Untyped, Type_Keyword, Type_None
    <3>2. Words(cache) = IdentifierSymbols(cache)
      BY <1>2, <2>2 DEF Words
    <3> QED BY <3>1, <3>2
  <2> QED BY <2>1, <2>2
<1>6. \A symbol \in symbols : symbol.type # "ERROR"
  BY SymbolTypes
<1> HIDE DEF symbols, node
<1> QED BY <1>1, <1>3, <1>5, <1>6

LEMMA StepEndIdentifier ==
  ASSUME IInv, EndIdentifier
  PROVE  IInv'
<1>1. "MatchIdentifier" \in Matching /\ Ended("MatchIdentifier")
  BY DEF EndIdentifier, Matching
<1>2. /\ calling /\ buffer = <<>> /\ Sound(code') /\ Length(code') = Len(file)
      /\ EndOf(Unread(code'), file)
  BY <1>1, EndedFacts
<1>3. /\ UNCHANGED <<file, buffer, status>> /\ parserState' = "SymbolFound"
      /\ Dictionary(dict', Len(Keywords))
      /\ \E symbol \in Words(cache) : Return(symbol) /\ symbol.type # "ERROR"
  BY WordFound
<1>4. PICK symbol : Return(symbol) /\ symbol.type # "ERROR"
  BY <1>3
<1>5. Queued'
  BY <1>2, <1>3 DEF IInv, Queued
<1>6. ErrorLocated'
  <2>1. out' = Append(out, symbol)
    BY <1>4 DEF Return
  <2> QED BY <1>3, <1>4, <2>1, ErrorsKept
<1> QED BY <1>2, <1>3, <1>4, <1>5, <1>6, AfterReturn

LEMMA StepEndNumber ==
  ASSUME IInv, EndNumber
  PROVE  IInv'
<1> DEFINE symbol == NumberSymbol(cache)
<1>1. /\ Ended("MatchNumber") /\ parserState' = "SymbolFound" /\ Return(symbol)
      /\ UNCHANGED <<file, dict, buffer, status>> /\ "MatchNumber" \in Matching
  BY DEF EndNumber, Matching
<1>2. /\ calling /\ buffer = <<>> /\ Sound(code') /\ Length(code') = Len(file)
      /\ EndOf(Unread(code'), file)
  BY <1>1, EndedFacts
<1>3. symbol.type # "ERROR"
  BY SymbolTypes
<1> HIDE DEF symbol
<1>4. Queued'
  BY <1>1, <1>2 DEF IInv, Queued
<1>5. ErrorLocated'
  <2>1. out' = Append(out, symbol)
    BY <1>1 DEF Return
  <2> QED BY <1>1, <1>3, <2>1, ErrorsKept
<1>6. Dictionary(dict', Len(Keywords))
  BY <1>1 DEF IInv
<1> QED BY <1>1, <1>2, <1>4, <1>5, <1>6, AfterReturn

\* What EndOperators delivers and queues.
LEMMA RunSplit ==
  ASSUME IInv, EndOperators
  PROVE  LET ops == Split(cache).ops
         IN  /\ ops \in Seq(OperatorSymbols) /\ ops # <<>> /\ cache \in Seq(OperatorCharset)
             /\ CutFrom(ops, cache, 0) /\ ColonsPaired(cache, 0)
             /\ EndsThere(Unread(code'), OperatorCharset)
<1> DEFINE ops == Split(cache).ops
           ch == read(code).ch
<1>1. Ended("MatchOperator") /\ Split(cache).bad = -1 /\ "MatchOperator" \in Matching
  BY DEF EndOperators, Matching
<1>2. /\ parserState = "MatchOperator" /\ Collects("MatchOperator", cache) /\ ~Continues(ch)
      /\ Unread(code') = Unread(code)
      /\ ch = NUL => Unread(code) = <<>>
      /\ ch # NUL => Unread(code)[1] = ch
  BY <1>1, EndedFacts
<1>3. cache \in Seq(OperatorCharset) /\ 1 <= Len(cache)
  BY <1>2 DEF Collects
<1>4. Split(cache) \in Parts /\ CutRight(cache, 0, Split(cache))
  BY <1>3, SplitCuts
<1>5. ops \in Seq(OperatorSymbols) /\ CutFrom(ops, cache, 0) /\ ColonsPaired(cache, 0)
  BY <1>1, <1>4 DEF CutRight, Parts
<1>6. ops # <<>>
  <2>1. PICK p : CutsAt(p, ops, cache, 0)
    BY <1>5 DEF CutFrom
  <2> HIDE DEF ops
  <2>2. p[0] = 0 /\ p[Len(ops)] = Len(cache)
    BY <2>1 DEF CutsAt
  <2>3. Len(ops) # 0
    BY <1>3, <2>2
  <2> QED BY <1>5, <2>3
<1>7. EndsThere(Unread(code'), OperatorCharset)
  <2>1. ch \notin OperatorCharset
    BY <1>2 DEF Continues
  <2> QED BY <1>2, <2>1 DEF EndsThere
<1> QED BY <1>3, <1>5, <1>6, <1>7

LEMMA StepEndOperators ==
  ASSUME IInv, EndOperators
  PROVE  IInv'
<1> DEFINE ops == Split(cache).ops
           op == Head(ops)
<1>1. /\ Ended("MatchOperator") /\ parserState' = "SymbolFound" /\ Return(op)
      /\ UNCHANGED <<file, dict, status>> /\ buffer' = Tail(ops) /\ "MatchOperator" \in Matching
  BY DEF EndOperators, Matching, PushOthers
<1>2. /\ calling /\ Eof \notin Range(out) /\ Sound(code') /\ Length(code') = Len(file)
      /\ EndOf(Unread(code'), file)
  BY <1>1, EndedFacts
<1>3. /\ ops \in Seq(OperatorSymbols) /\ ops # <<>> /\ cache \in Seq(OperatorCharset)
      /\ CutFrom(ops, cache, 0) /\ ColonsPaired(cache, 0)
      /\ EndsThere(Unread(code'), OperatorCharset)
  BY RunSplit
<1>4. op \in OperatorSymbols /\ Tail(ops) \in Seq(OperatorSymbols)
  <2> HIDE DEF ops
  <2> QED BY <1>3
<1>5. op.type # "ERROR" /\ op # Eof
  BY <1>4, SymbolTypes
<1>6. RestOfRun(Tail(ops))
  <2> HIDE DEF ops, op
  <2>1. 0 \in 0..Len(cache) /\ Len(cache) \in Nat
    BY <1>3
  <2>2. PICK next \in (0 + 1)..Len(cache) : CutFrom(Tail(ops), cache, next) /\ ColonsPaired(cache, next)
    BY <1>3, <2>1, CutTail
  <2>3. next \in 0..Len(cache)
    OBVIOUS
  <2> QED BY <1>3, <2>2, <2>3 DEF RestOfRun
<1> HIDE DEF op, ops
<1>7. out' = Append(out, op) /\ calling' = FALSE
  BY <1>1 DEF Return
<1>8. Eof \notin Range(out')
  <2>1. \E S : out \in Seq(S)
    BY DEF IInv, Handed
  <2>2. Range(Append(out, op)) = Range(out) \cup {op}
    BY <2>1, OneMore
  <2> QED BY <1>2, <1>5, <1>7, <2>2
<1>9. Queued'
  BY <1>1, <1>3, <1>4, <1>6, <1>7, <1>8 DEF Queued
<1>10. ErrorLocated'
  BY <1>1, <1>5, <1>7, ErrorsKept
<1>11. Dictionary(dict', Len(Keywords))
  BY <1>1 DEF IInv
<1> QED BY <1>1, <1>2, <1>9, <1>10, <1>11, AfterReturn

\* The colon a run could not be cut at: where it stands in the file, and the
\* position an error would name.
OffsetOfBad == (Len(file) - Len(cache \o Unread(code))) + Split(cache).bad

LEMMA BadColonFound ==
  ASSUME IInv, Ended("MatchOperator"), Split(cache).bad # -1
  PROVE  LET ch == read(code).ch
             at == ErrorAt(code', Len(cache), Split(cache).bad)
             offset == OffsetOfBad
         IN  /\ offset \in 0..(Len(file) - 1) /\ file[offset + 1] = ":"
             /\ ~(offset + 2 <= Len(file) /\ file[offset + 2] = "=")
             /\ ch = NUL => /\ at = offset - 1
                            /\ \A i \in (offset + 1)..Len(file) : file[i] \in OperatorCharset
             /\ ch # NUL => /\ at = offset
                            /\ \E i \in (offset + 1)..Len(file) : file[i] \notin OperatorCharset
<1> DEFINE ch == read(code).ch
           bad == Split(cache).bad
           at == ErrorAt(code', Len(cache), bad)
           u == Unread(code)
           r == cache \o u
           n == Len(file)
           m == Len(cache)
           offset == (n - Len(r)) + bad
<1>1. "MatchOperator" \in Matching
  BY DEF Matching
<1>2. /\ parserState = "MatchOperator" /\ Collects("MatchOperator", cache) /\ ~Continues(ch)
      /\ ch = NUL => u = <<>> /\ code'.position = n - 1
      /\ ch # NUL => u # <<>> /\ u[1] = ch /\ code'.position = n - Len(u)
  BY <1>1, EndedFacts
<1>3. cache \in Seq(OperatorCharset) /\ 1 <= m /\ m \in Nat
  BY <1>2 DEF Collects
<1>4. bad \in 0..(m - 1) /\ ColonAlone(cache, bad)
  BY <1>3, SplitCuts DEF CutRight
<1>5. ch \notin OperatorCharset
  BY <1>2 DEF Continues
<1>6. /\ cache \in Seq(Chars) /\ u \in Seq(Chars) /\ file \in Seq(Chars) /\ EndOf(r, file)
  BY CacheTyped
<1> HIDE DEF u
<1>7. /\ Len(r) = m + Len(u) /\ Len(u) \in Nat
      /\ \A k \in 1..m : r[k] = cache[k]
      /\ \A k \in 1..Len(u) : r[m + k] = u[k]
  BY <1>6, ConcatParts
<1> HIDE DEF r
<1>8. /\ n \in Nat /\ m + Len(u) <= n
      /\ \A k \in 1..(m + Len(u)) : file[(n - (m + Len(u))) + k] = r[k]
  BY <1>6, <1>7 DEF EndOf
<1>9. at = code'.position - (m - bad)
  BY DEF ErrorAt
<1> HIDE DEF bad, ch, at, n, m
<1> DEFINE base == n - (m + Len(u))
<1>10. base \in Nat /\ offset = base + bad
  BY <1>7, <1>8
<1>11. /\ \A k \in 1..m : file[base + k] = cache[k]
       /\ \A k \in 1..Len(u) : file[base + (m + k)] = u[k]
  <2>1. \A k \in 1..m : k \in 1..(m + Len(u))
    BY <1>3, <1>7
  <2>2. \A k \in 1..Len(u) : m + k \in 1..(m + Len(u))
    BY <1>3, <1>7
  <2> QED BY <1>7, <1>8, <2>1, <2>2
<1>12. n = base + (m + Len(u))
  BY <1>3, <1>7, <1>8
<1> HIDE DEF base
<1>13. offset \in 0..(n - 1)
  BY <1>3, <1>4, <1>7, <1>10, <1>12
<1>14. file[offset + 1] = ":"
  <2>1. bad + 1 \in 1..m /\ offset + 1 = base + (bad + 1)
    BY <1>3, <1>4, <1>10
  <2>2. cache[bad + 1] = ":"
    BY <1>4 DEF ColonAlone
  <2> QED BY <1>11, <2>1, <2>2
<1>15. "=" \in OperatorCharset
  BY DEF OperatorCharset
<1>16. ASSUME offset + 2 <= n, file[offset + 2] = "=" PROVE FALSE
  <2>1. CASE bad + 2 <= m
    <3>1. bad + 2 \in 1..m /\ offset + 2 = base + (bad + 2)
      BY <1>3, <1>4, <1>10, <2>1
    <3>2. cache[bad + 2] = "="
      BY <1>11, <1>16, <3>1
    <3>3. 2 \in Nat /\ bad + 2 <= Len(cache)
      BY <2>1 DEF m
    <3> QED BY <1>4, <3>2, <3>3 DEF ColonAlone
  <2>2. CASE ~(bad + 2 <= m)
    <3>1. bad = m - 1
      BY <1>3, <1>4, <2>2
    <3>2. 1 \in 1..Len(u) /\ offset + 2 = base + (m + 1)
      BY <1>3, <1>7, <1>10, <1>12, <1>16, <3>1
    <3>3. u[1] = "="
      BY <1>11, <1>16, <3>2
    <3>4. u # <<>>
      BY <3>2
    <3>5. u[1] = ch
      BY <1>2, <3>4
    <3> QED BY <1>5, <1>15, <3>3, <3>5
  <2> QED BY <2>1, <2>2
<1>17. ASSUME ch = NUL
       PROVE  at = offset - 1 /\ \A i \in (offset + 1)..n : file[i] \in OperatorCharset
  <2>1. Len(u) = 0 /\ code'.position = n - 1
    BY <1>2, <1>17
  <2>2. at = offset - 1
    BY <1>3, <1>4, <1>9, <1>10, <1>12, <2>1
  <2>3. ASSUME NEW i \in (offset + 1)..n PROVE file[i] \in OperatorCharset
    <3>1. i - base \in 1..m /\ base + (i - base) = i
      BY <1>3, <1>4, <1>10, <1>12, <2>1
    <3>2. \A k \in 1..m : cache[k] \in OperatorCharset
      BY <1>3 DEF m
    <3>3. file[base + (i - base)] = cache[i - base]
      BY <1>11, <3>1
    <3> QED BY <3>1, <3>2, <3>3
  <2> QED BY <2>2, <2>3
<1>18. ASSUME ch # NUL
       PROVE  at = offset /\ \E i \in (offset + 1)..n : file[i] \notin OperatorCharset
  <2>1. u # <<>> /\ u[1] = ch /\ code'.position = n - Len(u)
    BY <1>2, <1>18
  <2>2. Len(u) # 0 /\ 1 \in 1..Len(u)
    BY <1>6, <1>7, <2>1
  <2>3. at = offset
    BY <1>3, <1>4, <1>7, <1>9, <1>10, <1>12, <2>1
  <2>4. base + (m + 1) \in (offset + 1)..n
    BY <1>3, <1>4, <1>7, <1>10, <1>12, <2>2
  <2>5. file[base + (m + 1)] \notin OperatorCharset
    BY <1>5, <1>11, <2>1, <2>2
  <2> QED BY <2>3, <2>4, <2>5
<1>19. offset = OffsetOfBad
  BY DEF OffsetOfBad, n, r, u, bad
<1> HIDE DEF offset
<1> QED BY <1>13, <1>14, <1>16, <1>17, <1>18, <1>19 DEF ch, at, bad, n, m

LEMMA StepThrow ==
  ASSUME IInv, Throw
  PROVE  IInv'
<1> DEFINE ch == read(code).ch
           at == ErrorAt(code', Len(cache), Split(cache).bad)
           offset == OffsetOfBad
           symbol == Error(at)
<1>1. /\ Ended("MatchOperator") /\ Split(cache).bad # -1 /\ Return(symbol)
      /\ UNCHANGED <<file, dict, parserState, buffer, status>> /\ "MatchOperator" \in Matching
  BY DEF Throw, Matching
<1>2. /\ calling /\ buffer = <<>> /\ parserState = "MatchOperator"
      /\ Sound(code') /\ Length(code') = Len(file) /\ EndOf(Unread(code'), file)
  BY <1>1, EndedFacts
<1>3. /\ offset \in 0..(Len(file) - 1) /\ file[offset + 1] = ":"
      /\ ~(offset + 2 <= Len(file) /\ file[offset + 2] = "=")
      /\ ch = NUL => /\ at = offset - 1
                     /\ \A i \in (offset + 1)..Len(file) : file[i] \in OperatorCharset
      /\ ch # NUL => /\ at = offset
                     /\ \E i \in (offset + 1)..Len(file) : file[i] \notin OperatorCharset
  BY <1>1, BadColonFound
<1>4. symbol.at = at
  BY SymbolTypes
<1> HIDE DEF ch, at, offset
<1>5. LocatedIn(file, at)
  <2>1. CASE ch = NUL
    <3>1. offset \in {at, at + 1} /\ offset = at + 1
      BY <1>3, <2>1
    <3> QED BY <1>3, <2>1, <3>1 DEF LocatedIn
  <2>2. CASE ch # NUL
    <3>1. offset \in {at, at + 1} /\ offset # at + 1
      BY <1>3, <2>2
    <3> QED BY <1>3, <2>2, <3>1 DEF LocatedIn
  <2> QED BY <2>1, <2>2
<1> HIDE DEF symbol
<1>6. out' = Append(out, symbol)
  BY <1>1 DEF Return
<1>7. ErrorLocated'
  <2>1. \E S : out \in Seq(S)
    BY DEF IInv, Handed
  <2>2. /\ DOMAIN out = 1..Len(out) /\ Len(out) \in Nat /\ DOMAIN out' = 1..(Len(out) + 1)
        /\ \A i \in 1..Len(out) : out'[i] = out[i]
        /\ out'[Len(out) + 1] = symbol
    BY <1>6, <2>1, OneMore
  <2>3. ErrorLocated
    BY DEF IInv
  <2>4. \A i \in DOMAIN out' : (i \in DOMAIN out /\ out'[i] = out[i]) \/ out'[i] = symbol
    <3>1. \A i \in 1..(Len(out) + 1) : i \in 1..Len(out) \/ i = Len(out) + 1
      BY <2>2
    <3> QED BY <2>2, <3>1
  <2> QED BY <1>1, <1>4, <1>5, <2>3, <2>4, ErrorsLocatedIn
<1>8. Queued'
  BY <1>1, <1>2 DEF IInv, Queued
<1>9. Dictionary(dict', Len(Keywords))
  BY <1>1 DEF IInv
<1>10. parserState' \in Matching \cup {"BeginMatch", "SymbolFound", "Finished"}
  BY <1>1, <1>2
<1> QED BY <1>1, <1>2, <1>7, <1>8, <1>9, <1>10, AfterReturn

LEMMA StepAbort ==
  ASSUME IInv, Abort
  PROVE  IInv'
<1> DEFINE ch == read(code).ch
           at == ErrorAt(code', Len(cache), Split(cache).bad)
           offset == OffsetOfBad
           n == Len(file)
<1>1. /\ Ended("MatchOperator") /\ Split(cache).bad # -1 /\ BlankLine(at) /\ status' = "aborted"
      /\ UNCHANGED <<file, dict, parserState, calling, cache, buffer, out>>
      /\ "MatchOperator" \in Matching
  BY DEF Abort, Matching
<1>2. /\ calling /\ buffer = <<>> /\ parserState = "MatchOperator"
      /\ Sound(code') /\ Length(code') = n /\ Unread(code') = Unread(code)
  BY <1>1, EndedFacts
<1>3. /\ offset \in 0..(n - 1) /\ file[offset + 1] = ":"
      /\ ~(offset + 2 <= n /\ file[offset + 2] = "=")
      /\ ch = NUL => at = offset - 1 /\ \A i \in (offset + 1)..n : file[i] \in OperatorCharset
      /\ ch # NUL => at = offset
  BY <1>1, BadColonFound
<1> HIDE DEF ch, at, offset
<1>4. \A i \in 1..n : LineOf(i - 1) = Shown(at) => file[i] \in {" ", "\t", "\n"}
  BY <1>1 DEF BlankLine
<1>5. n \in Nat
  BY CacheTyped
<1>6. ":" \in OperatorCharset
  BY DEF OperatorCharset
<1>7. ASSUME at = offset PROVE FALSE
  <2>1. offset + 1 \in 1..n /\ (offset + 1) - 1 = offset /\ ~(offset < 0)
    BY <1>3, <1>5
  <2>2. LineOf((offset + 1) - 1) = Shown(at)
    BY <1>7, <2>1 DEF Shown
  <2> QED BY <1>3, <1>4, <1>6, <2>1, <2>2, BlanksAside
<1>8. ch = NUL
  BY <1>3, <1>7
<1>9. offset # 0
  <2> SUFFICES ASSUME offset = 0 PROVE FALSE
    OBVIOUS
  <2>1. at < 0 /\ n \in 1..n /\ n \in (offset + 1)..n
    BY <1>3, <1>5, <1>8
  <2>2. LineOf(n - 1) = Shown(at)
    BY <2>1 DEF Shown
  <2>3. file[n] \in {" ", "\t", "\n"}
    BY <1>4, <2>1, <2>2
  <2>4. file[n] \in OperatorCharset
    BY <1>3, <1>8, <2>1
  <2> QED BY <2>3, <2>4, BlanksAside
<1>10. AbortsAtEndOnly'
  <2>1. offset \in 1..(n - 1)
    BY <1>3, <1>5, <1>9
  <2>2. PICK o \in 1..(n - 1) : o = offset
    BY <2>1
  <2>3. /\ o \in 1..(Len(file') - 1) /\ o \in 0..(Len(file') - 1) /\ file'[o + 1] = ":"
        /\ ~(o + 2 <= Len(file') /\ file'[o + 2] = "=")
        /\ \A i \in (o + 1)..Len(file') : file'[i] \in OperatorCharset
    BY <1>1, <1>3, <1>8, <2>2
  <2> QED BY <2>3 DEF AbortsAtEndOnly, EndsFile, BadColon
<1>11. OverrunByLongOnly'
  BY <1>1 DEF OverrunByLongOnly
<1>12. Reading'
  <2>1. file \in Seq(Chars) /\ EndOf(cache \o Unread(code), file)
    BY CacheTyped
  <2>2. Unread(code)' = Unread(code)
    BY <1>2
  <2> QED BY <1>1, <1>2, <2>1, <2>2 DEF Reading
<1>13. Control' /\ Collected' /\ Queued' /\ Handed'
  BY <1>1, <1>2 DEF IInv, Control, Collected, Queued, Handed
<1>14. ErrorLocated'
  BY <1>1, ErrorsKept
<1>15. Dictionary(dict', Len(Keywords))
  BY <1>1 DEF IInv
<1> QED BY <1>10, <1>11, <1>12, <1>13, <1>14, <1>15 DEF IInv

LEMMA StepOverrun ==
  ASSUME IInv, Overrun
  PROVE  IInv'
<1> DEFINE u == Unread(code)
           n == Len(file)
           m == Len(cache)
           r == cache \o u
<1>1. /\ parserState \in Matching \ {"MatchEchoLetter"} /\ calling /\ ~Room /\ status' = "undefined"
      /\ UNCHANGED <<file, code, dict, parserState, calling, cache, buffer, out>>
  BY DEF Overrun, In
<1>2. Collects(parserState, cache) /\ m <= CacheSize
  BY <1>1 DEF IInv, Collected
<1>3. /\ cache \in Seq(Chars) /\ u \in Seq(Chars) /\ file \in Seq(Chars) /\ EndOf(r, file)
  BY CacheTyped
<1>4. m = CacheSize /\ m \in Nat /\ 1 <= m
  <2>1. m \in Nat /\ 1 <= m /\ CacheSize \in Nat /\ ~(m < CacheSize)
    BY <1>1, <1>2, <1>3, SymbolParserAssumption DEF Collects, Room
  <2> HIDE DEF m
  <2> QED BY <1>2, <2>1
<1> HIDE DEF u
<1>5. /\ Len(r) = m + Len(u) /\ Len(u) \in Nat
      /\ \A k \in 1..m : r[k] = cache[k]
  BY <1>3, ConcatParts
<1> HIDE DEF r
<1>6. /\ n \in Nat /\ m + Len(u) <= n
      /\ \A k \in 1..(m + Len(u)) : file[(n - (m + Len(u))) + k] = r[k]
  BY <1>3, <1>5 DEF EndOf
<1> HIDE DEF n, m
<1> DEFINE base == n - (m + Len(u))
           i == base + 1
<1>7. base \in Nat /\ i \in 1..((n - CacheSize) + 1)
  BY <1>4, <1>5, <1>6
<1>8. \A k \in i..(i + (CacheSize - 1)) : k - base \in 1..m /\ file[k] = cache[k - base]
  <2> TAKE k \in i..(i + (CacheSize - 1))
  <2>1. k - base \in 1..m /\ base + (k - base) = k /\ k - base \in 1..(m + Len(u))
    BY <1>4, <1>5, <1>7
  <2>2. file[base + (k - base)] = r[k - base]
    BY <1>6, <2>1
  <2> QED BY <1>5, <2>1, <2>2
<1> HIDE DEF base
<1>9. Symbolic(i, i + (CacheSize - 1))
  <2>1. CASE parserState = "MatchIdentifier"
    <3>1. \A k \in 1..m : cache[k] \in (Lower \cup Upper) \cup Range(Digits)
      BY <1>2, <2>1 DEF Collects, m
    <3> QED BY <1>8, <3>1 DEF Symbolic, isalpha, isdigit
  <2>2. CASE parserState = "MatchNumber"
    <3>1. \A k \in 1..m : cache[k] \in Range(Digits)
      BY <1>2, <2>2 DEF Collects, m
    <3> QED BY <1>8, <3>1 DEF Symbolic, isalpha, isdigit
  <2>3. CASE parserState = "MatchOperator"
    <3>1. \A k \in 1..m : cache[k] \in OperatorCharset
      BY <1>2, <2>3 DEF Collects, m
    <3> QED BY <1>8, <3>1 DEF Symbolic
  <2> QED BY <1>1, <2>1, <2>2, <2>3 DEF Matching
<1>10. OverrunByLongOnly'
  <2> HIDE DEF i
  <2>1. PICK k \in 1..((n - CacheSize) + 1) : k = i
    BY <1>7
  <2>2. /\ k \in 1..((Len(file') - CacheSize) + 1)
        /\ \/ \A j \in k..(k + (CacheSize - 1)) : isalpha(file'[j]) \/ isdigit(file'[j])
           \/ \A j \in k..(k + (CacheSize - 1)) : file'[j] \in OperatorCharset
    BY <1>1, <1>9, <2>1 DEF Symbolic, n
  <2> QED BY <2>2 DEF OverrunByLongOnly, Symbolic
<1>11. AbortsAtEndOnly'
  BY <1>1 DEF AbortsAtEndOnly
<1>12. Reading' /\ Control' /\ Collected'
  BY <1>1 DEF IInv, Reading, Control, Collected
<1>13. Queued' /\ Handed'
  BY <1>1 DEF IInv, Queued, Handed
<1>14. ErrorLocated'
  BY <1>1, ErrorsKept
<1>15. Dictionary(dict', Len(Keywords))
  BY <1>1 DEF IInv
<1> QED BY <1>10, <1>11, <1>12, <1>13, <1>14, <1>15 DEF IInv

LEMMA Inductive ==
  ASSUME IInv, [Next]_vars
  PROVE  IInv'
<1>1. CASE UNCHANGED vars
  BY <1>1, Unchanged
<1>2. CASE Next
  BY <1>2, StepDeliverBuffered, StepDeliverEof, StepEnter, StepBeginMatch, StepEndOfSource,
     StepMatchEchoLetter, StepMatchMore, StepEndIdentifier, StepEndNumber, StepEndOperators,
     StepThrow, StepAbort, StepOverrun DEF Next
<1> QED BY <1>1, <1>2

LEMMA InvHolds == Spec => []IInv
<1>1. Init => IInv
  BY InvInit
<1>2. IInv /\ [Next]_vars => IInv'
  BY Inductive
<1> QED BY <1>1, <1>2, PTL DEF Spec
-----------------------------------------------------------------------------
\* The object that reads the file, the states and the lengths stay what they
\* are declared as: at most one character is pushed back, and cache never holds
\* more than it has room for (SourceCode.h, SymbolParser.h).
THEOREM TypeCorrect == Spec => []TypeOK
<1>1. IInv => TypeOK
  <2> SUFFICES ASSUME IInv PROVE TypeOK
    OBVIOUS
  <2>1. Sound(code) /\ code \in CodeObjects
    BY DEF IInv, Reading, Sound
  <2>2. code.input_buf_ptr \in 0..Len(code.input_buf) /\ Len(code.input_buf) <= BufferLength
    BY <2>1 DEF Sound, CodeObjects
  <2>3. Len(code.undo_buf) <= 1
    <3>1. CASE code.undo_buf = <<>>
      <4>1. Len(<<>>) = 0
        OBVIOUS
      <4> QED BY <3>1, <4>1
    <3>2. CASE \E ch : code.undo_buf = <<ch>>
      <4>1. \A ch : Len(<<ch>>) = 1
        OBVIOUS
      <4> QED BY <3>2, <4>1
    <3> QED BY <2>1, <3>1, <3>2 DEF Sound
  <2>4. Len(cache) <= CacheSize
    <3>1. CASE cache = <<>>
      <4>1. Len(<<>>) = 0
        OBVIOUS
      <4> QED BY <3>1, <4>1, SymbolParserAssumption
    <3> QED BY <3>1 DEF IInv, Collected
  <2>5. buffer # <<>> => ~calling
    BY DEF IInv, Queued
  <2> QED BY <2>2, <2>3, <2>4, <2>5 DEF TypeOK, IInv, Control
<1> QED BY <1>1, InvHolds, PTL

\* Every error names the colon that begins no operator, or the character in
\* front of it when the run ends the file (SymbolParser.cpp:118).
THEOREM ErrorsLocated == Spec => []ErrorLocated
<1>1. IInv => ErrorLocated
  BY DEF IInv
<1> QED BY <1>1, InvHolds, PTL

\* The compiler dies without a message only on such an error at the end of the
\* file (SyntaxError.h:35).
THEOREM AbortsOnlyAtEnd == Spec => []AbortsAtEndOnly
<1>1. IInv => AbortsAtEndOnly
  BY DEF IInv
<1> QED BY <1>1, InvHolds, PTL

\* cache is overrun only by a run of as many letters and digits, or operator
\* characters, as it holds (SymbolParser.cpp:41).
THEOREM OverrunsByLongOnly == Spec => []OverrunByLongOnly
<1>1. IInv => OverrunByLongOnly
  BY DEF IInv
<1> QED BY <1>1, InvHolds, PTL

-----------------------------------------------------------------------------
(***************************************************************************)
(* The refinement: what is undelivered and what is delivered, of any       *)
(* values of the variables.                                                *)
(***************************************************************************)
RestOf(state, buf, text, left) ==
  IF state = "Finished" THEN <<>> ELSE (FlattenSeq(Spelling(buf)) \o text) \o left

HandedOf(o) ==
  [i \in DOMAIN o |-> IF o[i].type = "ERROR" THEN Error(0) ELSE o[i]]

LEMMA MappedTo ==
  /\ Undelivered = RestOf(parserState, buffer, cache, Unread(code))
  /\ Undelivered' = RestOf(parserState', buffer', cache', Unread(code'))
  /\ Delivered = HandedOf(out) /\ Delivered' = HandedOf(out')
<1>1. Undelivered = RestOf(parserState, buffer, cache, Unread(code))
  BY DEF Undelivered, RestOf, Spelling
<1>2. Undelivered' = RestOf(parserState', buffer', cache', Unread(code'))
  BY DEF Undelivered, RestOf, Spelling
<1>3. Delivered = HandedOf(out) /\ Delivered' = HandedOf(out')
  BY DEF Delivered, HandedOf
<1> QED BY <1>1, <1>2, <1>3

\* With nothing on buffer.
LEMMA RestPlain ==
  \A state : \A text, left \in Seq(Chars) :
    state # "Finished" => RestOf(state, <<>>, text, left) = text \o left
<1> TAKE state
<1> TAKE text, left \in Seq(Chars)
<1> HAVE state # "Finished"
<1> DEFINE none == <<>>
<1>1. none = <<>> /\ none \in Seq(Chars) /\ DOMAIN none = {} /\ Len(none) = 0
  OBVIOUS
<1>2. Spelling(none) = none
  <2>1. Spelling(none) = [k \in {} |-> none[k].name]
    BY <1>1 DEF Spelling
  <2> QED BY <2>1
<1> HIDE DEF none
<1>3. FlattenSeq(none) = none
  BY <1>1 DEF FlattenSeq
<1>4. none \o text = text
  BY <1>1, NothingInFront
<1>5. RestOf(state, none, text, left) = (FlattenSeq(Spelling(none)) \o text) \o left
  BY DEF RestOf
<1> QED BY <1>1, <1>2, <1>3, <1>4, <1>5

\* With the rest of a run on it.
LEMMA RestQueued ==
  ASSUME NEW state, state # "Finished", NEW run \in Seq(OperatorCharset), NEW i \in 0..Len(run),
         NEW ops \in Seq(OperatorSymbols), CutFrom(ops, run, i), NEW left \in Seq(Chars)
  PROVE  RestOf(state, ops, <<>>, left) = SubSeq(run, i + 1, Len(run)) \o left
<1> DEFINE none == <<>>
           w == SubSeq(run, i + 1, Len(run))
<1>1. none = <<>>
  OBVIOUS
<1>2. FlattenSeq(Spelling(ops)) = w
  BY FlattenCut
<1>3. w \in Seq(OperatorCharset)
  <2>1. i \in Nat /\ Len(run) \in Nat
    OBVIOUS
  <2> QED BY <2>1
<1> HIDE DEF w, none
<1>4. w \in Seq(Chars)
  BY <1>3, CharsetInChars
<1>5. w \o none = w
  BY <1>1, <1>4, NothingInFront
<1>6. RestOf(state, ops, none, left) = (FlattenSeq(Spelling(ops)) \o none) \o left
  BY DEF RestOf
<1> QED BY <1>1, <1>2, <1>5, <1>6 DEF w

LEMMA HandedMore ==
  ASSUME NEW o, \E S : o \in Seq(S), NEW symbol
  PROVE  /\ HandedOf(Append(o, symbol))
              = Append(HandedOf(o), IF symbol.type = "ERROR" THEN Error(0) ELSE symbol)
         /\ Eof \in Range(HandedOf(o)) <=> Eof \in Range(o)
<1> DEFINE Hand(s) == IF s.type = "ERROR" THEN Error(0) ELSE s
           d == HandedOf(o)
           e == HandedOf(Append(o, symbol))
           n == Len(o)
           T == {Hand(o[i]) : i \in 1..n} \cup {Hand(symbol)}
<1>1. /\ DOMAIN o = 1..n /\ n \in Nat /\ DOMAIN Append(o, symbol) = 1..(n + 1)
      /\ \A i \in 1..n : Append(o, symbol)[i] = o[i]
      /\ Append(o, symbol)[n + 1] = symbol
  BY OneMore
<1> HIDE DEF n
<1>2. d = [i \in 1..n |-> Hand(o[i])]
  BY <1>1 DEF HandedOf
<1>3. e = [i \in 1..(n + 1) |-> Hand(Append(o, symbol)[i])]
  BY <1>1 DEF HandedOf
<1> HIDE DEF d, e
<1>4. d \in Seq(T) /\ Len(d) = n /\ Hand(symbol) \in T
  <2>1. d \in [1..n -> T] /\ Hand(symbol) \in T
    BY <1>2
  <2> HIDE DEF T
  <2> QED BY <1>1, <2>1
<1>5. e \in Seq(T) /\ Len(e) = n + 1
  <2>1. \A i \in 1..(n + 1) : i \in 1..n \/ i = n + 1
    BY <1>1
  <2>2. \A i \in 1..(n + 1) : Hand(Append(o, symbol)[i]) \in T
    BY <1>1, <2>1
  <2>3. e \in [1..(n + 1) -> T]
    BY <1>3, <2>2
  <2> HIDE DEF T
  <2> QED BY <1>1, <2>3
<1> DEFINE x == Hand(symbol)
<1>6. e = Append(d, x)
  <2> HIDE DEF T
  <2>1. /\ Append(d, x) \in Seq(T) /\ Len(Append(d, x)) = n + 1
        /\ \A i \in 1..n : Append(d, x)[i] = d[i]
        /\ Append(d, x)[n + 1] = x
    BY <1>4, AppendProperties
  <2>2. \A i \in 1..(n + 1) : i \in 1..n \/ i = n + 1
    BY <1>1
  <2>3. \A i \in 1..n : i \in 1..(n + 1) /\ e[i] = d[i]
    BY <1>1, <1>2, <1>3
  <2>4. e[n + 1] = x
    <3>1. n + 1 \in 1..(n + 1)
      BY <1>1
    <3> QED BY <1>1, <1>3, <3>1
  <2> HIDE DEF x
  <2>5. \A i \in 1..(n + 1) : e[i] = Append(d, x)[i]
    BY <2>1, <2>2, <2>3, <2>4
  <2> DEFINE p == Append(d, x)
  <2> HIDE DEF p
  <2>6. e \in Seq(T) /\ p \in Seq(T) /\ Len(e) = Len(p) /\ \A i \in 1..Len(e) : e[i] = p[i]
    BY <1>5, <2>1, <2>5 DEF p
  <2>7. e = p
    BY ONLY <2>6, SeqEqual
  <2> QED BY <2>7 DEF p
<1>7. Eof \in Range(d) <=> Eof \in Range(o)
  <2>1. \A s : Hand(s) = Eof <=> s = Eof
    BY SymbolTypes
  <2>2. DOMAIN d = 1..n /\ \A i \in 1..n : d[i] = Hand(o[i])
    BY <1>2
  <2> HIDE DEF Hand
  <2>3. \A i \in 1..n : d[i] = Eof <=> o[i] = Eof
    BY <2>1, <2>2
  <2> QED BY <1>1, <2>2, <2>3 DEF Range
<1> QED BY <1>6, <1>7 DEF d, e

\* The operators of Tokens, under their names in this module.
LEMMA TaskNames ==
  /\ \A C : Task!Run(C) = LongestRun(Undelivered, C)
  /\ \A run : Task!Bad(run) <=> BadRun(run)
  /\ \A s, t : Task!IsPrefix(s, t) <=> IsPrefix(s, t)
  /\ \A o : Task!Range(o) = Range(o)
  /\ \A text : Task!Cut(text) <=> Undelivered' = SubSeq(Undelivered, Len(text) + 1, Len(Undelivered))
<1>1. \A C : Task!Run(C) = LongestRun(Undelivered, C)
  BY DEF Task!Run, LongestRun
<1>2. \A run : Task!Bad(run) <=> BadRun(run)
  BY DEF Task!Bad, BadRun
<1>3. \A s, t : Task!IsPrefix(s, t) <=> IsPrefix(s, t)
  BY DEF Task!IsPrefix, IsPrefix
<1>4. \A o : Task!Range(o) = Range(o)
  BY DEF Task!Range, Range
<1>5. \A text : Task!Cut(text) <=> Undelivered' = SubSeq(Undelivered, Len(text) + 1, Len(Undelivered))
  BY DEF Task!Cut
<1> QED BY <1>1, <1>2, <1>3, <1>4, <1>5

-----------------------------------------------------------------------------
(***************************************************************************)
(* Every step of nextSymbol cuts off a symbol, or nothing.                 *)
(***************************************************************************)
LEMMA CutFacts ==
  \A s, u \in Seq(Chars) : 1 <= Len(s) =>
    /\ s \o u \in Seq(Chars) /\ s \o u # <<>> /\ Head(s \o u) = s[1]
    /\ SubSeq(s \o u, Len(s) + 1, Len(s \o u)) = u
<1> TAKE s, u \in Seq(Chars)
<1> HAVE 1 <= Len(s)
<1> DEFINE r == s \o u
<1>1. /\ r \in Seq(Chars) /\ Len(r) = Len(s) + Len(u) /\ Len(s) \in Nat /\ Len(u) \in Nat
      /\ \A k \in 1..Len(s) : r[k] = s[k]
      /\ SubSeq(r, Len(s) + 1, Len(r)) = u
  BY ConcatParts
<1> HIDE DEF r
<1>2. r # <<>> /\ 1 \in 1..Len(s)
  <2>1. Len(r) # 0
    BY <1>1
  <2> QED BY <1>1, <2>1
<1>3. Head(r) = r[1]
  BY <1>1, <1>2
<1> QED BY <1>1, <1>2, <1>3 DEF r

LEMMA HandOn ==
  ASSUME IInv
  PROVE  /\ Eof \in Range(Delivered) <=> Eof \in Range(out)
         /\ \A symbol : out' = Append(out, symbol) =>
              Delivered' = Append(Delivered, IF symbol.type = "ERROR" THEN Error(0) ELSE symbol)
         /\ out' = out => Delivered' = Delivered
<1>1. \E S : out \in Seq(S)
  BY DEF IInv, Handed
<1>2. \A symbol :
        /\ HandedOf(Append(out, symbol))
             = Append(HandedOf(out), IF symbol.type = "ERROR" THEN Error(0) ELSE symbol)
        /\ Eof \in Range(HandedOf(out)) <=> Eof \in Range(out)
  BY <1>1, HandedMore
<1>3. Delivered = HandedOf(out) /\ Delivered' = HandedOf(out')
  BY MappedTo
<1> QED BY <1>2, <1>3

\* In the middle of a call.
LEMMA CallRest ==
  ASSUME IInv, calling
  PROVE  Undelivered = cache \o Unread(code) /\ Eof \notin Range(Delivered)
<1>1. buffer = <<>> /\ Eof \notin Range(out)
  BY InCall
<1>2. parserState # "Finished"
  BY DEF IInv, Control, Matching
<1>3. cache \in Seq(Chars) /\ Unread(code) \in Seq(Chars)
  BY CacheTyped
<1>4. Undelivered = RestOf(parserState, <<>>, cache, Unread(code))
  BY <1>1, MappedTo
<1> QED BY <1>1, <1>2, <1>3, <1>4, RestPlain, HandOn

\* After a step that leaves nothing on buffer.
LEMMA RestAfter ==
  ASSUME buffer' = <<>>, parserState' # "Finished", NEW text \in Seq(Chars), cache' = text,
         NEW left \in Seq(Chars), Unread(code') = left
  PROVE  Undelivered' = text \o left
<1>1. Undelivered' = RestOf(parserState', <<>>, text, left)
  BY MappedTo
<1> QED BY <1>1, RestPlain

LEMMA TaskInit == Init => Task!Init
<1> SUFFICES ASSUME Init PROVE Task!Init
  OBVIOUS
<1> DEFINE none == <<>>
<1>1. /\ file \in Sources /\ file \in Seq(Chars) /\ code = open(file) /\ cache = none
      /\ parserState \in {"BeginMatch", "Finished"} /\ buffer = none /\ out = none
  BY SourcesTyped DEF Init
<1>2. none = <<>> /\ none \in Seq(Chars) /\ DOMAIN none = {}
  OBVIOUS
<1> HIDE DEF none
<1>3. Undelivered \in Sources \cup {<<>>}
  <2>1. Undelivered = RestOf(parserState, none, none, Unread(code))
    BY <1>1, MappedTo
  <2>2. Unread(code) = file
    BY <1>1, OpenSound
  <2>3. CASE parserState = "Finished"
    BY <2>1, <2>3 DEF RestOf
  <2>4. CASE parserState # "Finished"
    <3>1. RestOf(parserState, none, none, file) = none \o file
      BY <1>1, <1>2, <2>4, RestPlain
    <3>2. none \o file = file
      BY <1>1, <1>2, NothingInFront
    <3> QED BY <1>1, <2>1, <2>2, <3>1, <3>2
  <2> QED BY <2>3, <2>4
<1>4. Delivered = <<>>
  <2>1. Delivered = [i \in {} |-> IF none[i].type = "ERROR" THEN Error(0) ELSE none[i]]
    BY <1>1, <1>2 DEF Delivered
  <2> QED BY <2>1
<1> QED BY <1>3, <1>4 DEF Task!Init

\* An operator is delivered, out of a run or off buffer.
LEMMA TaskOperator ==
  ASSUME NEW run \in Seq(OperatorCharset), NEW i \in 0..Len(run), NEW op, NEW next,
         FitsAt(op, run, i, next), ColonsPaired(run, i),
         NEW u \in Seq(Chars), EndsThere(u, OperatorCharset),
         Undelivered = SubSeq(run, i + 1, Len(run)) \o u,
         Undelivered' = SubSeq(run, next + 1, Len(run)) \o u,
         Eof \notin Range(Delivered), Delivered' = Append(Delivered, op)
  PROVE  Task!Operator
<1> DEFINE rest == SubSeq(run, i + 1, Len(run)) \o u
           left == SubSeq(run, next + 1, Len(run)) \o u
<1>0. OperatorNext(rest, op, left)
  BY LongestOperator
<1>2. Undelivered = rest /\ Undelivered' = left
  OBVIOUS
<1> HIDE DEF rest, left
<1>1. /\ rest # <<>> /\ Head(rest) \in OperatorCharset
      /\ ~BadRun(LongestRun(rest, OperatorCharset))
      /\ \E j \in DOMAIN Operators :
           /\ op = OperatorSymbol(j) /\ IsPrefix(Operators[j], rest)
           /\ \A k \in DOMAIN Operators :
                IsPrefix(Operators[k], rest) => Len(Operators[k]) <= Len(Operators[j])
           /\ SubSeq(rest, Len(Operators[j]) + 1, Len(rest)) = left
  BY <1>0 DEF OperatorNext
<1>3. Task!Reading
  BY <1>1, <1>2, TaskNames DEF Task!Reading
<1>4. ~Task!Bad(Task!Run(OperatorCharset))
  BY <1>1, <1>2, TaskNames
<1>5. PICK j \in DOMAIN Operators :
           /\ op = OperatorSymbol(j) /\ IsPrefix(Operators[j], rest)
           /\ \A k \in DOMAIN Operators :
                IsPrefix(Operators[k], rest) => Len(Operators[k]) <= Len(Operators[j])
           /\ SubSeq(rest, Len(Operators[j]) + 1, Len(rest)) = left
  BY <1>1
<1>6. /\ Task!IsPrefix(Operators[j], Undelivered)
      /\ \A k \in DOMAIN Operators :
           Task!IsPrefix(Operators[k], Undelivered) => Len(Operators[k]) <= Len(Operators[j])
  BY <1>2, <1>5, TaskNames
<1>7. Task!Cut(Operators[j])
  BY <1>2, <1>5, TaskNames
<1>8. Delivered' = Append(Delivered, OperatorSymbol(j))
  BY <1>5
<1>9. Head(Undelivered) \in OperatorCharset
  BY <1>1, <1>2
<1> QED BY <1>3, <1>4, <1>6, <1>7, <1>8, <1>9 DEF Task!Operator

LEMMA TaskDeliverBuffered ==
  ASSUME IInv, DeliverBuffered
  PROVE  Task!Operator
<1> DEFINE left == Unread(code)
           op == Head(buffer)
           tail == Tail(buffer)
<1>1. /\ UNCHANGED <<code, parserState, cache>> /\ ~calling /\ Eof \notin Range(out)
      /\ buffer # <<>> /\ buffer' = tail /\ out' = Append(out, op)
  BY DEF DeliverBuffered, Called
<1>2. /\ buffer \in Seq(OperatorSymbols) /\ parserState # "Finished"
      /\ EndsThere(left, OperatorCharset) /\ RestOfRun(buffer)
  BY <1>1 DEF IInv, Queued
<1>3. cache = <<>> /\ left \in Seq(Chars)
  BY <1>1, CacheTyped DEF IInv, Collected
<1>4. Unread(code') = left
  BY <1>1
<1>5. op \in OperatorSymbols /\ tail \in Seq(OperatorSymbols)
  BY <1>1, <1>2
<1> HIDE DEF left
<1>6. PICK run \in Seq(OperatorCharset) :
        \E i \in 0..Len(run) : CutFrom(buffer, run, i) /\ ColonsPaired(run, i)
  BY <1>2 DEF RestOfRun
<1>7. PICK i \in 0..Len(run) : CutFrom(buffer, run, i) /\ ColonsPaired(run, i)
  BY <1>6
<1>8. PICK next \in (i + 1)..Len(run) :
        FitsAt(op, run, i, next) /\ CutFrom(tail, run, next) /\ ColonsPaired(run, next)
  BY <1>1, <1>2, <1>7, CutTail
<1> HIDE DEF op, tail
<1>9. next \in 0..Len(run)
  OBVIOUS
<1>10. Undelivered = SubSeq(run, i + 1, Len(run)) \o left
  <2>1. Undelivered = RestOf(parserState, buffer, <<>>, left)
    BY <1>3, MappedTo DEF left
  <2> QED BY <1>2, <1>3, <1>7, <2>1, RestQueued
<1>11. Undelivered' = SubSeq(run, next + 1, Len(run)) \o left
  <2>1. Undelivered' = RestOf(parserState, tail, <<>>, left)
    BY <1>1, <1>3, <1>4, MappedTo
  <2> QED BY <1>2, <1>3, <1>5, <1>8, <1>9, <2>1, RestQueued
<1>12. Eof \notin Range(Delivered) /\ Delivered' = Append(Delivered, op)
  <2>1. op.type # "ERROR"
    BY <1>5, SymbolTypes
  <2> QED BY <1>1, <2>1, HandOn
<1> QED BY <1>2, <1>3, <1>7, <1>8, <1>10, <1>11, <1>12, TaskOperator

LEMMA TaskEnd ==
  ASSUME IInv, DeliverEof \/ EndOfSource
  PROVE  Task!End
<1>1. out' = Append(out, Eof) /\ parserState' = "Finished" /\ Eof \notin Range(out)
  <2>1. CASE DeliverEof
    BY <2>1 DEF DeliverEof, Called
  <2>2. CASE EndOfSource
    BY <2>2, InCall DEF EndOfSource, In, Return
  <2> QED BY <2>1, <2>2
<1>2. Undelivered = <<>>
  <2>1. CASE DeliverEof
    <3>1. parserState = "Finished"
      BY <2>1 DEF DeliverEof
    <3> QED BY <3>1, MappedTo DEF RestOf
  <2>2. CASE EndOfSource
    <3> DEFINE none == <<>>
    <3>1. calling /\ read(code).ch = NUL /\ parserState = "BeginMatch"
      BY <2>2 DEF EndOfSource, In
    <3>2. cache = none
      BY <3>1 DEF IInv, Collected, Matching
    <3>3. Unread(code) = none
      BY <3>1, ReadFacts
    <3>4. none \in Seq(Chars) /\ none = <<>>
      OBVIOUS
    <3> HIDE DEF none
    <3>5. Undelivered = none \o none
      BY <3>1, <3>2, <3>3, CallRest
    <3> QED BY <3>4, <3>5, NothingInFront
  <2> QED BY <2>1, <2>2
<1>3. Undelivered' = <<>>
  BY <1>1, MappedTo DEF RestOf
<1>4. Eof \notin Range(Delivered) /\ Delivered' = Append(Delivered, Eof)
  <2>1. Eof.type # "ERROR"
    BY SymbolTypes
  <2> QED BY <1>1, <2>1, HandOn
<1> QED BY <1>2, <1>3, <1>4, TaskNames DEF Task!End

LEMMA TaskBeginMatch ==
  ASSUME IInv, BeginMatch
  PROVE  Task!Skip \/ UNCHANGED <<Undelivered, Delivered>>
<1> DEFINE ch == read(code).ch
           u == Unread(read(code).code)
           one == <<ch>>
<1>1. /\ calling /\ parserState = "BeginMatch" /\ buffer' = buffer /\ out' = out
      /\ ch # NUL /\ code' = read(code).code /\ parserState' = StateOf(ch)
      /\ cache' = IF parserState' = "BeginMatch" THEN cache ELSE one
  BY DEF BeginMatch, In
<1>2. cache = <<>>
  BY <1>1 DEF IInv, Collected, Matching
<1>3. u \in Seq(Chars) /\ ch \in Chars /\ Unread(code) = one \o u
  BY <1>1, ReadFacts
<1>4. Unread(code') = u
  BY <1>1
<1> HIDE DEF u, ch
<1>5. one \in Seq(Chars) /\ Len(one) = 1 /\ one[1] = ch /\ one \o u \in Seq(Chars)
  BY <1>3
<1> HIDE DEF one
<1>6. Undelivered = one \o u /\ Eof \notin Range(Delivered)
  <2>1. Undelivered = <<>> \o (one \o u) /\ Eof \notin Range(Delivered)
    BY <1>1, <1>2, <1>3, CallRest
  <2> QED BY <1>5, <2>1, NothingInFront
<1>7. Delivered' = Delivered
  BY <1>1, HandOn
<1>8. buffer' = <<>> /\ parserState' # "Finished"
  <2>1. StateOf(ch) \in Matching \cup {"BeginMatch"}
    BY StateOfMeans
  <2> QED BY <1>1, <2>1, InCall DEF Matching
<1>9. CASE parserState' = "BeginMatch"
  <2>1. cache' = <<>> /\ <<>> \in Seq(Chars)
    BY <1>1, <1>2, <1>9
  <2>2. Undelivered' = <<>> \o u
    BY <1>3, <1>4, <1>8, <2>1, RestAfter
  <2>3. Undelivered' = u
    BY <1>3, <2>2, NothingInFront
  <2>4. /\ one \o u # <<>> /\ Head(one \o u) = ch
        /\ SubSeq(one \o u, Len(one) + 1, Len(one \o u)) = u
    <3>1. 1 <= Len(one) /\ one \in Seq(Chars) /\ u \in Seq(Chars) /\ one[1] = ch
      BY <1>3, <1>5
    <3> QED BY ONLY <3>1, CutFacts
  <2>5. ch \notin EchoCharset \cup OperatorCharset \cup (Lower \cup Upper) \cup Range(Digits)
    BY <1>1, <1>9, StateOfMeans
  <2>6. Task!Reading
    BY <1>6, <2>4, TaskNames DEF Task!Reading
  <2>7. Task!Cut(one)
    BY <1>6, <2>3, <2>4, TaskNames
  <2>8. Head(Undelivered) = ch /\ <<Head(Undelivered)>> = one
    BY <1>6, <2>4 DEF one
  <2>9. Task!Skip
    BY <1>7, <2>5, <2>6, <2>7, <2>8 DEF Task!Skip
  <2> QED BY <2>9
<1>10. CASE parserState' # "BeginMatch"
  <2>1. cache' = one
    BY <1>1, <1>10
  <2>2. Undelivered' = one \o u
    BY <1>3, <1>4, <1>5, <1>8, <2>1, RestAfter
  <2> QED BY <1>6, <1>7, <2>2
<1> QED BY <1>9, <1>10

\* A call that ends cuts off what is in cache.
LEMMA CutCache ==
  ASSUME IInv, calling, 1 <= Len(cache), cache' = <<>>, buffer' = <<>>,
         parserState' # "Finished", Unread(code') = Unread(code)
  PROVE  /\ Task!Reading /\ Head(Undelivered) = cache[1] /\ Task!Cut(cache)
         /\ \A C : (\A k \in 1..Len(cache) : cache[k] \in C) /\ EndsThere(Unread(code), C)
                     => Task!Run(C) = cache
<1> DEFINE u == Unread(code)
           s == cache
<1>1. s \in Seq(Chars) /\ u \in Seq(Chars) /\ 1 <= Len(s)
  BY CacheTyped
<1>2. Undelivered = s \o u /\ Eof \notin Range(Delivered)
  BY CallRest
<1>3. Undelivered' = u
  <2> HIDE DEF u
  <2>1. <<>> \in Seq(Chars) /\ Unread(code') = u
    BY DEF u
  <2>2. Undelivered' = <<>> \o u
    BY <1>1, <2>1, RestAfter
  <2> QED BY <1>1, <2>2, NothingInFront
<1> HIDE DEF u, s
<1>4. /\ s \o u # <<>> /\ Head(s \o u) = s[1]
      /\ SubSeq(s \o u, Len(s) + 1, Len(s \o u)) = u
  BY ONLY <1>1, CutFacts
<1>5. Task!Reading /\ Head(Undelivered) = s[1] /\ Task!Cut(s)
  BY <1>2, <1>3, <1>4, TaskNames DEF Task!Reading
<1>6. \A C : (\A k \in 1..Len(s) : s[k] \in C) /\ EndsThere(u, C) => LongestRun(s \o u, C) = s
  BY ONLY <1>1, RunIs
<1>7. \A C : (\A k \in 1..Len(s) : s[k] \in C) /\ EndsThere(u, C) => Task!Run(C) = s
  BY <1>2, <1>6, TaskNames
<1> QED BY <1>5, <1>7 DEF s, u

LEMMA TaskMatchEchoLetter ==
  ASSUME IInv, MatchEchoLetter
  PROVE  Task!Echo
<1> DEFINE ch == cache[1]
           symbol == EchoSymbol(ch)
<1>1. /\ calling /\ parserState = "MatchEchoLetter" /\ parserState' = "SymbolFound"
      /\ code' = code /\ buffer' = buffer /\ cache' = <<>>
      /\ out' = Append(out, EchoSymbol(Last(cache)))
  BY DEF MatchEchoLetter, In, Return
<1>2. buffer' = <<>>
  BY <1>1, InCall
<1>3. cache \in Seq(Chars) /\ Len(cache) = 1 /\ ch \in EchoCharset
  BY <1>1 DEF IInv, Collected, Collects, Matching
<1>4. Last(cache) = ch
  BY <1>3 DEF Last
<1>5. /\ Task!Reading /\ Head(Undelivered) = ch /\ Task!Cut(cache)
  <2>1. 1 <= Len(cache) /\ parserState' # "Finished" /\ Unread(code') = Unread(code)
    BY <1>1, <1>3
  <2> QED BY <1>1, <1>2, <2>1, CutCache
<1>6. cache = <<ch>>
  <2> DEFINE one == <<ch>>
  <2>1. one \in Seq(Chars) /\ Len(one) = 1 /\ one[1] = ch
    BY <1>3
  <2> HIDE DEF one
  <2>2. \A k \in 1..1 : k = 1
    OBVIOUS
  <2>3. \A k \in 1..Len(cache) : cache[k] = one[k]
    BY <1>3, <2>1, <2>2
  <2>4. cache = one
    BY <1>3, <2>1, <2>3, SeqEqual
  <2> QED BY <2>4 DEF one
<1>7. Delivered' = Append(Delivered, symbol)
  <2>1. symbol.type # "ERROR"
    BY SymbolTypes
  <2>2. out' = Append(out, symbol)
    BY <1>1, <1>4
  <2> HIDE DEF symbol
  <2> QED BY <2>1, <2>2, HandOn
<1> HIDE DEF ch
<1>8. Task!Cut(<<Head(Undelivered)>>)
  BY <1>5, <1>6
<1> QED BY <1>3, <1>5, <1>7, <1>8 DEF Task!Echo

LEMMA TaskEndIdentifier ==
  ASSUME IInv, EndIdentifier
  PROVE  Task!Word
<1> DEFINE ch == read(code).ch
           C == (Lower \cup Upper) \cup Range(Digits)
<1>1. "MatchIdentifier" \in Matching /\ Ended("MatchIdentifier")
  BY DEF EndIdentifier, Matching
<1>2. /\ calling /\ buffer = <<>> /\ parserState = "MatchIdentifier"
      /\ Collects("MatchIdentifier", cache) /\ Unread(code') = Unread(code) /\ ~Continues(ch)
      /\ ch = NUL => Unread(code) = <<>>
      /\ ch # NUL => Unread(code)[1] = ch
  BY <1>1, EndedFacts
<1>3. /\ buffer' = buffer /\ parserState' = "SymbolFound"
      /\ \E symbol \in Words(cache) : Return(symbol) /\ symbol.type # "ERROR"
  BY WordFound
<1>4. PICK symbol \in Words(cache) : Return(symbol) /\ symbol.type # "ERROR"
  BY <1>3
<1>5. out' = Append(out, symbol) /\ cache' = <<>>
  BY <1>4 DEF Return
<1>6. /\ 1 <= Len(cache) /\ cache[1] \in Lower \cup Upper
      /\ \A k \in 1..Len(cache) : cache[k] \in C
  BY <1>2 DEF Collects
<1>7. ch \notin C
  BY <1>2 DEF Continues, isalpha, isdigit
<1> HIDE DEF C
<1>8. EndsThere(Unread(code), C)
  BY <1>2, <1>7 DEF EndsThere
<1>9. Task!Reading /\ Head(Undelivered) = cache[1] /\ Task!Cut(cache) /\ Task!Run(C) = cache
  <2>1. buffer' = <<>> /\ parserState' # "Finished"
    BY <1>2, <1>3
  <2> QED BY <1>2, <1>5, <1>6, <1>8, <2>1, CutCache
<1>10. Delivered' = Append(Delivered, symbol)
  BY <1>4, <1>5, HandOn
<1>11. Task!Cut(Task!Run(C)) /\ symbol \in Words(Task!Run(C))
  BY <1>9
<1> QED BY <1>6, <1>9, <1>10, <1>11 DEF Task!Word, C

LEMMA TaskEndNumber ==
  ASSUME IInv, EndNumber
  PROVE  Task!Number
<1> DEFINE ch == read(code).ch
           C == Range(Digits)
           symbol == NumberSymbol(cache)
<1>1. /\ "MatchNumber" \in Matching /\ Ended("MatchNumber") /\ parserState' = "SymbolFound"
      /\ buffer' = buffer /\ out' = Append(out, symbol) /\ cache' = <<>>
  BY DEF EndNumber, Matching, Return
<1>2. /\ calling /\ buffer = <<>> /\ parserState = "MatchNumber"
      /\ Collects("MatchNumber", cache) /\ Unread(code') = Unread(code) /\ ~Continues(ch)
      /\ ch = NUL => Unread(code) = <<>>
      /\ ch # NUL => Unread(code)[1] = ch
  BY <1>1, EndedFacts
<1>3. 1 <= Len(cache) /\ Len(cache) \in Nat /\ \A k \in 1..Len(cache) : cache[k] \in C
  BY <1>2 DEF Collects
<1>4. cache[1] \in C
  BY <1>3
<1>5. ch \notin C
  BY <1>2 DEF Continues, isdigit
<1> HIDE DEF C
<1>6. EndsThere(Unread(code), C)
  BY <1>2, <1>5 DEF EndsThere
<1>7. Task!Reading /\ Head(Undelivered) = cache[1] /\ Task!Cut(cache) /\ Task!Run(C) = cache
  <2>1. buffer' = <<>> /\ parserState' # "Finished"
    BY <1>1, <1>2
  <2> QED BY <1>1, <1>2, <1>3, <1>6, <2>1, CutCache
<1>8. Delivered' = Append(Delivered, symbol)
  <2>1. symbol.type # "ERROR"
    BY SymbolTypes
  <2> HIDE DEF symbol
  <2> QED BY <1>1, <2>1, HandOn
<1>9. Task!Cut(Task!Run(C)) /\ symbol = NumberSymbol(Task!Run(C))
  BY <1>7
<1> HIDE DEF symbol
<1> QED BY <1>4, <1>7, <1>8, <1>9 DEF Task!Number, C

LEMMA TaskEndOperators ==
  ASSUME IInv, EndOperators
  PROVE  Task!Operator
<1> DEFINE ops == Split(cache).ops
           op == Head(ops)
           tail == Tail(ops)
           u == Unread(code)
           none == <<>>
<1>1. /\ Ended("MatchOperator") /\ parserState' = "SymbolFound" /\ buffer' = tail
      /\ out' = Append(out, op) /\ cache' = none /\ "MatchOperator" \in Matching
  BY DEF EndOperators, Matching, PushOthers, Return
<1>2. calling /\ Eof \notin Range(out) /\ Unread(code') = u
  BY <1>1, EndedFacts
<1>3. /\ ops \in Seq(OperatorSymbols) /\ ops # <<>> /\ cache \in Seq(OperatorCharset)
      /\ CutFrom(ops, cache, 0) /\ ColonsPaired(cache, 0)
      /\ EndsThere(Unread(code'), OperatorCharset)
  BY RunSplit
<1> HIDE DEF ops
<1>4. op \in OperatorSymbols /\ tail \in Seq(OperatorSymbols)
  BY <1>3
<1>5. 0 \in 0..Len(cache) /\ Len(cache) \in Nat
  BY <1>3
<1>6. PICK next \in (0 + 1)..Len(cache) :
        FitsAt(op, cache, 0, next) /\ CutFrom(tail, cache, next) /\ ColonsPaired(cache, next)
  BY <1>3, <1>5, CutTail
<1> HIDE DEF op, tail
<1>7. next \in 0..Len(cache)
  OBVIOUS
<1>8. u \in Seq(Chars)
  BY CacheTyped
<1> HIDE DEF none
<1>9. Undelivered = SubSeq(cache, 0 + 1, Len(cache)) \o u
  <2>1. SubSeq(cache, 1, Len(cache)) = cache
    BY <1>3, SubSeqFull
  <2>2. Undelivered = cache \o u
    BY <1>2, CallRest
  <2> QED BY <2>1, <2>2
<1>10. Undelivered' = SubSeq(cache, next + 1, Len(cache)) \o u
  <2>1. Undelivered' = RestOf(parserState', tail, <<>>, u)
    BY <1>1, <1>2, MappedTo DEF none
  <2>2. "SymbolFound" # "Finished"
    OBVIOUS
  <2> HIDE DEF u
  <2> QED BY <1>1, <1>3, <1>4, <1>6, <1>7, <1>8, <2>1, <2>2, RestQueued
<1>11. Eof \notin Range(Delivered) /\ Delivered' = Append(Delivered, op)
  <2>1. op.type # "ERROR"
    BY <1>4, SymbolTypes
  <2> QED BY <1>1, <1>2, <2>1, HandOn
<1>12. EndsThere(u, OperatorCharset)
  BY <1>2, <1>3
<1> HIDE DEF u
<1> QED BY <1>3, <1>5, <1>6, <1>8, <1>9, <1>10, <1>11, <1>12, TaskOperator

LEMMA TaskThrow ==
  ASSUME IInv, Throw
  PROVE  Task!Report
<1> DEFINE ch == read(code).ch
           C == OperatorCharset
           bad == Split(cache).bad
<1>1. /\ "MatchOperator" \in Matching /\ Ended("MatchOperator") /\ parserState' = parserState
      /\ bad # -1 /\ buffer' = buffer /\ cache' = <<>>
      /\ \E at : out' = Append(out, Error(at))
  BY DEF Throw, Matching, Return
<1>2. /\ calling /\ buffer = <<>> /\ parserState = "MatchOperator"
      /\ Collects("MatchOperator", cache) /\ Unread(code') = Unread(code) /\ ~Continues(ch)
      /\ ch = NUL => Unread(code) = <<>>
      /\ ch # NUL => Unread(code)[1] = ch
  BY <1>1, EndedFacts
<1>3. cache \in Seq(C) /\ 1 <= Len(cache) /\ Len(cache) \in Nat
  BY <1>2 DEF Collects
<1>4. cache[1] \in C /\ \A k \in 1..Len(cache) : cache[k] \in C
  BY <1>3
<1>5. BadRun(cache)
  <2>1. bad \in 0..(Len(cache) - 1) /\ ColonAlone(cache, bad)
    BY <1>1, <1>3, SplitCuts DEF CutRight
  <2> HIDE DEF bad
  <2>2. /\ bad + 1 \in DOMAIN cache /\ cache[bad + 1] = ":"
        /\ ~(bad + 2 <= Len(cache) /\ cache[bad + 2] = "=")
    BY <1>3, <2>1 DEF ColonAlone
  <2>3. (bad + 1) + 1 = bad + 2 /\ (bad + 1 < Len(cache) => bad + 2 <= Len(cache))
    BY <1>3, <2>1
  <2> QED BY <2>2, <2>3 DEF BadRun
<1>6. ch \notin C
  BY <1>2 DEF Continues
<1>7. EndsThere(Unread(code), C)
  BY <1>2, <1>6 DEF EndsThere
<1> HIDE DEF C
<1>8. Task!Reading /\ Head(Undelivered) = cache[1] /\ Task!Cut(cache) /\ Task!Run(C) = cache
  <2>1. buffer' = <<>> /\ parserState' # "Finished"
    BY <1>1, <1>2
  <2> QED BY <1>1, <1>2, <1>3, <1>4, <1>7, <2>1, CutCache
<1>9. Delivered' = Append(Delivered, Error(0))
  <2>1. PICK at : out' = Append(out, Error(at))
    BY <1>1
  <2>2. Error(at).type = "ERROR"
    BY SymbolTypes
  <2> QED BY <2>1, <2>2, HandOn
<1>10. Task!Cut(Task!Run(C)) /\ Task!Bad(Task!Run(C))
  BY <1>5, <1>8, TaskNames
<1> QED BY <1>4, <1>8, <1>9, <1>10 DEF Task!Report, C

\* The other steps do nothing that the task speaks of.
LEMMA TaskStutters ==
  ASSUME IInv, Enter \/ MatchMore \/ Abort \/ Overrun \/ UNCHANGED vars
  PROVE  UNCHANGED <<Undelivered, Delivered>>
<1>1. CASE Enter
  <2>1. /\ code' = code /\ cache' = cache /\ buffer' = buffer /\ out' = out
        /\ buffer = <<>> /\ parserState # "Finished" /\ parserState' = "BeginMatch"
    BY <1>1 DEF Enter
  <2>2. Undelivered' = Undelivered
    BY <2>1, MappedTo DEF RestOf
  <2> QED BY <2>1, <2>2, HandOn
<1>2. CASE MatchMore
  <2> DEFINE ch == read(code).ch
             d == read(code).code
             u == Unread(d)
  <2>1. /\ calling /\ Continues(ch) /\ code' = d /\ cache' = Append(cache, ch)
        /\ parserState' = parserState /\ buffer' = buffer /\ out' = out
    BY <1>2 DEF MatchMore, In
  <2>2. ch # NUL
    BY <2>1, NULEndsAll DEF Continues, isalpha, isdigit
  <2>3. u \in Seq(Chars) /\ ch \in Chars /\ Unread(code) = <<ch>> \o u
    BY <2>2, ReadFacts
  <2>4. Unread(code') = u
    BY <2>1
  <2>5. cache \in Seq(Chars) /\ Undelivered = cache \o Unread(code)
    BY <2>1, CacheTyped, CallRest
  <2>6. buffer' = <<>> /\ parserState' # "Finished"
    <3>1. buffer = <<>>
      BY <2>1, InCall
    <3>2. parserState # "Finished"
      BY <2>1 DEF IInv, Control, Matching
    <3> QED BY <2>1, <3>1, <3>2
  <2> HIDE DEF u, ch, d
  <2>7. cache' \in Seq(Chars) /\ cache' \o u = cache \o Unread(code)
    BY <2>1, <2>3, <2>5, CharacterMoves
  <2>8. Undelivered' = cache' \o u
    BY <2>3, <2>4, <2>6, <2>7, RestAfter
  <2>9. Undelivered' = Undelivered
    BY <2>5, <2>7, <2>8
  <2> QED BY <2>1, <2>9, HandOn
<1>3. CASE Abort
  <2>1. /\ Ended("MatchOperator") /\ "MatchOperator" \in Matching
        /\ parserState' = parserState /\ cache' = cache /\ buffer' = buffer /\ out' = out
    BY <1>3 DEF Abort, Matching
  <2>2. Unread(code') = Unread(code)
    BY <2>1, EndedFacts
  <2>3. Undelivered' = Undelivered
    BY <2>1, <2>2, MappedTo
  <2> QED BY <2>1, <2>3, HandOn
<1>4. CASE Overrun \/ UNCHANGED vars
  <2>1. code' = code /\ parserState' = parserState /\ cache' = cache /\ buffer' = buffer /\ out' = out
    BY <1>4 DEF Overrun, vars
  <2>2. Undelivered' = Undelivered
    BY <2>1, MappedTo
  <2> QED BY <2>1, <2>2, HandOn
<1> QED BY <1>1, <1>2, <1>3, <1>4

LEMMA TaskNext ==
  ASSUME IInv, [Next]_vars
  PROVE  [Task!Next]_(Task!vars)
<1>1. CASE Enter \/ MatchMore \/ Abort \/ Overrun \/ UNCHANGED vars
  BY <1>1, TaskStutters DEF Task!vars
<1>2. CASE BeginMatch
  BY <1>2, TaskBeginMatch DEF Task!Next, Task!vars
<1>3. CASE DeliverBuffered
  BY <1>3, TaskDeliverBuffered DEF Task!Next
<1>4. CASE DeliverEof \/ EndOfSource
  BY <1>4, TaskEnd DEF Task!Next
<1>5. CASE MatchEchoLetter
  BY <1>5, TaskMatchEchoLetter DEF Task!Next
<1>6. CASE EndIdentifier
  BY <1>6, TaskEndIdentifier DEF Task!Next
<1>7. CASE EndNumber
  BY <1>7, TaskEndNumber DEF Task!Next
<1>8. CASE EndOperators
  BY <1>8, TaskEndOperators DEF Task!Next
<1>9. CASE Throw
  BY <1>9, TaskThrow DEF Task!Next
<1> QED BY <1>1, <1>2, <1>3, <1>4, <1>5, <1>6, <1>7, <1>8, <1>9 DEF Next

\* nextSymbol implements its task: from the first character on, through
\* lookahead, refilled buffers, pushed back characters, queued operators and
\* errors, each of its rounds cuts one longest symbol off the source or leaves
\* the source as it is (SymbolParser.cpp:44, SourceCode.cpp:27).
THEOREM Implements == Spec => ImplementsTokens
<1>1. Init => Task!Init
  BY TaskInit
<1>2. IInv /\ [Next]_vars => [Task!Next]_(Task!vars)
  BY TaskNext
<1> QED BY <1>1, <1>2, InvHolds, PTL DEF Spec, ImplementsTokens, Task!Spec

=============================================================================
