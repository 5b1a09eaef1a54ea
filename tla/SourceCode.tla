----------------------------- MODULE SourceCode -----------------------------
(***************************************************************************)
(* SourceCode.cpp: a file read character by character through a buffer,    *)
(* with characters pushed back.  The operators take the object's fields    *)
(* and return the ones the method leaves:                                  *)
(*   fin            what the file still holds                              *)
(*   input_buf      what the last fread brought, of input_buf_len chars    *)
(*   input_buf_ptr  how many of them have been taken                       *)
(*   undo_buf       what was pushed back, the last one on top              *)
(*   position       the offset errors are located by                       *)
(***************************************************************************)
EXTENDS Characters

CONSTANT BufferLength  \* characters one fread brings at most

ASSUME BufferAssumption == BufferLength \in Nat \ {0}

open(file) ==
  [fin |-> file, input_buf |-> <<>>, input_buf_ptr |-> 0,
   undo_buf |-> <<>>, position |-> 0]

fread(c) ==
  [c EXCEPT !.input_buf = SubSeq(c.fin, 1, IF Len(c.fin) < BufferLength
                                           THEN Len(c.fin) ELSE BufferLength),
            !.fin = SubSeq(@, BufferLength + 1, Len(@)),
            !.input_buf_ptr = 0]

\* At the end of the file read returns NUL and the position stays.
Take(c) ==
  IF c.input_buf_ptr = Len(c.input_buf)
  THEN [ch |-> NUL, code |-> c]
  ELSE [ch   |-> c.input_buf[c.input_buf_ptr + 1],
        code |-> [c EXCEPT !.input_buf_ptr = @ + 1, !.position = @ + 1]]

read(c) ==
  IF c.undo_buf # <<>>
  THEN [ch   |-> Last(c.undo_buf),
        code |-> [c EXCEPT !.undo_buf = Front(@), !.position = @ + 1]]
  ELSE Take(IF c.input_buf_ptr = Len(c.input_buf) THEN fread(c) ELSE c)

\* A slip: the position is not taken back.
SlipUndo(c, ch) == [c EXCEPT !.undo_buf = Append(@, ch)]

\* NUL is pushed back like any other character, and counted like one.
undo(c, ch) ==
  [c EXCEPT !.undo_buf = Append(@, ch), !.position = @ - 1]

\* What is still to be read, the end of the file left out.
Unread(c) ==
  (IF c.undo_buf = <<NUL>> THEN <<>> ELSE c.undo_buf)
    \o SubSeq(c.input_buf, c.input_buf_ptr + 1, Len(c.input_buf))
    \o c.fin
=============================================================================
