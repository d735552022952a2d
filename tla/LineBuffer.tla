----------------------------- MODULE LineBuffer -------------------------------
(***************************************************************************)
(* lib/read_line_buf.c: lines out of a stream whose read() returns pieces  *)
(* of any size, or fails and is tried again by the next call.              *)
(*                                                                         *)
(* The bytes of the stream are the numbers 1, 2, ...; NewlineAt is the set *)
(* of those that are newlines.  Of the two buffers only the one in use is  *)
(* kept: a swap overwrites the other before anything reads it.             *)
(*                                                                         *)
(* Not modelled: NUL bytes in the stream.                                  *)
(***************************************************************************)
EXTENDS Integers, SequencesExt

CONSTANTS
  MaxMsgLen,  \* MAX_MSG_LEN; the buffers hold twice as many bytes
  Bytes       \* bound: bytes in the stream

VARIABLES
  NewlineAt,  \* the stream, chosen at the start
  taken,      \* bytes of it read so far
  buf,        \* the bytes in the buffer in use, up to its \0
  next_char,  \* index in buf, from 0
  lines       \* auxiliary: what the calls returned

vars == <<NewlineAt, taken, buf, next_char, lines>>

Init ==
  /\ NewlineAt \in SUBSET (1..Bytes)
  /\ taken = 0 /\ buf = <<>> /\ next_char = 0 /\ lines = <<>>

AtEnd == next_char = Len(buf)
\* The program goes on only while every index it wrote lies in the buffer:
\* the \0 after the last byte is at index Len(buf).
Overrun == Len(buf) > 2 * MaxMsgLen - 1

\* read() at next_char; the scan starts again at the front of the buffer.
Fill ==
  /\ AtEnd /\ ~Overrun
  /\ \E n \in 1..MaxMsgLen :
       /\ taken + n <= Bytes
       /\ taken' = taken + n
       /\ buf' = buf \o [i \in 1..n |-> taken + i]
  /\ next_char' = 0
  /\ UNCHANGED <<NewlineAt, lines>>

\* read() returns 0 or -1, and so does the call: nothing has changed.
FillFails == AtEnd /\ ~Overrun /\ UNCHANGED vars

Unread == SubSeq(buf, next_char + 1, Len(buf))
Newlines == {i \in (next_char + 1)..Len(buf) : buf[i] \in NewlineAt}

\* Mutant: the buffer is not reset when its last line has been taken.
TakeNoReset ==
  /\ ~AtEnd /\ ~Overrun /\ Newlines # {}
  /\ next_char' = Min(Newlines)
  /\ lines' = Append(lines, SubSeq(buf, next_char + 1, next_char'))
  /\ UNCHANGED <<NewlineAt, taken, buf>>

\* The '\n' branch: a line is returned; an exhausted buffer is reset.
Take ==
  /\ ~AtEnd /\ ~Overrun /\ Newlines # {}
  /\ LET nl == Min(Newlines) IN
       /\ lines' = Append(lines, SubSeq(buf, next_char + 1, nl))
       /\ IF nl = Len(buf) THEN next_char' = 0 /\ buf' = <<>>
                           ELSE next_char' = nl /\ UNCHANGED buf
  /\ UNCHANGED <<NewlineAt, taken>>

\* The truncated line is copied to the front of the other buffer, and the
\* recursive call reads behind it.
Swap ==
  /\ ~AtEnd /\ ~Overrun /\ Newlines = {}
  /\ buf' = Unread
  /\ next_char' = Len(Unread)
  /\ UNCHANGED <<NewlineAt, taken, lines>>

Next == Fill \/ FillFails \/ Take \/ Swap

Spec == Init /\ [][Next]_vars

-----------------------------------------------------------------------------
Held == IF AtEnd THEN buf ELSE Unread
Flat == FlattenSeq(lines)

(***************************************************************************)
(* However the bytes arrive, and however often a read fails in between,    *)
(* what the calls have returned is the stream, whole line by whole line;   *)
(* what is left of the bytes that were read is still held.                 *)
(***************************************************************************)
LinesInOrder ==
  /\ Flat \o Held = [i \in 1..taken |-> i]
  /\ \A j \in 1..Len(lines) : \A i \in 1..Len(lines[j]) :
       lines[j][i] \in NewlineAt <=> i = Len(lines[j])

(***************************************************************************)
(* Lines of at most MAX_MSG_LEN bytes, their newline counted, never        *)
(* overrun the buffer.  One byte more does: MAX_MSG_LEN bytes without a    *)
(* newline and a full read behind them put the \0 at index                 *)
(* 2 * MAX_MSG_LEN.                                                        *)
(***************************************************************************)
LinesFit ==
  \A i \in 0..(Bytes - MaxMsgLen) :
    \E j \in (i + 1)..(i + MaxMsgLen) : j \in NewlineAt
StaysInBuffer == LinesFit => ~Overrun

-----------------------------------------------------------------------------
Byte == 1..Bytes

\* The bytes of the stream behind the n-th, up to the m-th.
Piece(n, m) == [i \in 1..m - n |-> n + i]

\* The line ends with its newline, and has no other.
WholeLine(line, ends) == \A i \in 1..Len(line) : line[i] \in ends <=> i = Len(line)

\* The invariant (proved in MCLibrary): the buffer holds the last bytes that were read, a part of a line in front if
\* it has all been looked at; the calls have returned what came before.
LinesInv ==
  /\ NewlineAt \subseteq Byte
  /\ taken \in 0..Bytes /\ Len(buf) \in 0..taken /\ next_char \in 0..Len(buf)
  /\ buf = Piece(taken - Len(buf), taken)
  /\ AtEnd => \A i \in 1..Len(buf) : buf[i] \notin NewlineAt
  /\ StaysInBuffer
  /\ lines \in Seq(Seq(Byte))
  /\ Flat = Piece(0, taken - Len(Held))
  /\ \A j \in 1..Len(lines) : WholeLine(lines[j], NewlineAt)
=============================================================================
