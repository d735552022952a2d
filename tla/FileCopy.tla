------------------------------ MODULE FileCopy -------------------------------
(***************************************************************************)
(* Programs that copy bytes with read, write and lseek: imp_tee.c and      *)
(* cp_hole.c of chapter 4, the readv and writev of chapter 5's             *)
(* readv_writev_imp.c, tail_command.c of chapter 13, sendfile_imp.c of     *)
(* chapter 61 and readLine of lib/read_line.c.                             *)
(*                                                                         *)
(* A file is a sequence of bytes: x and y, newlines, and holes.  The file  *)
(* written to has room for so many bytes; a write that does not fit is     *)
(* short, and the next fails.  Left out: BUF_SIZE other than by the size   *)
(* of the pieces; int offsets of a file of 2 GB; tail of an empty file.    *)
(***************************************************************************)
EXTENDS Integers, Sequences, FiniteSets, SequencesExt

CONSTANTS Sources, MaxRoom, BufSize

NL == "newline"
Hole == "hole"
NUL == "nul"

VARIABLES
  tool,
  src,    \* the file read from
  arg,    \* the size asked for: of each buffer, of readLine's, sendfile's count,
          \* or the number of lines
  pos,    \* the offset src is read from
  out,    \* the file written to, or what the caller's buffers hold
  room,
  shown,  \* tee's standard output; the lines of tail, each from its end
  pc,
  ret     \* what the function returned

vars == <<tool, src, arg, pos, out, room, shown, pc, ret>>
same == <<tool, src, arg>>

Start(t) == IF t = "tail" THEN Len(src) - 1
            ELSE IF t = "sendfile" THEN 1 ELSE 0

Tools == {"tee", "cp_hole", "readv", "writev", "tail", "sendfile", "readLine"}

Init ==
  /\ tool \in Tools /\ src \in Sources /\ arg \in 1..3
  /\ tool \in {"tail", "sendfile"} => src # <<>>
  /\ tool # "cp_hole" => Hole \notin ToSet(src)
  /\ room \in IF tool \in {"tail", "readv", "readLine"} THEN {MaxRoom} ELSE 0..MaxRoom
  /\ pos = Start(tool) /\ out = <<>> /\ pc = "loop" /\ ret = 0
  /\ shown = IF tool = "tail" THEN <<<<>>>> ELSE <<>>

Least(a, b) == IF a < b THEN a ELSE b
Ahead == Len(src) - pos
Piece(n) == SubSeq(src, pos + 1, pos + n)
Finish(value) == pc' = "done" /\ ret' = value
Fail == pc' = "failed" /\ ret' = -1

\* write appends what there is room for, -1 if there is none.
Write(bytes) ==
  LET n == Least(Len(bytes), room)
  IN out' = out \o SubSeq(bytes, 1, n) /\ room' = room - n
WriteFails == room = 0

-----------------------------------------------------------------------------
\* Mutant: the file is written to once, before the loop.
TeeOnce(n) ==
  /\ shown' = shown \o Piece(n) /\ pos' = pos + n
  /\ IF out # <<>> THEN UNCHANGED <<out, room, pc, ret>>
     ELSE IF WriteFails THEN Fail /\ UNCHANGED <<out, room>>
     ELSE Write(Piece(n)) /\ UNCHANGED <<pc, ret>>

\* imp_tee.c: a buffer to the standard output, then to the file.
TeePiece(n) ==
  /\ shown' = shown \o Piece(n) /\ pos' = pos + n
  /\ IF WriteFails THEN Fail /\ UNCHANGED <<out, room>>
     ELSE Write(Piece(n)) /\ UNCHANGED <<pc, ret>>

Tee ==
  /\ tool = "tee" /\ pc = "loop"
  /\ IF Ahead = 0
     THEN /\ shown' = Append(shown, "EOF reached!") /\ Finish(0)
          /\ UNCHANGED <<pos, out, room>>
     ELSE \E n \in 1..Least(Ahead, BufSize) : TeePiece(n)
  /\ UNCHANGED same

\* cp_hole.c.  SEEK_DATA and SEEK_HOLE from the current offset; a hole is skipped
\* in both files, and the end of the file counts as one.
DataFrom == {i \in pos..Len(src) - 1 : src[i + 1] # Hole}
HoleAt == CHOOSE h \in pos..Len(src) :
            /\ h = Len(src) \/ src[h + 1] = Hole
            /\ \A i \in pos..h - 1 : src[i + 1] # Hole

\* An offset behind the end is filled up with a hole by the next write.
Padded(file, n) == file \o [i \in 1..n - Len(file) |-> Hole]

CpHole ==
  /\ tool = "cp_hole" /\ pc = "loop"
  /\ IF DataFrom = {} THEN Finish(0) /\ UNCHANGED <<pos, out, room>>
     ELSE IF pos \notin DataFrom
     THEN /\ pos' = CHOOSE d \in DataFrom : \A e \in DataFrom : d <= e
          /\ UNCHANGED <<out, room, pc, ret>>
     ELSE LET n == Least(HoleAt - pos, BufSize) IN
          IF WriteFails THEN Fail /\ UNCHANGED <<pos, out, room>>
          ELSE /\ out' = Padded(out, pos) \o SubSeq(Piece(n), 1, Least(n, room))
               /\ room' = room - Least(n, room)
               /\ pos' = pos + n /\ UNCHANGED <<pc, ret>>
  /\ UNCHANGED <<same, shown>>

-----------------------------------------------------------------------------
\* readv_clone into two buffers of arg bytes: a read that is short ends it, one
\* that fails loses what was read before.
Readv ==
  /\ tool = "readv" /\ pc \in {"loop", "second"}
  /\ \/ \E n \in 0..Least(Ahead, arg) :
          /\ Ahead > 0 => n > 0
          /\ out' = out \o Piece(n) /\ pos' = pos + n
          /\ IF n < arg \/ pc = "second" THEN Finish(ret + n)
             ELSE pc' = "second" /\ ret' = ret + n
     \/ Fail /\ UNCHANGED <<out, pos>>
  /\ UNCHANGED <<same, room, shown>>

\* writev_clone from two buffers of arg bytes: after a short write it returns
\* what that one has written.
Writev ==
  /\ tool = "writev" /\ pc \in {"loop", "second"}
  /\ IF WriteFails THEN Fail /\ UNCHANGED <<out, room, pos>>
     ELSE LET n == Least(Least(Ahead, arg), room) IN
          /\ Write(Piece(Least(Ahead, arg))) /\ pos' = pos + Least(Ahead, arg)
          /\ IF n < Least(Ahead, arg) THEN Finish(n)
             ELSE IF pc = "second" THEN Finish(ret + n)
             ELSE pc' = "second" /\ ret' = ret + n
  /\ UNCHANGED <<same, shown>>

\* sendfile_imp of arg bytes from offset 1, while the file's own offset is 0.
\* Failing, it leaves the file where it is; else it puts the offset back.
Sendfile ==
  /\ tool = "sendfile" /\ pc = "loop"
  /\ LET n == Least(Least(Ahead, BufSize), arg - ret) IN
     IF n <= 0 THEN Finish(ret) /\ UNCHANGED <<pos, out, room>>
     ELSE /\ pos' = pos + n
          /\ IF WriteFails THEN Fail /\ UNCHANGED <<out, room>>
             ELSE Write(Piece(n)) /\ ret' = ret + n /\ UNCHANGED pc
  /\ UNCHANGED <<same, shown>>

\* readLine into a buffer of arg bytes: what does not fit before the null byte is
\* read and dropped, EINTR starts the read again.
ReadLine ==
  /\ tool = "readLine" /\ pc = "loop"
  /\ IF Ahead = 0 THEN Finish(ret) /\ UNCHANGED <<pos, out>>
     ELSE /\ pos' = pos + 1
          /\ IF ret < arg - 1 THEN out' = out \o Piece(1) /\ ret' = ret + 1
             ELSE UNCHANGED <<out, ret>>
          /\ pc' = IF Piece(1) = <<NL>> THEN "done" ELSE "loop"
  /\ UNCHANGED <<same, room, shown>>

-----------------------------------------------------------------------------
\* tail_command.c.  read_back fails at the start of the file; the byte read is
\* then added even if it is a newline.  The loop collects arg + 1 lines, the first
\* of which is what follows the last newline.
TailByte ==
  LET c == src[pos + 1]
      last == Len(shown)
      line == shown[last]
      ended(bytes) == [shown EXCEPT ![last] = line \o bytes]
  IN CASE pos = 0 -> shown' = ended(<<c, NUL>>) /\ pc' = "print" /\ UNCHANGED pos
       [] pos > 0 /\ c # NL ->
            shown' = ended(<<c>>) /\ pos' = pos - 1 /\ UNCHANGED pc
       [] pos > 0 /\ c = NL ->
            /\ pos' = pos - 1
            /\ IF last > arg THEN shown' = ended(<<NUL>>) /\ pc' = "print"
               ELSE shown' = Append(ended(<<NUL>>), <<>>) /\ UNCHANGED pc

\* Both reversed; a line of one byte, which is its null byte, ends in no newline.
TailPrint ==
  /\ out' = FlattenSeq([i \in DOMAIN shown |->
              LET line == Reverse(shown[Len(shown) + 1 - i])
              IN IF Len(line) = 1 THEN line ELSE Append(line, NL)])
  /\ Finish(0) /\ UNCHANGED <<pos, shown>>

Tail1 ==
  /\ tool = "tail"
  /\ \/ pc = "loop" /\ TailByte /\ UNCHANGED <<out, ret>>
     \/ pc = "print" /\ TailPrint
  /\ UNCHANGED <<same, room>>

Next == Tee \/ CpHole \/ Readv \/ Writev \/ Sendfile \/ ReadLine \/ Tail1

-----------------------------------------------------------------------------
\* What is between the newlines of the file, one that is its first byte aside.
Between ==
  LET ends == {0, Len(src) + 1} \cup {i \in 2..Len(src) : src[i] = NL}
      cuts == SetToSortSeq(ends, <)
  IN [i \in 1..Len(cuts) - 1 |-> SubSeq(src, cuts[i] + 1, cuts[i + 1] - 1)]

\* How a line is printed: behind its null byte, and ended if it is not blank.
Printed(line) == IF line = <<>> THEN <<NUL>> ELSE <<NUL>> \o line \o <<NL>>
LastPrinted(n) ==
  LET first == IF Len(Between) > n THEN Len(Between) - n ELSE 1
  IN FlattenSeq([i \in 1..Len(Between) + 1 - first |-> Printed(Between[i + first - 1])])

\* A file up to its last byte of data.
UpToData(file) ==
  LET data == {i \in DOMAIN file : file[i] # Hole}
  IN IF data = {} THEN <<>> ELSE SubSeq(file, 1, CHOOSE i \in data : \A j \in data : j <= i)

(***************************************************************************)
(* A program that reports success has copied every byte, in order, unless  *)
(* the disk is full, and the value it returns counts what it consumed:     *)
(* readv_clone what is in the buffers, sendfile_imp by how much the offset *)
(* is advanced, readLine what is stored of exactly one line.  writev_clone *)
(* never returns more than it has written.                                 *)
(*                                                                         *)
(* Two programs do not do what they are to, and it is said exactly where.  *)
(* cp_hole.c makes every hole (its lines 9-11) but one at the end of the    *)
(* file, which it loses.  tail_command.c is to print the last lines        *)
(* (13_File_IO_Buffering/README.md:7-8): it prints them whole and in order, *)
(* but each with a null byte in front, a blank one without its            *)
(* newline, and one line too many of a file that does not end in a newline *)
(* or that begins with one.                                                *)
(***************************************************************************)
CopiesAreExact ==
  pc = "done" =>
    CASE tool = "tee" ->
           /\ Front(shown) = src
           /\ IsPrefix(out, src) /\ (out # src => room = 0)
      [] tool = "cp_hole" -> room > 0 =>
           /\ out = UpToData(src)
           /\ out = src <=> src = <<>> \/ Last(src) # Hole
      [] tool = "readv" -> out = SubSeq(src, 1, pos) /\ ret = pos
      [] tool = "writev" ->
           /\ ret <= Len(out) /\ out = SubSeq(src, 1, Len(out))
           /\ ret = Len(out) \/ Len(out) > arg
      [] tool = "tail" -> out = LastPrinted(arg)
      [] tool = "sendfile" ->
           /\ ret = pos - 1 /\ IsPrefix(out, SubSeq(src, 2, Len(src)))
           /\ Len(out) = Least(arg, Len(src) - 1) \/ room = 0
      [] tool = "readLine" ->
           /\ IsPrefix(out, SubSeq(src, 1, pos)) /\ ret = Len(out)
           /\ Len(out) = Least(pos, arg - 1)
           /\ \A i \in 1..pos - 1 : src[i] # NL
           /\ pos = Len(src) \/ src[pos] = NL
=============================================================================
