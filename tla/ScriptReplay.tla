----------------------------- MODULE ScriptReplay ----------------------------
(***************************************************************************)
(* 64_Pseudoterminals: the record of a session that better_script.c writes *)
(* to typescript.timed, a line for each read from the pty, and the program *)
(* replay_script.c that plays it back.                                     *)
(*                                                                         *)
(* Left out: the times the lines begin with, but for the space behind them. *)
(***************************************************************************)
EXTENDS Integers, Sequences, SequencesExt

CONSTANTS Pieces, MaxPieces

NL == "newline"
Bytes == {"x", "n", "backslash", NL}

VARIABLES
  session, \* what better_script.c has read, piece by piece
  timed,   \* the bytes of typescript.timed not read yet
  string,  \* what replay_script.c has of a line
  shown,   \* what it has printed
  before,  \* for each line so far, the byte in front of string's block
  pc

vars == <<session, timed, string, shown, before, pc>>

Init == /\ session = <<>> /\ timed = <<>> /\ string = <<>> /\ shown = <<>>
        /\ before = <<>> /\ pc = "record"

\* A newline is written as two characters, everything else as it is.
Escaped(piece) ==
  FlattenSeq([i \in DOMAIN piece |->
    IF piece[i] = NL THEN <<"backslash", "n">> ELSE <<piece[i]>>])

Record ==
  /\ pc = "record" /\ Len(session) < MaxPieces
  /\ \E piece \in Pieces :
       /\ session' = Append(session, piece)
       /\ timed' = timed \o <<"space">> \o Escaped(piece) \o <<NL>>
  /\ UNCHANGED <<string, shown, before, pc>>

Replay ==
  /\ pc = "record" /\ pc' = "time"
  /\ UNCHANGED <<session, timed, string, shown, before>>

\* The digits up to the space, or the end of the file.  The block of a line is
\* allocated anew, and what lies in front of it is not the program's.
ReadTime ==
  /\ pc = "time"
  /\ IF timed = <<>> THEN pc' = "done" /\ UNCHANGED <<timed, before>>
     ELSE /\ pc' = "line" /\ timed' = Tail(timed)
          /\ \E c \in {"x", "backslash"} : before' = Append(before, c)
  /\ string' = <<>>
  /\ UNCHANGED <<session, shown>>

\* da_get(&string, string.size - 1): what an n is compared with, for the first
\* character of a line the byte in front of the block.
LastByte == IF string = <<>> THEN Last(before) ELSE Last(string)

\* An n behind a backslash makes that a newline, wherever the backslash is.
ReadByte ==
  /\ pc = "line" /\ timed' = Tail(timed)
  /\ LET c == Head(timed) IN
     CASE c = NL ->
            shown' = shown \o string /\ string' = <<>> /\ pc' = "time" /\ UNCHANGED before
       [] c = "n" /\ LastByte = "backslash" ->
            /\ IF string = <<>> THEN before' = Append(Front(before), NL) /\ UNCHANGED string
               ELSE string' = Append(Front(string), NL) /\ UNCHANGED before
            /\ UNCHANGED <<shown, pc>>
       [] OTHER -> string' = Append(string, c) /\ UNCHANGED <<shown, before, pc>>
  /\ UNCHANGED session

Next == Record \/ Replay \/ ReadTime \/ ReadByte

-----------------------------------------------------------------------------
\* A backslash and an n of the session itself, which better_script.c writes as it
\* writes a newline.
Ambiguous(piece) ==
  \E i \in 2..Len(piece) : piece[i] = "n" /\ piece[i - 1] = "backslash"

\* The first byte of a line, an n, was taken for the end of an escaped newline, and
\* a byte that is not string's was written to.
Overwritten(i) == before[i] = NL

(***************************************************************************)
(* replay_script.c is to display what better_script.c has recorded         *)
(* (64_Pseudoterminals/README.md:66-77, which has a backslash escaped too). *)
(* It does, newlines and pieces cut anywhere included, except for two      *)
(* errors: a session that is Ambiguous is never displayed as it was, and   *)
(* an n that begins a line is lost if there happens to be a backslash in   *)
(* front of the block; nothing else is ever wrong.                         *)
(***************************************************************************)
ReplayIsExact ==
  pc = "done" =>
    LET lines == DOMAIN session IN
    /\ shown = FlattenSeq(session)
         <=> \A i \in lines : ~Ambiguous(session[i]) /\ ~Overwritten(i)
    /\ \A i \in lines : before[i] = "backslash" => session[i][1] # "n"
    /\ \A i \in lines : Overwritten(i) => session[i][1] = "n"
=============================================================================
