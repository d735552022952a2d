------------------------------ MODULE SignalIO -------------------------------
(***************************************************************************)
(* 63_Alternate_IO_Models: programs that are told of input by a signal.  *)
(* rtsigio.c has a handler set a flag, sigio_rts_demo.c keeps the signal   *)
(* blocked and asks for it with sigtimedwait, selfpipe_with_select.c has   *)
(* the handler write to a pipe that poll waits for as well.                *)
(*                                                                         *)
(* A signal queued is delivered between any two steps unless blocked.      *)
(* Left out: what the loops print; the SIGIO the kernel falls back on when *)
(* too many signals are queued, which would end the programs.              *)
(***************************************************************************)
EXTENDS Integers, Sequences

CONSTANTS MaxInput, PipeSize

VARIABLES
  tool,
  sent,     \* bytes that have arrived; for selfpipe, signals sent
  unread,   \* of them, those not read
  queued,   \* signals queued
  flag,     \* gotSigio
  pipe,     \* bytes in the pipe
  caught,   \* the handler has run
  pc

vars == <<tool, sent, unread, queued, flag, pipe, caught, pc>>

Init ==
  /\ tool \in {"rtsigio", "sigio_rts_demo", "selfpipe"}
  /\ sent = 0 /\ unread = 0 /\ queued = 0 /\ flag = FALSE /\ pipe = 0
  /\ caught = FALSE /\ pc = "loop"

\* A byte arrives and a signal is queued; selfpipe gets the signal without it.  A
\* standard signal that is pending is not queued again.
Arrive ==
  /\ sent < MaxInput /\ pc # "done" /\ sent' = sent + 1
  /\ IF tool = "selfpipe" THEN queued' = 1 /\ UNCHANGED unread
     ELSE queued' = queued + 1 /\ unread' = unread + 1
  /\ UNCHANGED <<tool, flag, pipe, caught, pc>>

\* siginfo_handler.
SiginfoHandler ==
  /\ tool = "rtsigio" /\ queued > 0 /\ pc # "done"
  /\ queued' = queued - 1 /\ flag' = TRUE
  /\ UNCHANGED <<tool, sent, unread, pipe, caught, pc>>

\* rtsigio.c: the flag is tested, reset, and all input read up to EAGAIN.
TestFlag ==
  /\ tool = "rtsigio" /\ pc = "loop" /\ flag
  /\ flag' = FALSE /\ pc' = "read"
  /\ UNCHANGED <<tool, sent, unread, queued, pipe, caught>>

ReadByte ==
  /\ pc = "read" /\ tool # "selfpipe"
  /\ IF unread > 0 THEN unread' = unread - 1 /\ UNCHANGED pc
     ELSE pc' = "loop" /\ UNCHANGED unread
  /\ UNCHANGED <<tool, sent, queued, flag, pipe, caught>>

\* A # in cbreak mode ends rtsigio.c, SIGINT sigio_rts_demo.c.
Quit ==
  /\ tool # "selfpipe" /\ pc = IF tool = "rtsigio" THEN "read" ELSE "loop"
  /\ sent = MaxInput /\ pc' = "done"
  /\ UNCHANGED <<tool, sent, unread, queued, flag, pipe, caught>>

\* sigio_rts_demo.c: one signal is taken off the queue each time round.
Sigtimedwait ==
  /\ tool = "sigio_rts_demo" /\ pc = "loop" /\ queued > 0
  /\ queued' = queued - 1 /\ pc' = "read"
  /\ UNCHANGED <<tool, sent, unread, flag, pipe, caught>>

-----------------------------------------------------------------------------
\* selfpipe_with_select.c: a full pipe is as good as one more byte.  poll is
\* started again if a signal interrupts it.
Handler ==
  /\ tool = "selfpipe" /\ queued > 0 /\ pc # "done"
  /\ queued' = 0 /\ caught' = TRUE
  /\ pipe' = IF pipe < PipeSize THEN pipe + 1 ELSE pipe
  /\ UNCHANGED <<tool, sent, unread, flag, pc>>

\* poll returns: a descriptor of the command line is ready, or the pipe.
Poll ==
  /\ tool = "selfpipe" /\ pc = "loop"
  /\ \/ pipe > 0 /\ pc' = "drain"
     \/ pipe = 0 /\ sent = MaxInput /\ pc' = "done"
  /\ UNCHANGED <<tool, sent, unread, queued, flag, pipe, caught>>

Drain ==
  /\ tool = "selfpipe" /\ pc = "drain"
  /\ IF pipe > 0 THEN pipe' = pipe - 1 /\ UNCHANGED pc
     ELSE pc' = "done" /\ UNCHANGED pipe
  /\ UNCHANGED <<tool, sent, unread, queued, flag, caught>>

Program == TestFlag \/ ReadByte \/ Sigtimedwait \/ Poll \/ Drain
Deliver == SiginfoHandler \/ Handler
Next == Arrive \/ Deliver \/ Program \/ Quit

-----------------------------------------------------------------------------
(***************************************************************************)
(* While there is input to be read, the program is reading, or a signal or *)
(* the flag will have it read: a signal between any two steps is not lost. *)
(* For selfpipe, a signal caught before poll returns is in the pipe.       *)
(***************************************************************************)
InputIsAnnounced ==
  /\ tool # "selfpipe" /\ unread > 0 => queued > 0 \/ flag \/ pc \in {"read", "done"}
  /\ tool = "selfpipe" /\ pc = "loop" => (caught <=> pipe > 0)

\* All input is read sooner or later, and after a signal selfpipe goes on: what is
\* to be done, and that it has been.
InputWaits == IF tool = "selfpipe" THEN queued > 0 ELSE unread > 0
InputDone  == pc = "done" \/ (tool # "selfpipe" /\ unread = 0)

-----------------------------------------------------------------------------
\* The invariant from which InputIsAnnounced follows (proved in MCProcesses): counts
\* are no less than 0, and each program is where it can be.
SigioTyped ==
  /\ tool \in {"rtsigio", "sigio_rts_demo", "selfpipe"}
  /\ unread \in Nat /\ queued \in Nat /\ pipe \in Nat

SigioInv == SigioTyped /\ InputIsAnnounced
=============================================================================
