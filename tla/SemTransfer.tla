----------------------------- MODULE SemTransfer ------------------------------
(***************************************************************************)
(* 53_Posix_Semaphores/sem_data_transfer.c: main reads its input block by  *)
(* block into a global buffer, and a thread prints it.  Two semaphores say *)
(* whose turn it is.  The input is text: printf("%s") stops at a NUL.      *)
(***************************************************************************)
EXTENDS Integers, Sequences

CONSTANT N       \* the number of blocks of the input

ASSUME SemTransferAssumption == N \in Nat

VARIABLES
  sem1, sem2,
  data,          \* the block in the buffer, 0 if there is none
  eof,
  wpc, rpc,      \* where main (the writer) and the thread (the reader) are
  next,          \* how many blocks main has read
  out            \* the blocks printed

vars == <<sem1, sem2, data, eof, wpc, rpc, next, out>>

\* Mutant: the buffer counts as free twice.
InitFreeTwice ==
  /\ sem1 = 2 /\ sem2 = 0
  /\ data = 0 /\ eof = FALSE
  /\ wpc = "wait" /\ rpc = "wait"
  /\ next = 0 /\ out = <<>>

Init ==
  /\ sem1 = 1 /\ sem2 = 0
  /\ data = 0 /\ eof = FALSE
  /\ wpc = "wait" /\ rpc = "wait"
  /\ next = 0 /\ out = <<>>

WriterWaits ==
  /\ wpc = "wait" /\ sem1 > 0
  /\ wpc' = "read" /\ sem1' = sem1 - 1
  /\ UNCHANGED <<sem2, data, eof, rpc, next, out>>

ReadBlock ==
  /\ wpc = "read" /\ next < N
  /\ wpc' = "post"
  /\ next' = next + 1 /\ data' = next + 1
  /\ UNCHANGED <<sem1, sem2, eof, rpc, out>>

\* data[0] = '\0' and eof = 1.
ReadNothing ==
  /\ wpc = "read" /\ next = N
  /\ wpc' = "post"
  /\ data' = 0 /\ eof' = TRUE
  /\ UNCHANGED <<sem1, sem2, rpc, next, out>>

WriterPosts ==
  /\ wpc = "post"
  /\ wpc' = IF eof THEN "join" ELSE "wait"
  /\ sem2' = sem2 + 1
  /\ UNCHANGED <<sem1, data, eof, rpc, next, out>>

WriterJoins ==
  /\ wpc = "join" /\ rpc = "done"
  /\ wpc' = "done"
  /\ UNCHANGED <<sem1, sem2, data, eof, rpc, next, out>>

ReaderWaits ==
  /\ rpc = "wait" /\ sem2 > 0
  /\ rpc' = "test" /\ sem2' = sem2 - 1
  /\ UNCHANGED <<sem1, data, eof, wpc, next, out>>

ReaderTests ==
  /\ rpc = "test"
  /\ rpc' = IF eof THEN "done" ELSE "print"
  /\ UNCHANGED <<sem1, sem2, data, eof, wpc, next, out>>

ReaderPrints ==
  /\ rpc = "print"
  /\ rpc' = "post"
  /\ out' = Append(out, data)
  /\ UNCHANGED <<sem1, sem2, data, eof, wpc, next>>

ReaderPosts ==
  /\ rpc = "post"
  /\ rpc' = "wait" /\ sem1' = sem1 + 1
  /\ UNCHANGED <<sem2, data, eof, wpc, next, out>>

Writer == \/ WriterWaits \/ ReadBlock \/ ReadNothing \/ WriterPosts
          \/ WriterJoins
Reader == ReaderWaits \/ ReaderTests \/ ReaderPrints \/ ReaderPosts

Ended == wpc = "done" /\ UNCHANGED vars

Next == Writer \/ Reader \/ Ended

Spec == Init /\ [][Next]_vars

\* Both threads run whenever they can.
FairSpec == Spec /\ WF_vars(Writer) /\ WF_vars(Reader)

-----------------------------------------------------------------------------
\* The type of every variable; the semaphores never exceed 1.
TypeOK ==
  /\ sem1 \in 0..1 /\ sem2 \in 0..1
  /\ data \in 0..N /\ eof \in BOOLEAN
  /\ wpc \in {"wait", "read", "post", "join", "done"}
  /\ rpc \in {"wait", "test", "print", "post", "done"}
  /\ next \in 0..N
  /\ out \in Seq(0..N)

\* The program transfers the blocks of its input through the buffer.
Transfer == INSTANCE BlockTransfer WITH in <- next, ended <- (rpc = "done")
IsTransfer == Transfer!BSpec

\* Main joins the thread and the program ends.
ProgramEnds == <>(wpc = "done")

(***************************************************************************)
(* The inductive invariant behind IsTransfer.  One token goes round: in    *)
(* sem1, with main, in sem2, with the reader.  From the block's being read *)
(* until it is printed, `data' is the block and `out' is one behind.       *)
(***************************************************************************)
Turns == {<<1, 0, "wait", "wait">>, <<0, 0, "read", "wait">>,
          <<0, 0, "post", "wait">>, <<0, 1, "wait", "wait">>,
          <<0, 1, "join", "wait">>, <<0, 0, "wait", "test">>,
          <<0, 0, "join", "test">>, <<0, 0, "wait", "print">>,
          <<0, 0, "wait", "post">>, <<0, 0, "join", "done">>,
          <<0, 0, "done", "done">>}

Full == (wpc = "post" \/ sem2 = 1 \/ rpc \in {"test", "print"}) /\ ~eof

TurnInv ==
  /\ <<sem1, sem2, wpc, rpc>> \in Turns
  /\ eof => wpc \in {"post", "join", "done"} /\ next = N
  /\ wpc \in {"join", "done"} => eof
  /\ Full => data = next /\ next = Len(out) + 1
  /\ ~Full => next = Len(out)

IndInv == TypeOK /\ TurnInv
=============================================================================
