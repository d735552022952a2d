----------------------------- MODULE PshmTransfer -----------------------------
(***************************************************************************)
(* 54_Posix_Shared_Memory: pshm_writer.c copies its input block by block   *)
(* into a shared memory object, pshm_reader.c prints it.  Either may be    *)
(* started first: each creates its own semaphore and waits, by trying      *)
(* again every second, for the other's to appear.  Two semaphores say      *)
(* whose turn it is; an object of size 0 is the end of the input.          *)
(***************************************************************************)
EXTENDS Integers, Sequences

CONSTANT N         \* the number of blocks of the input, a natural number

Names == {"SHM_NAME", "WRITER_SEM", "READER_SEM"}

VARIABLES
  names,           \* the names that exist
  write_sem, read_sem,
  size,            \* st_size of the object is not 0
  addr,            \* the block in the object, 0 if there is none
  buf,             \* the block the writer has read
  wpc, rpc,        \* where the writer and the reader are
  next,            \* how many blocks the writer has read
  put,             \* how many it has copied
  out              \* the blocks printed

shared == <<names, write_sem, read_sem, size, addr>>
writer == <<buf, wpc, next, put>>
reader == <<rpc, out>>
vars == <<shared, writer, reader>>

Init ==
  /\ names = {} /\ write_sem = 0 /\ read_sem = 0
  /\ size = FALSE /\ addr = 0 /\ buf = 0
  /\ wpc = "shm" /\ rpc = "sem"
  /\ next = 0 /\ put = 0 /\ out = <<>>

-----------------------------------------------------------------------------
WriterGoto(a, b) == wpc = a /\ wpc' = b
ReaderGoto(a, b) == rpc = a /\ rpc' = b

\* shm_open, ftruncate to MMAP_SIZE, mmap.
CreateShm ==
  /\ WriterGoto("shm", "sem")
  /\ names' = names \cup {"SHM_NAME"} /\ size' = TRUE
  /\ UNCHANGED <<write_sem, read_sem, addr, buf, next, put, reader>>

CreateWriterSem ==
  /\ WriterGoto("sem", "peer")
  /\ names' = names \cup {"WRITER_SEM"} /\ write_sem' = 1
  /\ UNCHANGED <<read_sem, size, addr, buf, next, put, reader>>

\* ENOENT: sleep and try again.
OpenReaderSem ==
  /\ "READER_SEM" \in names
  /\ WriterGoto("peer", "wait")
  /\ UNCHANGED <<shared, buf, next, put, reader>>

WriterWaits ==
  /\ write_sem > 0
  /\ WriterGoto("wait", "read")
  /\ write_sem' = write_sem - 1
  /\ UNCHANGED <<names, read_sem, size, addr, buf, next, put, reader>>

\* A block of the input; or none: ftruncate to 0, and out of the loop.
ReadInput ==
  \/ /\ next < N
     /\ WriterGoto("read", "copy")
     /\ next' = next + 1 /\ buf' = next + 1
     /\ UNCHANGED <<shared, put, reader>>
  \/ /\ next = N
     /\ WriterGoto("read", "postLast")
     /\ size' = FALSE
     /\ UNCHANGED <<names, write_sem, read_sem, addr, buf, next, put, reader>>

Copy ==
  /\ WriterGoto("copy", "post")
  /\ addr' = buf /\ put' = put + 1
  /\ UNCHANGED <<names, write_sem, read_sem, size, buf, next, reader>>

WriterPosts ==
  /\ \/ WriterGoto("post", "wait")
     \/ WriterGoto("postLast", "unlink")
  /\ read_sem' = read_sem + 1
  /\ UNCHANGED <<names, write_sem, size, addr, buf, next, put, reader>>

WriterUnlinks ==
  /\ \/ WriterGoto("unlink", "unlinkShm") /\ names' = names \ {"WRITER_SEM"}
     \/ WriterGoto("unlinkShm", "done") /\ names' = names \ {"SHM_NAME"}
  /\ UNCHANGED <<write_sem, read_sem, size, addr, buf, next, put, reader>>

Writer == \/ CreateShm \/ CreateWriterSem \/ OpenReaderSem \/ WriterWaits
          \/ ReadInput \/ Copy \/ WriterPosts \/ WriterUnlinks

-----------------------------------------------------------------------------
CreateReaderSem ==
  /\ ReaderGoto("sem", "peer")
  /\ names' = names \cup {"READER_SEM"}
  /\ UNCHANGED <<write_sem, read_sem, size, addr, writer, out>>

OpenWriterSem ==
  /\ "WRITER_SEM" \in names
  /\ ReaderGoto("peer", "shm")
  /\ UNCHANGED <<shared, writer, out>>

\* shm_open without O_CREAT: errExit if the object is not there.
OpenShm ==
  /\ ReaderGoto("shm", IF "SHM_NAME" \in names THEN "wait" ELSE "failed")
  /\ UNCHANGED <<shared, writer, out>>

ReaderWaits ==
  /\ read_sem > 0
  /\ ReaderGoto("wait", "stat")
  /\ read_sem' = read_sem - 1
  /\ UNCHANGED <<names, write_sem, size, addr, writer, out>>

ReaderStats ==
  /\ ReaderGoto("stat", IF size THEN "print" ELSE "unlink")
  /\ UNCHANGED <<shared, writer, out>>

\* Mutant: the writer is woken before the block is copied.
PrintLate ==
  /\ \/ ReaderGoto("print", "post") /\ UNCHANGED out
        /\ write_sem' = write_sem + 1
     \/ ReaderGoto("post", "wait") /\ out' = Append(out, addr)
        /\ UNCHANGED write_sem
  /\ UNCHANGED <<names, read_sem, size, addr, writer>>

ReaderPrints ==
  /\ \/ ReaderGoto("print", "post") /\ out' = Append(out, addr)
        /\ UNCHANGED write_sem
     \/ ReaderGoto("post", "wait") /\ UNCHANGED out
        /\ write_sem' = write_sem + 1
  /\ UNCHANGED <<names, read_sem, size, addr, writer>>

ReaderUnlinks ==
  /\ ReaderGoto("unlink", "done")
  /\ names' = names \ {"READER_SEM"}
  /\ UNCHANGED <<write_sem, read_sem, size, addr, writer, out>>

Reader == \/ CreateReaderSem \/ OpenWriterSem \/ OpenShm \/ ReaderWaits
          \/ ReaderStats \/ ReaderPrints \/ ReaderUnlinks

-----------------------------------------------------------------------------
Ended == wpc = "done" /\ rpc \in {"done", "failed"} /\ UNCHANGED vars

Next == Writer \/ Reader \/ Ended

Spec == Init /\ [][Next]_vars

\* Both programs are started, and run.
FairSpec == Spec /\ WF_vars(Writer) /\ WF_vars(Reader)

-----------------------------------------------------------------------------
\* The type of every variable; the semaphores never exceed 1.
TypeOK ==
  /\ names \subseteq Names
  /\ write_sem \in 0..1 /\ read_sem \in 0..1
  /\ size \in BOOLEAN /\ addr \in 0..N /\ buf \in 0..N
  /\ wpc \in {"shm", "sem", "peer", "wait", "read", "copy", "post", "postLast",
              "unlink", "unlinkShm", "done"}
  /\ rpc \in {"sem", "peer", "shm", "wait", "stat", "print", "post", "unlink",
              "done", "failed"}
  /\ next \in 0..N /\ put \in 0..N
  /\ out \in Seq(0..N)

\* Both programs come to an end and leave no name behind, if the input is not empty.
BothEnded == wpc = "done" /\ rpc = "done" /\ names = {}

(***************************************************************************)
(* The inductive invariant behind the proof that the two programs transfer *)
(* the input block by block: one token goes round.                         *)
(***************************************************************************)
\* The reader has not taken the token, or has given it back.
Away == rpc \in {"sem", "peer", "shm", "failed", "wait"}
Over == wpc \in {"postLast", "unlink", "unlinkShm", "done"}

\* Where the one token can be, and how many blocks are out then.
Turn ==
  \/ /\ wpc \in {"shm", "sem", "read", "copy", "postLast"} /\ Away
     /\ write_sem = 0 /\ read_sem = 0 /\ Len(out) = put
  \/ /\ wpc \in {"peer", "wait"} /\ Away
     /\ write_sem = 1 /\ read_sem = 0 /\ Len(out) = put
  \/ /\ wpc = "post" /\ Away
     /\ write_sem = 0 /\ read_sem = 0 /\ Len(out) = put - 1 /\ addr = put
  \/ /\ wpc = "wait" /\ write_sem = 0 /\ Len(out) = put - 1 /\ addr = put
     /\ (read_sem = 1 /\ Away) \/ (read_sem = 0 /\ rpc \in {"stat", "print"})
  \/ /\ wpc = "wait" /\ rpc = "post"
     /\ write_sem = 0 /\ read_sem = 0 /\ Len(out) = put
  \/ /\ wpc \in {"unlink", "unlinkShm", "done"} /\ write_sem = 0 /\ Len(out) = put
     /\ (read_sem = 1 /\ Away) \/ (read_sem = 0 /\ rpc \in {"stat", "unlink", "done"})

\* The reader comes past its rendezvous after the writer's semaphore has its value.
TurnInv ==
  /\ "WRITER_SEM" \in names => wpc \notin {"shm", "sem"}
  /\ rpc \notin {"sem", "peer"} => wpc \notin {"shm", "sem"}
  /\ wpc \notin {"shm"} => size = ~Over
  /\ Over => next = N
  /\ put = IF wpc = "copy" THEN next - 1 ELSE next
  /\ wpc = "copy" => buf = next
  /\ Turn

Inv == TypeOK /\ TurnInv
=============================================================================
