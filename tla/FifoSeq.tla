------------------------------- MODULE FifoSeq -------------------------------
(***************************************************************************)
(* 44_Pipes_And_FIFOs: the sequence number server fifo_sq_sv.c, its client *)
(* fifo_sq_cl.c, and malicious_client.c, which never opens its own FIFO.   *)
(* The server may be stopped by SIGINT or SIGTERM, may crash (SIGKILL, a   *)
(* power cut) between any two steps, and may be started again.             *)
(*                                                                         *)
(* A FIFO keeps its contents while some process has it open.  A process    *)
(* blocked in open(O_RDONLY) already counts as a reader.                   *)
(***************************************************************************)
EXTENDS Integers, Sequences, FiniteSets

CONSTANTS
  Clients,
  Malicious,    \* the clients that run malicious_client.c
  SeqLen,       \* SeqLen[c]: the length of the sequence client c asks for
  Empty,        \* the backup file after ftruncate, or before it exists
  NoNum,        \* no response
  MAX_SIZE,     \* the largest number of MAX_DIGITS digits
  MaxStops,     \* bound: signals sent to the server
  MaxCrashes    \* bound: crashes of the server

ASSUME FifoAssumption ==
  /\ Malicious \subseteq Clients
  /\ SeqLen \in [Clients -> Int]
  /\ MAX_SIZE \in Nat /\ Empty \notin Int
  /\ MaxStops \in Nat /\ MaxCrashes \in Nat

VARIABLES
  spc,          \* where the server is
  seq_num,
  backup,       \* the contents of seqnum_backup.txt: a number or Empty
  stop_requested,
  cur,          \* the client of the request being served
  tries,        \* retry_count
  fifo,         \* SERVER_FIFO exists
  queue,        \* the requests in SERVER_FIFO
  cpc,          \* cpc[c]: where client c is
  cfifo,        \* cfifo[c]: the FIFO of client c exists
  box,          \* box[c]: the response in the FIFO of client c
  got,          \* got[c]: the number client c printed
  stops, crashes

server == <<spc, seq_num, backup, stop_requested, cur, tries>>
clients == <<cpc, cfifo, box, got>>
bounds == <<stops, crashes>>
vars == <<server, fifo, queue, clients, bounds>>

Init ==
  /\ spc = "down" /\ seq_num = 0 /\ backup = Empty
  /\ stop_requested = FALSE
  /\ cur \in Clients /\ tries = 1
  /\ fifo = FALSE /\ queue = <<>>
  /\ cpc = [c \in Clients |-> "start"]
  /\ cfifo = [c \in Clients |-> FALSE]
  /\ box = [c \in Clients |-> NoNum]
  /\ got = [c \in Clients |-> NoNum]
  /\ stops = 0 /\ crashes = 0

HasReader(c) == cpc[c] \in {"opening", "reading"}
\* Mutant: client_fd is never closed.
HasLeakedWriter(c) == cur = c /\ spc \in {"closeDummy", "write", "close",
                                         "truncate", "store", "top", "read"}

HasWriter(c) == cur = c /\ spc \in {"closeDummy", "write", "close"}

\* What a process that is gone leaves in SERVER_FIFO, if the clients of S have
\* it open and the server has not.
Kept(S) == IF S = {} THEN <<>> ELSE queue
Connected == {c \in Clients : cpc[c] \in {"opened", "sent", "opening", "reading"}}

-----------------------------------------------------------------------------
(* The server.                                                             *)

ServerGoto(a, b) == spc = a /\ spc' = b

\* snprintf(seq_num_buf, 10, "%d", seq_num): a minus sign and MAX_DIGITS digits
\* are one character too many, and the last digit is lost.
Stored(n) == IF n <= -((MAX_SIZE + 1) \div 10) THEN -((-n) \div 10) ELSE n

\* Mutant: the server of the book, which starts from 0 each time.
StartAtZero ==
  /\ ServerGoto("down", "top")
  /\ seq_num' = 0
  /\ fifo' = TRUE
  /\ UNCHANGED <<backup, stop_requested, cur, tries, queue, clients, bounds>>

Start ==
  /\ ServerGoto("down", "top")
  /\ seq_num' = IF backup = Empty THEN 0 ELSE backup
  /\ fifo' = TRUE
  /\ UNCHANGED <<backup, stop_requested, cur, tries, queue, clients, bounds>>

\* exit() unlinks the FIFO; a later server makes another one.
StopAtTop ==
  /\ stop_requested
  /\ ServerGoto("top", "down")
  /\ stop_requested' = FALSE
  /\ fifo' = FALSE /\ queue' = <<>>
  /\ cpc' = [c \in Clients |-> IF cpc[c] = "opened" THEN "stale" ELSE cpc[c]]
  /\ UNCHANGED <<seq_num, backup, cur, tries, cfifo, box, got, bounds>>

GoRead ==
  /\ ~stop_requested
  /\ ServerGoto("top", "read")
  /\ UNCHANGED <<seq_num, backup, stop_requested, cur, tries, fifo, queue,
                 clients, bounds>>

ReadRequest ==
  /\ queue # <<>>
  /\ ServerGoto("read", "openDummy")
  /\ cur' = Head(queue)
  /\ queue' = Tail(queue)
  /\ UNCHANGED <<seq_num, backup, stop_requested, tries, fifo, clients, bounds>>

\* O_RDONLY | O_NONBLOCK: fails only if the client's FIFO is gone.
OpenDummy ==
  /\ ServerGoto("openDummy", IF cfifo[cur] THEN "openWrite" ELSE "top")
  /\ UNCHANGED <<seq_num, backup, stop_requested, cur, tries, fifo, queue,
                 clients, bounds>>

\* Mutant: without the dummy reader, open(O_WRONLY) waits for the client.
OpenWriteBlocking ==
  /\ cfifo[cur] => HasReader(cur)
  /\ ServerGoto("openWrite", IF cfifo[cur] THEN "closeDummy" ELSE "top")
  /\ cpc' = IF cfifo[cur] /\ cpc[cur] = "opening"
            THEN [cpc EXCEPT ![cur] = "reading"] ELSE cpc
  /\ UNCHANGED <<seq_num, backup, stop_requested, cur, tries, fifo, queue,
                 cfifo, box, got, bounds>>

\* O_WRONLY does not block, the dummy being a reader; a client that waits in
\* its own open goes on.
OpenWrite ==
  /\ ServerGoto("openWrite", IF cfifo[cur] THEN "closeDummy" ELSE "top")
  /\ cpc' = IF cfifo[cur] /\ cpc[cur] = "opening"
            THEN [cpc EXCEPT ![cur] = "reading"] ELSE cpc
  /\ UNCHANGED <<seq_num, backup, stop_requested, cur, tries, fifo, queue,
                 cfifo, box, got, bounds>>

CloseDummy ==
  /\ ServerGoto("closeDummy", "write")
  /\ tries' = 1
  /\ UNCHANGED <<seq_num, backup, stop_requested, cur, fifo, queue, clients,
                 bounds>>

\* Mutant: one attempt too many.
WriteFourTimes ==
  /\ IF HasReader(cur)
     THEN /\ ServerGoto("write", "close")
          /\ box' = [box EXCEPT ![cur] = seq_num]
          /\ UNCHANGED tries
     ELSE /\ ServerGoto("write", IF tries = 4 THEN "close" ELSE "write")
          /\ tries' = tries + 1
          /\ UNCHANGED box
  /\ UNCHANGED <<seq_num, backup, stop_requested, cur, fifo, queue, cpc, cfifo,
                 got, bounds>>

\* Without a reader: EPIPE, three times at most.
WriteResponse ==
  /\ IF HasReader(cur)
     THEN /\ ServerGoto("write", "close")
          /\ box' = [box EXCEPT ![cur] = seq_num]
          /\ UNCHANGED tries
     ELSE /\ ServerGoto("write", IF tries = 3 THEN "close" ELSE "write")
          /\ tries' = tries + 1
          /\ UNCHANGED box
  /\ UNCHANGED <<seq_num, backup, stop_requested, cur, fifo, queue, cpc, cfifo,
                 got, bounds>>

\* close(client_fd), then the next number, whether or not a client read this
\* one; a number of more than MAX_DIGITS digits is refused.
CloseAndUpdate ==
  /\ ServerGoto("close", "truncate")
  /\ LET next == seq_num + SeqLen[cur] IN
     seq_num' = IF next \in -MAX_SIZE..MAX_SIZE THEN next ELSE seq_num
  /\ UNCHANGED <<backup, stop_requested, cur, tries, fifo, queue, clients,
                 bounds>>

\* Mutant: the file is emptied and not written.
TruncateOnly ==
  /\ ServerGoto("truncate", "top")
  /\ backup' = Empty
  /\ UNCHANGED <<seq_num, stop_requested, cur, tries, fifo, queue, clients,
                 bounds>>

Truncate ==
  /\ ServerGoto("truncate", "store")
  /\ backup' = Empty
  /\ UNCHANGED <<seq_num, stop_requested, cur, tries, fifo, queue, clients,
                 bounds>>

Store ==
  /\ ServerGoto("store", "top")
  /\ backup' = Stored(seq_num)
  /\ UNCHANGED <<seq_num, stop_requested, cur, tries, fifo, queue, clients,
                 bounds>>

Server == \/ StopAtTop \/ GoRead \/ ReadRequest \/ OpenDummy \/ OpenWrite
          \/ CloseDummy \/ WriteResponse \/ CloseAndUpdate \/ Truncate \/ Store

\* setDeathFlag: the read it interrupts, if any, is repeated by way of the top;
\* a signal just before the read interrupts nothing.
Signal ==
  /\ spc # "down" /\ stops < MaxStops
  /\ stops' = stops + 1
  /\ stop_requested' = TRUE
  /\ \/ spc' = spc
     \/ spc = "read" /\ spc' = "top"
  /\ UNCHANGED <<seq_num, backup, cur, tries, fifo, queue, clients, crashes>>

Crash ==
  /\ spc # "down" /\ crashes < MaxCrashes
  /\ crashes' = crashes + 1
  /\ spc' = "down" /\ stop_requested' = FALSE
  /\ queue' = Kept(Connected)
  /\ UNCHANGED <<seq_num, backup, cur, tries, fifo, clients, stops>>

-----------------------------------------------------------------------------
(* A client.                                                               *)

ClientGoto(c, a, b) == cpc[c] = a /\ cpc' = [cpc EXCEPT ![c] = b]

\* A client that ends closes SERVER_FIFO; its own is unlinked by exit().
End(c, a, b) ==
  /\ ClientGoto(c, a, b)
  /\ cfifo' = [cfifo EXCEPT ![c] = FALSE]
  /\ queue' = IF spc = "down" THEN Kept(Connected \ {c}) ELSE queue

MakeFifo(c) ==
  /\ ClientGoto(c, "start", "made")
  /\ cfifo' = [cfifo EXCEPT ![c] = TRUE]
  /\ UNCHANGED <<server, fifo, queue, box, got, bounds>>

\* Waits for a reader if the FIFO has none.
OpenServer(c) ==
  /\ fifo /\ spc # "down"
  /\ ClientGoto(c, "made", "opened")
  /\ UNCHANGED <<server, fifo, queue, cfifo, box, got, bounds>>

NoServer(c) ==
  /\ ~fifo
  /\ End(c, "made", "failed")
  /\ UNCHANGED <<server, fifo, box, got, bounds>>

Send(c) ==
  /\ spc # "down"
  /\ ClientGoto(c, "opened", "sent")
  /\ queue' = Append(queue, c)
  /\ UNCHANGED <<server, fifo, cfifo, box, got, bounds>>

\* No reader: SIGPIPE, which kills the client and leaves its FIFO behind.
Killed(c) ==
  /\ \/ spc = "down" /\ ClientGoto(c, "opened", "killed")
     \/ ClientGoto(c, "stale", "killed")
  /\ queue' = IF spc = "down" THEN Kept(Connected \ {c}) ELSE queue
  /\ UNCHANGED <<server, fifo, cfifo, box, got, bounds>>

OpenOwn(c) ==
  /\ c \notin Malicious
  /\ ClientGoto(c, "sent", IF HasWriter(c) THEN "reading" ELSE "opening")
  /\ UNCHANGED <<server, fifo, queue, cfifo, box, got, bounds>>

ReadResponse(c) ==
  /\ box[c] # NoNum
  /\ got' = [got EXCEPT ![c] = box[c]]
  /\ box' = [box EXCEPT ![c] = NoNum]
  /\ End(c, "reading", "done")
  /\ UNCHANGED <<server, fifo, bounds>>

\* End of file: the server closed the FIFO without a response.
ReadEOF(c) ==
  /\ box[c] = NoNum /\ ~HasWriter(c)
  /\ End(c, "reading", "failed")
  /\ UNCHANGED <<server, fifo, box, got, bounds>>

\* malicious_client.c: sleep, then exit.
WalkAway(c) ==
  /\ c \in Malicious
  /\ End(c, "sent", "failed")
  /\ UNCHANGED <<server, fifo, box, got, bounds>>

Client(c) ==
  \/ MakeFifo(c) \/ OpenServer(c) \/ NoServer(c) \/ Send(c) \/ Killed(c)
  \/ OpenOwn(c) \/ ReadResponse(c) \/ ReadEOF(c) \/ WalkAway(c)

-----------------------------------------------------------------------------
Next == Server \/ Start \/ Signal \/ Crash \/ (\E c \in Clients : Client(c))

Spec == Init /\ [][Next]_vars

\* The server runs while it is up; the clients may stop at any point.
FairSpec == Spec /\ WF_vars(Server)

-----------------------------------------------------------------------------
ServerPCs == {"down", "top", "read", "openDummy", "openWrite", "closeDummy",
              "write", "close", "truncate", "store"}
ClientPCs == {"start", "made", "opened", "stale", "sent", "opening", "reading",
              "done", "failed", "killed"}
Numbers == -MAX_SIZE..MAX_SIZE

TypeOK ==
  /\ spc \in ServerPCs /\ seq_num \in Numbers
  /\ backup \in Numbers \cup {Empty}
  /\ stop_requested \in BOOLEAN
  /\ cur \in Clients /\ tries \in 1..4
  /\ fifo \in BOOLEAN /\ queue \in Seq(Clients)
  /\ cpc \in [Clients -> ClientPCs]
  /\ cfifo \in [Clients -> BOOLEAN]
  /\ box \in [Clients -> Numbers \cup {NoNum}]
  /\ got \in [Clients -> Numbers \cup {NoNum}]
  /\ stops \in 0..MaxStops /\ crashes \in 0..MaxCrashes

\* The first number client c was given, if it was given one.
Given(c) == IF got[c] # NoNum THEN got[c] ELSE box[c]

\* The sequence c was given does not go beyond MAX_SIZE: it was not refused.
Fits(c) == Given(c) + SeqLen[c] <= MAX_SIZE

(***************************************************************************)
(* No number is given out twice: the sequences of two clients are disjoint,*)
(* even if the server was stopped and started again in between, or refused *)
(* a third one.  A crash between the write and the backup of the next      *)
(* number makes the restarted server repeat itself; a sequence that is     *)
(* refused, or a length below 0, does so too.                              *)
(***************************************************************************)
NumbersDisjoint ==
  crashes = 0 => \A c, d \in Clients :
    c # d /\ Given(c) # NoNum /\ Given(d) # NoNum /\ Fits(c) /\ Fits(d) =>
      \/ Given(c) + SeqLen[c] <= Given(d)
      \/ Given(d) + SeqLen[d] <= Given(c)

\* Between two requests the backup file holds the number the server would go
\* on with, so that a restart continues where it stopped.
BackupIsCurrent ==
  spc \in {"top", "read"} =>
    seq_num = IF backup = Empty THEN 0 ELSE backup

Waits(c) == \E i \in 1..Len(queue) : queue[i] = c

\* Exercise 44-6: no client, however it behaves, keeps the server from taking
\* the requests of the others, as long as the server is up.
RequestsAreTaken ==
  \A c \in Clients : Waits(c) ~> ~Waits(c) \/ spc = "down"

\* A client that runs and has its FIFO open is never left waiting for a
\* response, even if the server crashes while it serves this client.
ReadersEnd ==
  \A c \in Clients : WF_vars(Client(c)) =>
    (cpc[c] = "reading" ~> cpc[c] \in {"done", "failed"})
=============================================================================
