----------------------------- MODULE RlbufSeqnum -----------------------------
(***************************************************************************)
(* 59_Sockets_Internet_Domain: the sequence number server rlbuf_seqnum_sv.c*)
(* over stream sockets, and its client rlbuf_seqnum_cl.c.  The server      *)
(* takes one connection at a time and reads one line from it, which        *)
(* arrives in pieces: LineBuffer has read_line_buf, which this module      *)
(* takes to return the line, or 0 once the client has closed.              *)
(*                                                                         *)
(* Left out: a failing accept; lines too long for the buffers; the wrap of *)
(* seqNum at 2^32.                                                         *)
(***************************************************************************)
EXTENDS Integers, Sequences

CONSTANTS
  Clients,
  SeqLen,      \* SeqLen[c]: what client c sends for a length, an integer
  NoNum        \* no response

VARIABLES
  spc, cfd,    \* the server, and the connection it has accepted
  seqNum,
  backlog,     \* the clients that are connected and not accepted yet
  line,        \* line[c]: "none", "part" or "whole" of its line has been sent
  response,    \* response[c]: what the server has written to the connection
  closed,      \* the connections the server has closed
  cpc, printed

vars == <<spc, cfd, seqNum, backlog, line, response, closed, cpc, printed>>
server == <<spc, cfd, seqNum>>

Init ==
  /\ spc = "accept" /\ cfd \in Clients /\ seqNum = 0
  /\ backlog = <<>>
  /\ line = [c \in Clients |-> "none"]
  /\ response = [c \in Clients |-> NoNum]
  /\ closed = {}
  /\ cpc = [c \in Clients |-> "start"]
  /\ printed = [c \in Clients |-> NoNum]

-----------------------------------------------------------------------------
ServerGoto(a, b) == spc = a /\ spc' = b

Accept ==
  /\ backlog # <<>>
  /\ ServerGoto("accept", "read")
  /\ cfd' = Head(backlog) /\ backlog' = Tail(backlog)
  /\ UNCHANGED <<seqNum, line, response, closed, cpc, printed>>

\* Mutant: a bad request is skipped, and its connection left open.
ReadLineKeeps ==
  /\ line[cfd] = "whole"
  /\ ServerGoto("read", IF SeqLen[cfd] <= 0 THEN "accept" ELSE "write")
  /\ UNCHANGED <<cfd, seqNum, backlog, line, response, closed, cpc, printed>>

\* The line is there; a length below 1 ends the connection.
ReadLine ==
  /\ line[cfd] = "whole"
  /\ ServerGoto("read", IF SeqLen[cfd] <= 0 THEN "close" ELSE "write")
  /\ UNCHANGED <<cfd, seqNum, backlog, line, response, closed, cpc, printed>>

\* The client has closed before its line was complete.
ReadEOF ==
  /\ line[cfd] # "whole" /\ cpc[cfd] = "gone"
  /\ ServerGoto("read", "close")
  /\ UNCHANGED <<cfd, seqNum, backlog, line, response, closed, cpc, printed>>

\* write, which fails without SIGPIPE if the client is gone; close.
WriteResponse ==
  /\ ServerGoto("write", "update")
  /\ response' = [response EXCEPT ![cfd] = IF cpc[cfd] = "gone" THEN @ ELSE seqNum]
  /\ UNCHANGED <<cfd, seqNum, backlog, line, closed, cpc, printed>>

Update ==
  /\ ServerGoto("update", "close")
  /\ seqNum' = seqNum + SeqLen[cfd]
  /\ UNCHANGED <<cfd, backlog, line, response, closed, cpc, printed>>

Close ==
  /\ ServerGoto("close", "accept")
  /\ closed' = closed \cup {cfd}
  /\ UNCHANGED <<cfd, seqNum, backlog, line, response, cpc, printed>>

Server == Accept \/ ReadLine \/ ReadEOF \/ WriteResponse \/ Update \/ Close

-----------------------------------------------------------------------------
ClientGoto(c, a, b) == cpc[c] = a /\ cpc' = [cpc EXCEPT ![c] = b]

Connect(c) ==
  /\ ClientGoto(c, "start", "sending")
  /\ backlog' = Append(backlog, c)
  /\ UNCHANGED <<server, line, response, closed, printed>>

\* Two writes, one of them the newline.
SendPart(c) ==
  /\ cpc[c] = "sending" /\ line[c] = "none"
  /\ line' = [line EXCEPT ![c] = "part"]
  /\ UNCHANGED <<server, backlog, response, closed, cpc, printed>>

SendRest(c) ==
  /\ line[c] = "part"
  /\ ClientGoto(c, "sending", "waiting")
  /\ line' = [line EXCEPT ![c] = "whole"]
  /\ UNCHANGED <<server, backlog, response, closed, printed>>

ReceiveResponse(c) ==
  /\ response[c] # NoNum
  /\ ClientGoto(c, "waiting", "done")
  /\ printed' = [printed EXCEPT ![c] = response[c]]
  /\ UNCHANGED <<server, backlog, line, response, closed>>

\* "Unexpected EOF from server".
ReceiveEOF(c) ==
  /\ response[c] = NoNum /\ c \in closed
  /\ ClientGoto(c, "waiting", "failed")
  /\ UNCHANGED <<server, backlog, line, response, closed, printed>>

\* The client is killed, and its end of the connection closed.
Leave(c) ==
  /\ cpc[c] \in {"sending", "waiting"}
  /\ cpc' = [cpc EXCEPT ![c] = "gone"]
  /\ UNCHANGED <<server, backlog, line, response, closed, printed>>

Client(c) == Connect(c) \/ SendPart(c) \/ SendRest(c) \/ ReceiveResponse(c)
             \/ ReceiveEOF(c)

Next == Server \/ \E c \in Clients : Client(c) \/ Leave(c)

Spec == Init /\ [][Next]_vars

\* The server runs.  A client may stop at any point, silent ones included.
FairSpec == Spec /\ WF_vars(Server)

-----------------------------------------------------------------------------
TypeOK ==
  /\ spc \in {"accept", "read", "write", "update", "close"} /\ cfd \in Clients
  /\ seqNum \in Int /\ backlog \in Seq(Clients) /\ closed \subseteq Clients
  /\ line \in [Clients -> {"none", "part", "whole"}]
  /\ {response, printed} \subseteq [Clients -> Int \cup {NoNum}]
  /\ cpc \in [Clients -> {"start", "sending", "waiting", "done", "failed", "gone"}]

(***************************************************************************)
(* As a sequence number allocator the server grants a request when it      *)
(* writes the response, one step before seqNum moves on.                   *)
(***************************************************************************)
Assigned == IF spc = "update" THEN seqNum + SeqLen[cfd] ELSE seqNum

\* A client that has sent its line is answered, or its connection closed,
\* unless the server waits for ever for another that stays silent.
ClientsAreServed ==
  \/ <>[](spc = "read" /\ line[cfd] # "whole")
  \/ \A c \in Clients :
       cpc[c] = "waiting" ~> \/ cpc[c] # "waiting"
                             \/ response[c] # NoNum \/ c \in closed
=============================================================================
