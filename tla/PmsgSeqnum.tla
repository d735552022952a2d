------------------------------ MODULE PmsgSeqnum ------------------------------
(***************************************************************************)
(* 52_Posix_Message_Queues: the sequence number server pmsg_seqnum_server.c*)
(* and its client pmsg_seqnum_client.c, over POSIX message queues.  One    *)
(* life of the server: it keeps no backup.  A client may be killed at any  *)
(* point, which leaves its queue behind (remove_pmsg runs at exit only).   *)
(*                                                                         *)
(* Left out: a failing mq_receive without a signal, and a failing mq_send, *)
(* the client's queue having room for the one answer it ever gets.         *)
(***************************************************************************)
EXTENDS Integers, Sequences

CONSTANTS
  Clients,
  SeqLen,      \* SeqLen[c]: the seq-len argument of client c, at least 1
  NoNum,       \* no response
  IntMax,      \* INT_MAX
  MaxMsg,      \* mq_maxmsg of the server's queue
  MaxSignals,  \* bound: signals sent to the server
  MaxKills     \* bound: clients killed

VARIABLES
  spc,         \* where the server is
  seq_val,
  quit,
  req,         \* the client whose request was received last
  mq,          \* the requests in SERVER_PMSG
  linked,      \* SERVER_PMSG exists
  cpc,         \* cpc[c]: where client c is
  cmq,         \* cmq[c]: the queue of client c exists
  resp,        \* resp[c]: the response in the queue of client c
  printed,     \* printed[c]: the "Previous value" of client c
  signals, kills

vars == <<spc, seq_val, quit, req, mq, linked, cpc, cmq, resp, printed,
          signals, kills>>
server == <<spc, seq_val, quit, req, linked, signals>>
client == <<cpc, cmq, printed, kills>>

Init ==
  /\ spc = "start" /\ seq_val = 0 /\ quit = FALSE
  /\ req \in Clients
  /\ mq = <<>> /\ linked = FALSE
  /\ cpc = [c \in Clients |-> "start"]
  /\ cmq = [c \in Clients |-> FALSE]
  /\ resp = [c \in Clients |-> NoNum]
  /\ printed = [c \in Clients |-> NoNum]
  /\ signals = 0 /\ kills = 0

\* Signed addition of two non-negative int, as the build computes it.
Plus(a, b) == IF a + b > IntMax THEN a + b - 2 * (IntMax + 1) ELSE a + b

-----------------------------------------------------------------------------
ServerGoto(a, b) == spc = a /\ spc' = b

CreateServer ==
  /\ ServerGoto("start", "receive")
  /\ linked' = TRUE
  /\ UNCHANGED <<seq_val, quit, req, mq, resp, signals, client>>

Receive ==
  /\ mq # <<>>
  /\ ServerGoto("receive", "open")
  /\ req' = Head(mq) /\ mq' = Tail(mq)
  /\ UNCHANGED <<seq_val, quit, linked, resp, signals, client>>

\* A client without a queue: "dropping request".
OpenClient ==
  /\ ServerGoto("open", IF cmq[req] THEN "send" ELSE "receive")
  /\ UNCHANGED <<seq_val, quit, req, mq, linked, resp, signals, client>>

SendResponse ==
  /\ ServerGoto("send", "update")
  /\ resp' = [resp EXCEPT ![req] = seq_val]
  /\ UNCHANGED <<seq_val, quit, req, mq, linked, signals, client>>

\* Mutant: the numbers overlap by one.
UpdateShort ==
  /\ ServerGoto("update", "receive")
  /\ seq_val' = Plus(seq_val, SeqLen[req] - 1)
  /\ UNCHANGED <<quit, req, mq, linked, resp, signals, client>>

Update ==
  /\ ServerGoto("update", "receive")
  /\ seq_val' = Plus(seq_val, SeqLen[req])
  /\ UNCHANGED <<quit, req, mq, linked, resp, signals, client>>

\* mq_unlink, exit.
Unlink ==
  /\ ServerGoto("unlink", "gone")
  /\ linked' = FALSE
  /\ UNCHANGED <<seq_val, quit, req, mq, resp, signals, client>>

Server == CreateServer \/ Receive \/ OpenClient \/ SendResponse \/ Update
          \/ Unlink

\* sigCatcher.  `quit' is looked at only after a call has failed: a signal that
\* does not interrupt mq_receive is forgotten.
Signal ==
  /\ spc \notin {"start", "unlink", "gone"} /\ signals < MaxSignals
  /\ signals' = signals + 1
  /\ quit' = TRUE
  /\ \/ spc' = spc
     \/ spc = "receive" /\ mq = <<>> /\ spc' = "unlink"
  /\ UNCHANGED <<seq_val, req, mq, linked, resp, client>>

-----------------------------------------------------------------------------
ClientGoto(c, a, b) == cpc[c] = a /\ cpc' = [cpc EXCEPT ![c] = b]

\* "Create client pmsg first to avoid race condition".
CreateOwn(c) ==
  /\ ClientGoto(c, "start", "made")
  /\ cmq' = [cmq EXCEPT ![c] = TRUE]
  /\ UNCHANGED <<server, mq, resp, printed, kills>>

\* errExit: the client's queue is removed at exit.
OpenServer(c) ==
  /\ ClientGoto(c, "made", IF linked THEN "opened" ELSE "failed")
  /\ cmq' = [cmq EXCEPT ![c] = @ /\ linked]
  /\ UNCHANGED <<server, mq, resp, printed, kills>>

\* Mutant: req.pid is never set.
SendWithoutPid(c) ==
  /\ Len(mq) < MaxMsg
  /\ ClientGoto(c, "opened", "waiting")
  /\ mq' = Append(mq, NoNum)
  /\ UNCHANGED <<server, cmq, resp, printed, kills>>

SendRequest(c) ==
  /\ Len(mq) < MaxMsg
  /\ ClientGoto(c, "opened", "waiting")
  /\ mq' = Append(mq, c)
  /\ UNCHANGED <<server, cmq, resp, printed, kills>>

ReceiveResponse(c) ==
  /\ resp[c] # NoNum
  /\ ClientGoto(c, "waiting", "done")
  /\ printed' = [printed EXCEPT ![c] = resp[c]]
  /\ resp' = [resp EXCEPT ![c] = NoNum]
  /\ cmq' = [cmq EXCEPT ![c] = FALSE]
  /\ UNCHANGED <<server, mq, kills>>

Kill(c) ==
  /\ kills < MaxKills
  /\ cpc[c] \in {"made", "opened", "waiting"}
  /\ kills' = kills + 1
  /\ cpc' = [cpc EXCEPT ![c] = "killed"]
  /\ UNCHANGED <<server, mq, cmq, resp, printed>>

Client(c) == CreateOwn(c) \/ OpenServer(c) \/ SendRequest(c)
             \/ ReceiveResponse(c)

-----------------------------------------------------------------------------
Next == \/ Server \/ Signal
        \/ \E c \in Clients : Client(c) \/ Kill(c)

Spec == Init /\ [][Next]_vars

\* The server and the clients all run.
FairSpec == Spec /\ WF_vars(Server) /\ \A c \in Clients : WF_vars(Client(c))

-----------------------------------------------------------------------------
Ints == -(IntMax + 1)..IntMax

\* The type of every variable; the queue never holds more than mq_maxmsg.
TypeOK ==
  /\ spc \in {"start", "receive", "open", "send", "update", "unlink", "gone"}
  /\ seq_val \in Ints /\ quit \in BOOLEAN /\ req \in Clients
  /\ mq \in Seq(Clients) /\ Len(mq) <= MaxMsg
  /\ linked \in BOOLEAN
  /\ cpc \in [Clients -> {"start", "made", "opened", "waiting", "done",
                          "failed", "killed"}]
  /\ cmq \in [Clients -> BOOLEAN]
  /\ resp \in [Clients -> Ints \cup {NoNum}]
  /\ printed \in [Clients -> Ints \cup {NoNum}]
  /\ signals \in 0..MaxSignals /\ kills \in 0..MaxKills

Given(c) == IF printed[c] # NoNum THEN printed[c] ELSE resp[c]

(***************************************************************************)
(* As a sequence number allocator the server grants a request when the     *)
(* response is in the client's queue, one step before seq_val moves on:    *)
(* Assigned is the first number that has not been granted.                 *)
(***************************************************************************)
Assigned == IF spc = "update" THEN Plus(seq_val, SeqLen[req]) ELSE seq_val

\* A client that waits for its number gets it, unless a signal stops the
\* server or kills the client: the queue it waits on is there when the server
\* opens it.
ClientsAreServed ==
  \A c \in Clients : cpc[c] = "waiting" /\ ~quit
                       ~> cpc[c] \in {"done", "killed"} \/ quit
=============================================================================
