------------------------------ MODULE EchoServer ------------------------------
(***************************************************************************)
(* 63_Alternate_IO_Models/echo_sv.c, which waits with epoll_wait for a     *)
(* datagram or a connection, and its clients echo_udp_cl.c and             *)
(* echo_tcp_cl.c.                                                          *)
(*                                                                         *)
(* A message is the name of the client that sent it.  A datagram may be    *)
(* lost, on its way to the server or back; the client, which has no        *)
(* timeout, then waits for ever.  The array of events is not initialised,  *)
(* and each epoll_wait writes as many of its elements as there are sockets *)
(* ready.  Left out: a message that TCP delivers in pieces; failing calls. *)
(***************************************************************************)
EXTENDS Integers, Sequences

CONSTANTS TcpClients, UdpClients

VARIABLES
  dgrams, backlog,  \* datagrams received; clients connected, not accepted
  data,             \* TCP clients whose message has arrived and is not read
  events, i,        \* the array, and the place in it
  pc,               \* "wait", "look", or the call: "dgram" (recvfrom), "sendto",
                    \* "stream" (accept), "read", "write"
  peer, buf,        \* claddr, or the client behind cl_sock; what was received last
  cpc, answer       \* each client; what it was sent

vars == <<dgrams, backlog, data, events, i, pc, peer, buf, cpc, answer>>
server == <<events, i, pc, peer, buf>>

Clients == TcpClients \cup UdpClients
Sources == {"dgram", "stream"}
MAX_EVENTS == 2

Init ==
  /\ dgrams = <<>> /\ backlog = <<>> /\ data = {}
  /\ events \in [1..MAX_EVENTS -> Sources \cup {"none"}] /\ i = 0 /\ pc = "wait"
  /\ peer = "none" /\ buf = "none"
  /\ cpc = [c \in Clients |-> "start"] /\ answer = [c \in Clients |-> "none"]

Go(c, l) == cpc' = [cpc EXCEPT ![c] = l]

-----------------------------------------------------------------------------
SendTo(c) ==
  /\ c \in UdpClients /\ cpc[c] = "start"
  /\ \/ Go(c, "wait") /\ dgrams' = Append(dgrams, c)
     \/ Go(c, "lost") /\ UNCHANGED dgrams
  /\ UNCHANGED <<backlog, data, server, answer>>

Connect(c) ==
  /\ c \in TcpClients /\ cpc[c] = "start"
  /\ Go(c, "silent") /\ backlog' = Append(backlog, c)
  /\ UNCHANGED <<dgrams, data, server, answer>>

Write(c) ==
  /\ cpc[c] = "silent" /\ Go(c, "wait") /\ data' = data \cup {c}
  /\ UNCHANGED <<dgrams, backlog, server, answer>>

Kill(c) ==
  /\ cpc[c] \in {"silent", "wait", "lost"} /\ Go(c, "killed")
  /\ UNCHANGED <<dgrams, backlog, data, server, answer>>

-----------------------------------------------------------------------------
Ready == {s \in Sources : IF s = "dgram" THEN dgrams # <<>> ELSE backlog # <<>>}

EpollWait ==
  /\ pc = "wait" /\ Ready # {}
  /\ \E s \in Ready :
       events' = IF Ready = {s} THEN [events EXCEPT ![1] = s]
                 ELSE <<s, CHOOSE t \in Ready : t # s>>
  /\ i' = 1 /\ pc' = "look"
  /\ UNCHANGED <<dgrams, backlog, data, peer, buf, cpc, answer>>

\* All elements are looked at, those of an earlier epoll_wait too.
Look ==
  /\ pc = "look"
  /\ IF i > MAX_EVENTS THEN pc' = "wait" /\ UNCHANGED i
     ELSE IF events[i] = "none" THEN i' = i + 1 /\ UNCHANGED pc
     ELSE pc' = events[i] /\ UNCHANGED i
  /\ UNCHANGED <<dgrams, backlog, data, events, peer, buf, cpc, answer>>

RecvFrom ==
  /\ pc = "dgram" /\ dgrams # <<>> /\ dgrams' = Tail(dgrams)
  /\ peer' = Head(dgrams) /\ buf' = Head(dgrams) /\ pc' = "sendto"
  /\ UNCHANGED <<backlog, data, events, i, cpc, answer>>

Accept ==
  /\ pc = "stream" /\ backlog # <<>>
  /\ peer' = Head(backlog) /\ backlog' = Tail(backlog) /\ pc' = "read"
  /\ UNCHANGED <<dgrams, data, events, i, buf, cpc, answer>>

\* Nothing is read from a client that left without a word; buf is what it was.
Read ==
  /\ pc = "read" /\ pc' = "write"
  /\ IF peer \in data THEN buf' = peer ELSE cpc[peer] = "killed" /\ UNCHANGED buf
  /\ data' = data \ {peer}
  /\ UNCHANGED <<dgrams, backlog, events, i, peer, cpc, answer>>

\* sendto, or write: what is sent to a client that is gone is dropped, and a datagram
\* may be lost.
Reply ==
  /\ pc \in {"sendto", "write"}
  /\ \/ cpc[peer] = "wait" /\ answer' = [answer EXCEPT ![peer] = buf] /\ Go(peer, "done")
     \/ cpc[peer] = "wait" /\ pc = "sendto" /\ Go(peer, "lost") /\ UNCHANGED answer
     \/ cpc[peer] # "wait" /\ UNCHANGED <<cpc, answer>>
  /\ i' = i + 1 /\ pc' = "look"
  /\ UNCHANGED <<dgrams, backlog, data, events, peer, buf>>

Server == EpollWait \/ Look \/ RecvFrom \/ Accept \/ Read \/ Reply
Next == Server \/ \E c \in Clients : SendTo(c) \/ Connect(c) \/ Write(c) \/ Kill(c)

-----------------------------------------------------------------------------
In(q) == {q[k] : k \in 1..Len(q)}
Served(c) == pc \in {"read", "sendto", "write"} /\ peer = c

(***************************************************************************)
(* buf is one for all clients and keeps what was received last: still,     *)
(* whoever kills its client and whenever, nobody is sent the message of    *)
(* another; and a request is not dropped: who has connected or sent a      *)
(* datagram that is not lost, and waits, is in a queue or is being served. *)
(***************************************************************************)
EchoIsOwn ==
  /\ \A c \in Clients : answer[c] = IF cpc[c] = "done" THEN c ELSE "none"
  /\ \A c \in Clients : cpc[c] \in {"silent", "wait"} =>
       c \in In(dgrams) \cup In(backlog) \/ Served(c)

(***************************************************************************)
(* A stale event makes the server block in the call for a socket that is   *)
(* not ready, and a client that does not write makes it block in read.     *)
(* Nothing else keeps a client waiting, except that a datagram is lost:    *)
(* nobody else waits, or that is why.                                      *)
(***************************************************************************)
EchoSettled == /\ \A c \in TcpClients : cpc[c] # "lost"
               /\ \/ \A c \in Clients : cpc[c] # "wait"
                  \/ pc = "dgram" /\ dgrams = <<>>
                  \/ pc = "stream" /\ backlog = <<>>
                  \/ pc = "read" /\ cpc[peer] = "silent"

-----------------------------------------------------------------------------
(***************************************************************************)
(* The invariant from which EchoIsOwn follows (proved in MCProcesses): who *)
(* is in a queue has asked and was not answered, and is there once.        *)
(***************************************************************************)
EchoTyped ==
  /\ dgrams \in Seq(Clients) /\ backlog \in Seq(Clients)
  /\ cpc \in [Clients -> {"start", "silent", "wait", "lost", "done", "killed"}]
  /\ events \in [1..MAX_EVENTS -> Sources \cup {"none"}]
  /\ i \in Nat /\ (pc = "look" => i > 0)

Once(q) == \A j, k \in 1..Len(q) : j # k => q[j] # q[k]
Queued == In(dgrams) \cup In(backlog)

\* Nothing from this client has come in.
Unheard(c) == c \notin data \cup In(dgrams) /\ ~(pc \in {"sendto", "write"} /\ peer = c)

EchoInv ==
  /\ EchoTyped
  /\ answer = [c \in Clients |-> IF cpc[c] = "done" THEN c ELSE "none"]
  /\ Once(dgrams) /\ Once(backlog) /\ In(dgrams) \cap In(backlog) = {}
  /\ \A c \in Queued : cpc[c] \notin {"start", "done"}
  /\ \A c \in Clients : cpc[c] \in {"silent", "wait"} => c \in Queued \/ Served(c)
  /\ pc \in {"read", "sendto", "write"} =>
       peer \in Clients \ Queued /\ cpc[peer] \notin {"start", "done"}
  /\ pc \in {"sendto", "write"} => buf = peer \/ cpc[peer] = "killed"
  /\ \A c \in Clients : cpc[c] \in {"start", "silent"} => Unheard(c)
=============================================================================
