------------------------------- MODULE PmsgFile -------------------------------
(***************************************************************************)
(* 52_Posix_Message_Queues: the file server pmsg_file_server.c, which      *)
(* forks a child for each request, and its client pmsg_file_client.c.      *)
(*                                                                         *)
(* A file is the number of messages its contents take.  A message queue    *)
(* lives as long as a process has it open, unlinked or not: a child whose  *)
(* client is gone still fills the client's queue, and then blocks.         *)
(*                                                                         *)
(* Left out: a failing fork, mq_receive or mq_open of the client's queue   *)
(* while the client is there; a signal sent to a client.                   *)
(***************************************************************************)
EXTENDS Integers, Sequences, FiniteSets

CONSTANTS
  Clients,
  File,        \* File[c]: the length of the file client c asks for, or NoFile
  NoFile,      \* a file the server cannot open
  MaxMsg,      \* mq_maxmsg, of the server's queue and of the clients' queues
  ToGroup,     \* SIGINT goes to the whole process group (^C), children too
  MaxSignals,  \* bound: SIGINTs sent to the server
  MaxKills,    \* bound: clients that are killed
  MaxErrors    \* bound: reads of a file that fail

VARIABLES
  spc,         \* where the server's parent is
  quit_req,
  sigchld,     \* a SIGCHLD is pending for the parent
  req,         \* the client whose request the parent received last
  mq,          \* the requests in PMSG_PATH
  linked,      \* PMSG_PATH exists
  kpc,         \* kpc[c]: where the child that serves client c is
  read,        \* read[c]: the messages' worth of file that child has read
  cpc,         \* cpc[c]: where client c is
  cmq,         \* cmq[c]: the name of the queue of client c exists
  box,         \* box[c]: the messages in the queue of client c
  received,    \* received[c]: the DATA messages client c has received
  signals, kills, errors

parent == <<spc, quit_req, sigchld, req>>
child == <<kpc, read>>
client == <<cpc, cmq, received>>
bounds == <<signals, kills, errors>>
vars == <<parent, mq, linked, child, client, box, bounds>>

Init ==
  /\ spc = "start" /\ quit_req = FALSE /\ sigchld = FALSE
  /\ req \in Clients
  /\ mq = <<>> /\ linked = FALSE
  /\ kpc = [c \in Clients |-> "none"]
  /\ read = [c \in Clients |-> 0]
  /\ cpc = [c \in Clients |-> "start"]
  /\ cmq = [c \in Clients |-> FALSE]
  /\ box = [c \in Clients |-> <<>>]
  /\ received = [c \in Clients |-> 0]
  /\ signals = 0 /\ kills = 0 /\ errors = 0

Room(c) == Len(box[c]) < MaxMsg
Put(c, m) == Room(c) /\ box' = [box EXCEPT ![c] = Append(@, m)]

-----------------------------------------------------------------------------
(* The parent.                                                             *)

ParentGoto(a, b) == spc = a /\ spc' = b

\* mq_open with O_EXCL, then the two handlers.
Start ==
  /\ ParentGoto("start", "receive")
  /\ linked' = TRUE
  /\ UNCHANGED <<quit_req, sigchld, req, mq, child, client, box, bounds>>

Receive ==
  /\ mq # <<>>
  /\ ParentGoto("receive", "fork")
  /\ req' = Head(mq) /\ mq' = Tail(mq)
  /\ UNCHANGED <<quit_req, sigchld, linked, child, client, box, bounds>>

Fork ==
  /\ ParentGoto("fork", "receive")
  /\ kpc' = [kpc EXCEPT ![req] = "open"]
  /\ UNCHANGED <<quit_req, sigchld, req, mq, linked, read, client, box, bounds>>

Zombies == {c \in Clients : kpc[c] = "zombie"}
Alive == {c \in Clients : kpc[c] \notin {"none", "zombie", "reaped"}}

Reap(S) == kpc' = [c \in Clients |-> IF c \in S THEN "reaped" ELSE kpc[c]]

\* Mutant: SIGCHLDs are not queued, and this handler reaps one child for each.
ReapOne ==
  /\ sigchld /\ spc # "gone"
  /\ sigchld' = FALSE
  /\ \E c \in Zombies \cup {req} : Reap({c} \cap Zombies)
  /\ UNCHANGED <<spc, quit_req, req, mq, linked, read, client, box, bounds>>

\* The SIGCHLD handler; SA_RESTART resumes what it interrupts.
GrimReaper ==
  /\ sigchld /\ spc # "gone"
  /\ sigchld' = FALSE
  /\ Reap(Zombies)
  /\ UNCHANGED <<spc, quit_req, req, mq, linked, read, client, box, bounds>>

\* waitpid in the last loop returns a child.
WaitReaps ==
  /\ spc = "wait"
  /\ \E c \in Zombies : Reap({c})
  /\ UNCHANGED <<parent, mq, linked, read, client, box, bounds>>

\* ECHILD: mq_unlink, exit.
WaitEnds ==
  /\ Zombies \cup Alive = {}
  /\ ParentGoto("wait", "gone")
  /\ linked' = FALSE
  /\ UNCHANGED <<quit_req, sigchld, req, mq, child, client, box, bounds>>

Parent == Start \/ Receive \/ Fork \/ GrimReaper \/ WaitReaps \/ WaitEnds

\* The children that a ^C may find blocked in mq_send.
Blocked == {c \in Clients : ToGroup /\ kpc[c] \in {"data", "end", "failure"}
                              /\ ~Room(c)}

\* sigInt interrupts a blocked mq_receive, and waitpid (EINTR ends the loop
\* there).  A child whose mq_send it interrupts sends no more data, but goes on
\* to RESP_MT_END; without its last message it just ends.
Interrupt ==
  /\ spc \notin {"start", "gone"} /\ signals < MaxSignals
  /\ signals' = signals + 1
  /\ quit_req' = TRUE
  /\ \/ UNCHANGED <<spc, linked>>
     \/ spc = "receive" /\ mq = <<>> /\ spc' = "wait" /\ UNCHANGED linked
     \/ spc = "wait" /\ spc' = "gone" /\ linked' = FALSE
  /\ \E S \in SUBSET Blocked :
       /\ kpc' = [c \in Clients |->
                    IF c \notin S THEN kpc[c]
                    ELSE IF kpc[c] = "data" THEN "end" ELSE "zombie"]
       /\ sigchld' = (sigchld \/ \E c \in S : kpc[c] # "data")
  /\ UNCHANGED <<req, mq, read, client, box, kills, errors>>

-----------------------------------------------------------------------------
(* serveRequest, in the child that serves client c.                        *)

ChildGoto(c, a, b) == kpc[c] = a /\ kpc' = [kpc EXCEPT ![c] = b]

ChildExits(c, a) == ChildGoto(c, a, "zombie") /\ sigchld' = TRUE

\* mq_open of the client's queue, then open of the file.
OpenBoth(c) ==
  /\ cmq[c]
  /\ ChildGoto(c, "open", IF File[c] = NoFile THEN "failure" ELSE "read")
  /\ UNCHANGED <<spc, quit_req, sigchld, req, mq, linked, read, client, box,
                 bounds>>

\* err_exit: the client has ended and its queue is gone.
ClientGone(c) ==
  /\ ~cmq[c]
  /\ ChildExits(c, "open")
  /\ UNCHANGED <<spc, quit_req, req, mq, linked, read, client, box, bounds>>

ReadData(c) ==
  /\ ChildGoto(c, "read", "data")
  /\ read[c] < File[c]
  /\ read' = [read EXCEPT ![c] = @ + 1]
  /\ UNCHANGED <<parent, mq, linked, client, box, bounds>>

ReadEnds(c) ==
  /\ ChildGoto(c, "read", "end")
  /\ read[c] = File[c]
  /\ UNCHANGED <<parent, mq, linked, read, client, box, bounds>>

\* Mutant: a failing read ends the loop as the end of the file does.
ReadErrorIgnored(c) ==
  /\ errors < MaxErrors
  /\ errors' = errors + 1
  /\ ChildGoto(c, "read", "end")
  /\ UNCHANGED <<parent, mq, linked, read, client, box, signals, kills>>

ReadError(c) ==
  /\ errors < MaxErrors
  /\ errors' = errors + 1
  /\ ChildGoto(c, "read", "failure")
  /\ UNCHANGED <<parent, mq, linked, read, client, box, signals, kills>>

SendData(c) ==
  /\ Put(c, "DATA")
  /\ ChildGoto(c, "data", "read")
  /\ UNCHANGED <<parent, mq, linked, read, client, bounds>>

SendEnd(c) ==
  /\ Put(c, "END")
  /\ ChildExits(c, "end")
  /\ UNCHANGED <<spc, quit_req, req, mq, linked, read, client, bounds>>

SendFailure(c) ==
  /\ Put(c, "FAILURE")
  /\ ChildExits(c, "failure")
  /\ UNCHANGED <<spc, quit_req, req, mq, linked, read, client, bounds>>

Child(c) == \/ OpenBoth(c) \/ ClientGone(c) \/ ReadData(c) \/ ReadEnds(c)
            \/ SendData(c) \/ SendEnd(c) \/ SendFailure(c)

-----------------------------------------------------------------------------
(* A client.                                                               *)

ClientGoto(c, a, b) == cpc[c] = a /\ cpc' = [cpc EXCEPT ![c] = b]

CreateOwn(c) ==
  /\ ClientGoto(c, "start", "made")
  /\ cmq' = [cmq EXCEPT ![c] = TRUE]
  /\ UNCHANGED <<parent, mq, linked, child, box, received, bounds>>

\* errExit if there is no server; atexit removes the queue.
OpenServer(c) ==
  /\ ClientGoto(c, "made", IF linked THEN "opened" ELSE "failed")
  /\ cmq' = [cmq EXCEPT ![c] = linked]
  /\ UNCHANGED <<parent, mq, linked, child, box, received, bounds>>

SendRequest(c) ==
  /\ Len(mq) < MaxMsg
  /\ ClientGoto(c, "opened", "receiving")
  /\ mq' = Append(mq, c)
  /\ UNCHANGED <<parent, linked, child, cmq, box, received, bounds>>

Take(c, m) == box[c] # <<>> /\ Head(box[c]) = m
              /\ box' = [box EXCEPT ![c] = Tail(@)]

ReceiveData(c) ==
  /\ cpc[c] = "receiving" /\ Take(c, "DATA")
  /\ received' = [received EXCEPT ![c] = @ + 1]
  /\ UNCHANGED <<parent, mq, linked, child, cpc, cmq, bounds>>

\* RESP_MT_END or RESP_MT_FAILURE: exit, and the queue is removed.
ReceiveLast(c) ==
  /\ \/ Take(c, "END") /\ ClientGoto(c, "receiving", "done")
     \/ Take(c, "FAILURE") /\ ClientGoto(c, "receiving", "failed")
  /\ cmq' = [cmq EXCEPT ![c] = FALSE]
  /\ UNCHANGED <<parent, mq, linked, child, received, bounds>>

\* SIGINT while it waits for a message: errExit, and the queue is unlinked.
Interrupted(c) ==
  /\ kills < MaxKills
  /\ box[c] = <<>>
  /\ ClientGoto(c, "receiving", "killed")
  /\ kills' = kills + 1
  /\ cmq' = [cmq EXCEPT ![c] = FALSE]
  /\ UNCHANGED <<parent, mq, linked, child, box, received, signals, errors>>

Client(c) == CreateOwn(c) \/ OpenServer(c) \/ SendRequest(c)
             \/ ReceiveData(c) \/ ReceiveLast(c)

-----------------------------------------------------------------------------
Next == \/ Parent \/ Interrupt
        \/ \E c \in Clients : \/ Child(c) \/ ReadError(c)
                              \/ Client(c) \/ Interrupted(c)

Spec == Init /\ [][Next]_vars

\* Every process runs; the SIGCHLD handler cannot be put off for ever.
FairSpec == /\ Spec /\ WF_vars(Parent)
            /\ \A c \in Clients : WF_vars(Child(c)) /\ WF_vars(Client(c))

-----------------------------------------------------------------------------
Messages == {"DATA", "END", "FAILURE"}

\* The type of every variable; no queue holds more than mq_maxmsg messages.
TypeOK ==
  /\ spc \in {"start", "receive", "fork", "wait", "gone"}
  /\ quit_req \in BOOLEAN /\ sigchld \in BOOLEAN /\ linked \in BOOLEAN
  /\ req \in Clients
  /\ mq \in Seq(Clients) /\ Len(mq) <= MaxMsg
  /\ kpc \in [Clients -> {"none", "open", "read", "data", "end", "failure",
                          "zombie", "reaped"}]
  /\ read \in [Clients -> Nat]
  /\ cpc \in [Clients -> {"start", "made", "opened", "receiving", "done",
                          "failed", "killed"}]
  /\ cmq \in [Clients -> BOOLEAN]
  /\ box \in [Clients -> Seq(Messages)]
  /\ \A c \in Clients : Len(box[c]) <= MaxMsg
  /\ received \in [Clients -> Nat]
  /\ signals \in 0..MaxSignals /\ kills \in 0..MaxKills
  /\ errors \in 0..MaxErrors

\* pmsg_file.h:28, RESP_MT_END is "File data complete": a client that was sent
\* an END has received every message of the file, in whatever way the file
\* failed to be read on the way.
EndMeansComplete ==
  \A c \in Clients : cpc[c] = "done" => received[c] = File[c]

\* Unless a second SIGINT ends its last loop early, the parent ends after all
\* of its children, and leaves neither a running child nor a zombie behind.
ParentEndsLast == spc = "gone" /\ signals <= 1 => Zombies \cup Alive = {}

\* A child that has ended does not stay a zombie of the server, even if several
\* end before the handler runs: pending SIGCHLDs are merged, so one call reaps
\* them all.
ZombiesAreReaped ==
  \A c \in Clients :
    kpc[c] = "zombie" ~> kpc[c] = "reaped" \/ spc = "gone"

\* A client that waits for its file is sent all of it, or a failure, as long
\* as no signal stops the server.
ClientsAreServed ==
  \A c \in Clients : cpc[c] = "receiving"
                       ~> cpc[c] \in {"done", "failed", "killed"} \/ quit_req

\* The handler "just consumes" the signal so that the server can wait for its
\* children and unlink its queue: having begun to wait it ends, unless a client
\* was killed and left a child blocked on its full queue.
WaitTerminates == spc = "wait" ~> spc = "gone" \/ kills > 0
=============================================================================
