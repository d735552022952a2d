------------------------------- MODULE PmsgChat -------------------------------
(***************************************************************************)
(* 52_Posix_Message_Queues/pmsg_chat.c: two users, each with a message     *)
(* queue the other one writes to.  A user's program waits for input in     *)
(* fgets; the arrival of a message is notified by SIGUSR1, which           *)
(* interrupts fgets, or finds the program elsewhere and only sets a flag.  *)
(*                                                                         *)
(* mq_notify registers for ONE notification, given when a message arrives  *)
(* in an empty queue.                                                      *)
(***************************************************************************)
EXTENDS Integers, Sequences

CONSTANTS
  Users,
  Peer,        \* Peer[u]: the user u chats with
  MaxMsg,      \* mq_maxmsg
  MaxLines,    \* bound: lines each user types
  MaxSignals   \* bound: SIGINTs or SIGTERMs each user sends

ASSUME PmsgChatAssumption ==
  /\ Peer \in [Users -> Users]
  /\ \A u \in Users : Peer[Peer[u]] = u /\ Peer[u] # u
  /\ MaxMsg \in Nat \ {0} /\ MaxLines \in Nat /\ MaxSignals \in Nat

VARIABLES
  pc,           \* pc[u]: where the program of u is
  linked,       \* linked[u]: the queue of u exists
  queue,        \* queue[u]: the messages to u, numbered as their sender typed
  registered,   \* registered[u]: u is to be notified
  msg_arrived, quit,
  typed,        \* typed[u]: the number of lines u has typed
  signals

vars == <<pc, linked, queue, registered, msg_arrived, quit, typed, signals>>
local == <<linked, quit, typed, signals>>

Init ==
  /\ pc = [u \in Users |-> "start"]
  /\ linked = [u \in Users |-> FALSE]
  /\ queue = [u \in Users |-> <<>>]
  /\ registered = [u \in Users |-> FALSE]
  /\ msg_arrived = [u \in Users |-> FALSE]
  /\ quit = [u \in Users |-> FALSE]
  /\ typed = [u \in Users |-> 0]
  /\ signals = [u \in Users |-> 0]

Goto(u, a, b) == pc[u] = a /\ pc' = [pc EXCEPT ![u] = b]
Gone(u) == pc[u] \in {"quit", "fatal"}

-----------------------------------------------------------------------------
Create(u) ==
  /\ Goto(u, "start", "connect")
  /\ linked' = [linked EXCEPT ![u] = TRUE]
  /\ UNCHANGED <<queue, registered, msg_arrived, quit, typed, signals>>

\* Tried every second until the peer has made its queue.
Connect(u) ==
  /\ linked[Peer[u]]
  /\ Goto(u, "connect", "register")
  /\ UNCHANGED <<queue, registered, msg_arrived, local>>

Register(u) ==
  /\ Goto(u, "register", "input")
  /\ registered' = [registered EXCEPT ![u] = TRUE]
  /\ UNCHANGED <<queue, msg_arrived, local>>

\* fgets returns a line.
Type(u) ==
  /\ typed[u] < MaxLines
  /\ Goto(u, "input", "send")
  /\ typed' = [typed EXCEPT ![u] = @ + 1]
  /\ UNCHANGED <<linked, queue, registered, msg_arrived, quit, signals>>

\* fgets returns NULL because of an end of file.
EndOfFile(u) ==
  /\ Goto(u, "input", "noInput")
  /\ UNCHANGED <<queue, registered, msg_arrived, local>>

\* O_NONBLOCK: the line is lost if the peer's queue is full.  SIGUSR1 either
\* finds the peer in fgets and interrupts it, or just before; the queue of a
\* peer that has ended still takes messages.
Send(u) ==
  LET p == Peer[u]
      notifies == queue[p] = <<>> /\ registered[p]
  IN
  /\ pc[u] = "send"
  /\ queue' = IF Len(queue[p]) < MaxMsg
              THEN [queue EXCEPT ![p] = Append(@, typed[u])] ELSE queue
  /\ registered' = [registered EXCEPT ![p] = @ /\ ~notifies]
  /\ msg_arrived' = [msg_arrived EXCEPT ![p] = @ \/ notifies]
  /\ \/ pc' = [pc EXCEPT ![u] = "input"]
     \/ /\ notifies /\ pc[p] = "input"
        /\ pc' = [pc EXCEPT ![u] = "input", ![p] = "noInput"]
  /\ UNCHANGED local

\* exit: unlink_pmsg, and the kernel drops the registration.
Exit(u, a, b) ==
  /\ Goto(u, a, b)
  /\ linked' = [linked EXCEPT ![u] = FALSE]
  /\ registered' = [registered EXCEPT ![u] = FALSE]
  /\ UNCHANGED <<queue, msg_arrived, quit, typed, signals>>

Quit(u)  == quit[u] /\ Exit(u, "noInput", "quit")
Fatal(u) == ~quit[u] /\ ~msg_arrived[u] /\ Exit(u, "noInput", "fatal")

MessageArrived(u) ==
  /\ ~quit[u] /\ msg_arrived[u]
  /\ Goto(u, "noInput", "process")
  /\ UNCHANGED <<queue, registered, msg_arrived, local>>

\* Mutant: read until there is nothing left, with a descriptor that blocks.
ProcessAll(u) ==
  /\ queue[u] # <<>>
  /\ Goto(u, "process", "process")
  /\ queue' = [queue EXCEPT ![u] = Tail(@)]
  /\ UNCHANGED <<registered, msg_arrived, local>>

\* process_msg: one message is received, however many there are.
Process(u) ==
  /\ queue[u] # <<>>
  /\ Goto(u, "process", "renotify")
  /\ queue' = [queue EXCEPT ![u] = Tail(@)]
  /\ UNCHANGED <<registered, msg_arrived, local>>

Renotify(u) ==
  /\ Goto(u, "renotify", "clear")
  /\ registered' = [registered EXCEPT ![u] = TRUE]
  /\ UNCHANGED <<queue, msg_arrived, local>>

\* Mutant: msg_arrived is not reset.
ClearNot(u) ==
  /\ Goto(u, "clear", "input")
  /\ UNCHANGED <<queue, registered, msg_arrived, local>>

\* A notification since Renotify is forgotten here.
Clear(u) ==
  /\ Goto(u, "clear", "input")
  /\ msg_arrived' = [msg_arrived EXCEPT ![u] = FALSE]
  /\ UNCHANGED <<queue, registered, local>>

\* sig_catcher; sigtimedwait takes the signal for itself while it waits.
Interrupt(u) ==
  /\ pc[u] # "start" /\ ~Gone(u) /\ signals[u] < MaxSignals
  /\ signals' = [signals EXCEPT ![u] = @ + 1]
  /\ \/ /\ quit' = [quit EXCEPT ![u] = TRUE]
        /\ \/ pc' = pc
           \/ Goto(u, "input", "noInput")
        /\ UNCHANGED <<linked, registered>>
     \/ /\ Goto(u, "connect", "fatal")
        /\ linked' = [linked EXCEPT ![u] = FALSE]
        /\ UNCHANGED <<registered, quit>>
  /\ UNCHANGED <<queue, msg_arrived, typed>>

\* What the program does by itself, without its user.
Run(u) ==
  \/ Create(u) \/ Connect(u) \/ Register(u) \/ Send(u)
  \/ Quit(u) \/ Fatal(u) \/ MessageArrived(u)
  \/ Process(u) \/ Renotify(u) \/ Clear(u)

Next == \E u \in Users : Run(u) \/ Type(u) \/ EndOfFile(u) \/ Interrupt(u)

Spec == Init /\ [][Next]_vars

-----------------------------------------------------------------------------
PCs == {"start", "connect", "register", "input", "send", "noInput", "process",
        "renotify", "clear", "quit", "fatal"}

\* The type of every variable; no queue holds more than mq_maxmsg messages.
TypeOK ==
  /\ pc \in [Users -> PCs]
  /\ linked \in [Users -> BOOLEAN]
  /\ queue \in [Users -> Seq(Nat)]
  /\ \A u \in Users : Len(queue[u]) <= MaxMsg
  /\ registered \in [Users -> BOOLEAN]
  /\ msg_arrived \in [Users -> BOOLEAN]
  /\ quit \in [Users -> BOOLEAN]
  /\ typed \in [Users -> 0..MaxLines]
  /\ signals \in [Users -> 0..MaxSignals]

\* process_msg never blocks in mq_receive, which no message could interrupt:
\* whenever the flag sends the program there, a message is waiting.
ReceiveNeverBlocks == \A u \in Users : pc[u] = "process" => queue[u] # <<>>

\* mq_notify never fails with EBUSY: it is called only when the notification
\* before has been given.
NotifyNeverBusy ==
  \A u \in Users : pc[u] \in {"register", "renotify"} => ~registered[u]

\* The invariant behind ReceiveNeverBlocks and NotifyNeverBusy: the flag is
\* up only after a notification that no registration has followed, and until
\* process_msg has run the message that was notified is still there.
FlagInv ==
  \A u \in Users :
    /\ registered[u] => pc[u] \notin {"start", "connect", "register"}
    /\ pc[u] \in {"process", "renotify", "clear"} => msg_arrived[u]
    /\ msg_arrived[u] =>
         /\ pc[u] \notin {"start", "connect", "register"}
         /\ pc[u] # "clear" => ~registered[u]
         /\ pc[u] \notin {"renotify", "clear"} => queue[u] # <<>>
=============================================================================
