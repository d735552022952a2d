----------------------------- MODULE MCMessages -------------------------------
(***************************************************************************)
(* Programs that talk by messages: of 52_Posix_Message_Queues the chat,    *)
(* the sequence number server and the file server; of                      *)
(* 59_Sockets_Internet_Domain the name-value server and the line-buffered  *)
(* sequence number server.  A behaviour runs one of them, chosen at the    *)
(* start; the variables of the others keep their initial values.           *)
(***************************************************************************)
EXTENDS PmsgChat, FiniteSetTheorems, DataLemmas, TLC, TLAPS

CONSTANTS
  a, b,          \* two clients, who are also the users of the chat
  N,             \* the clients of the sequence number servers are 1..N
  SqLen, RlLen,  \* what they ask for over queues, and over sockets
  IntMax,        \* INT_MAX
  NoNum,
  FileLen,       \* FileLen[c]: the length of the file client c asks for
  NoFile,
  CtrlC,         \* a SIGINT of the file server reaches its children too
  Keys, Values,  \* names and values
  MaxInterrupts, MaxKills, MaxErrors   \* bounds

Askers == 1..N

ASSUME MessagesAssumption ==
  /\ N \in Nat /\ IntMax \in Nat
  /\ SqLen \in [Askers -> 0..IntMax] /\ RlLen \in [Askers -> Int]
  /\ FileLen \in [Users -> Nat \cup {NoFile}]
  /\ NoNum \notin Int /\ NoNum \notin Users
  /\ MaxInterrupts \in Nat /\ MaxKills \in Nat /\ MaxErrors \in Nat

VARIABLES
  prog,
  sq_spc, sq_seq_val, sq_quit, sq_req, sq_mq, sq_linked, sq_cpc, sq_cmq,
  sq_resp, sq_printed, sq_signals, sq_kills,
  f_spc, f_quit_req, f_sigchld, f_req, f_mq, f_linked, f_kpc, f_read, f_cpc,
  f_cmq, f_box, f_received, f_signals, f_kills, f_errors,
  nv_tree, nv_auth_tree, nv_backlog, nv_spc, nv_cfd, nv_cpc, nv_first, nv_creator,
  rl_spc, rl_cfd, rl_seqNum, rl_backlog, rl_line, rl_response, rl_closed,
  rl_cpc, rl_printed

sqVars == <<sq_spc, sq_seq_val, sq_quit, sq_req, sq_mq, sq_linked, sq_cpc,
            sq_cmq, sq_resp, sq_printed, sq_signals, sq_kills>>
fVars == <<f_spc, f_quit_req, f_sigchld, f_req, f_mq, f_linked, f_kpc, f_read,
           f_cpc, f_cmq, f_box, f_received, f_signals, f_kills, f_errors>>
nvVars == <<nv_tree, nv_auth_tree, nv_backlog, nv_spc, nv_cfd, nv_cpc, nv_first,
            nv_creator>>
rlVars == <<rl_spc, rl_cfd, rl_seqNum, rl_backlog, rl_line, rl_response,
            rl_closed, rl_cpc, rl_printed>>
allVars == <<prog, vars, sqVars, fVars, nvVars, rlVars>>

\* The two users of the chat; lengths of sequences, one of them of 0 numbers; a file
\* longer than the queue, and one that cannot be opened.
Pair == (a :> b) @@ (b :> a)
SqLens == <<1, 2, 3>>
RlLens == <<2, 3, 0>>
FileLens == (a :> 3) @@ (b :> NoFile)

Seqnum ==
  INSTANCE PmsgSeqnum WITH
    Clients <- Askers, SeqLen <- SqLen,
    spc <- sq_spc, seq_val <- sq_seq_val, quit <- sq_quit, req <- sq_req,
    mq <- sq_mq, linked <- sq_linked, cpc <- sq_cpc, cmq <- sq_cmq,
    resp <- sq_resp, printed <- sq_printed, signals <- sq_signals,
    kills <- sq_kills

Files ==
  INSTANCE PmsgFile WITH
    Clients <- Users, File <- FileLen, ToGroup <- CtrlC,
    MaxSignals <- MaxInterrupts,
    spc <- f_spc, quit_req <- f_quit_req, sigchld <- f_sigchld, req <- f_req,
    mq <- f_mq, linked <- f_linked, kpc <- f_kpc, read <- f_read,
    cpc <- f_cpc, cmq <- f_cmq, box <- f_box, received <- f_received,
    signals <- f_signals, kills <- f_kills, errors <- f_errors

Nv ==
  INSTANCE NvServer WITH
    Clients <- Users, None <- NoNum,
    tree <- nv_tree, auth_tree <- nv_auth_tree, backlog <- nv_backlog,
    spc <- nv_spc, cfd <- nv_cfd, cpc <- nv_cpc, first <- nv_first,
    creator <- nv_creator

Rlbuf ==
  INSTANCE RlbufSeqnum WITH
    Clients <- Askers, SeqLen <- RlLen,
    spc <- rl_spc, cfd <- rl_cfd, seqNum <- rl_seqNum, backlog <- rl_backlog,
    line <- rl_line, response <- rl_response, closed <- rl_closed,
    cpc <- rl_cpc, printed <- rl_printed

\* The two servers as sequence number allocators.
SqAllocator ==
  INSTANCE SeqAllocator WITH
    Clients <- Askers, SeqLen <- SqLen,
    next <- Seqnum!Assigned, given <- [c \in Askers |-> Seqnum!Given(c)]

RlAllocator ==
  INSTANCE SeqAllocator WITH
    Clients <- Askers, SeqLen <- RlLen,
    next <- Rlbuf!Assigned, given <- rl_response

\* What a program received last, before it received anything.
MCInit == /\ prog \in {"chat", "seqnum", "file", "nv", "rlbuf"}
          /\ Init /\ Seqnum!Init /\ Files!Init /\ Nv!Init /\ Rlbuf!Init
          /\ sq_req = 1 /\ f_req = a /\ nv_cfd = a /\ rl_cfd = 1

\* Program p takes the step A, and the others none.
Only(p, A) ==
  /\ prog = p /\ A
  /\ UNCHANGED prog
  /\ IF p = "chat" THEN TRUE ELSE UNCHANGED vars
  /\ IF p = "seqnum" THEN TRUE ELSE UNCHANGED sqVars
  /\ IF p = "file" THEN TRUE ELSE UNCHANGED fVars
  /\ IF p = "nv" THEN TRUE ELSE UNCHANGED nvVars
  /\ IF p = "rlbuf" THEN TRUE ELSE UNCHANGED rlVars

MCNext == \/ Only("chat", Next)     \/ Only("seqnum", Seqnum!Next)
          \/ Only("file", Files!Next) \/ Only("nv", Nv!Next)
          \/ Only("rlbuf", Rlbuf!Next)

\* The fairness of each FairSpec: a server runs while it is up, as do the
\* children it forks, and the clients over queues.  The users of the chat may
\* stop typing, and the clients over sockets stop anywhere.
AnyServer == \/ Only("seqnum", Seqnum!Server) \/ Only("file", Files!Parent)
             \/ Only("nv", Nv!Server)         \/ Only("rlbuf", Rlbuf!Server)

MCSpec == /\ MCInit /\ [][MCNext]_allVars
          /\ WF_allVars(AnyServer)
          /\ \A c \in Askers : WF_allVars(Only("seqnum", Seqnum!Client(c)))
          /\ \A c \in Users : /\ WF_allVars(Only("file", Files!Child(c)))
                            /\ WF_allVars(Only("file", Files!Client(c)))

-----------------------------------------------------------------------------
\* The types of the programs; no queue holds more than mq_maxmsg messages, and
\* every pair in nv_sv.c has a password.
ProgramsTypeOK ==
  /\ TypeOK /\ Seqnum!TypeOK /\ Files!TypeOK
  /\ Nv!TypeOK /\ Nv!PairsHavePasswords /\ Rlbuf!TypeOK

\* pmsg_seqnum_server.c and rlbuf_seqnum_sv.c allocate sequences: in order, none
\* twice.
ServersAreAllocators == SqAllocator!SSpec /\ RlAllocator!SSpec

\* pmsg_file_server.c: RESP_MT_END is "File data complete".
EndMeansComplete == Files!EndMeansComplete

\* pmsg_file_server.c: a file ends when it is complete, and the parent after all of
\* its children.
EndsInOrder == Files!EndMeansComplete /\ Files!ParentEndsLast

\* pmsg_file_server.c: no child stays a zombie, and having begun to wait for its
\* children the parent ends.
ChildrenAreReaped == Files!ZombiesAreReaped /\ Files!WaitTerminates

\* nv_sv.c: who adds a name first decides over it from then on.
FirstAdderDecides == Nv!FirstAdderDecides

\* README.md of chapter 59: who created the name decides over it.
CreatorDecides == Nv!CreatorDecides

\* pmsg_seqnum_client.c and pmsg_file_client.c are answered, unless the server is
\* told to quit; so are the clients of nv_sv.c and rlbuf_seqnum_sv.c, unless one of
\* them stays silent or nv_sv.c crashes.
ClientsAreServed ==
  /\ prog = "seqnum" => Seqnum!ClientsAreServed
  /\ prog = "file" => Files!ClientsAreServed
  /\ Nv!RequestsAreServed /\ Rlbuf!ClientsAreServed
-----------------------------------------------------------------------------
(***************************************************************************)
(* Proofs.  pmsg_chat.c: for any users and bounds, process_msg never       *)
(* blocks and mq_notify never fails because of an earlier registration.    *)
(***************************************************************************)
\* What mq_send and mq_receive leave of a queue.
LEMMA QueueTypes ==
  ASSUME NEW q \in Seq(Nat), NEW m \in Nat
  PROVE  /\ Append(q, m) \in Seq(Nat) /\ Append(q, m) # <<>>
         /\ Len(Append(q, m)) = Len(q) + 1
         /\ q # <<>> => Tail(q) \in Seq(Nat) /\ Len(Tail(q)) = Len(q) - 1
         /\ Len(q) \in Nat
OBVIOUS

\* Every step preserves the types; a message is queued only if there is room.
LEMMA TypeStep == TypeOK /\ [Next]_vars => TypeOK'
<1> SUFFICES ASSUME TypeOK, [Next]_vars
             PROVE  TypeOK'
  OBVIOUS
<1> USE PmsgChatAssumption DEF TypeOK, PCs
<1>1. CASE UNCHANGED vars
  BY <1>1 DEF vars
<1>2. ASSUME NEW u \in Users, Create(u)
      PROVE  TypeOK'
  BY <1>2 DEF Create, Goto
<1>3. ASSUME NEW u \in Users, Connect(u) \/ Register(u)
      PROVE  TypeOK'
  <2>1. CASE Connect(u)
    BY <2>1 DEF Connect, Goto, local
  <2>2. CASE Register(u)
    BY <2>2 DEF Register, Goto, local
  <2> QED BY <1>3, <2>1, <2>2
<1>4. ASSUME NEW u \in Users, Type(u)
      PROVE  TypeOK'
  BY <1>4 DEF Type, Goto
<1>5. ASSUME NEW u \in Users, EndOfFile(u) \/ MessageArrived(u)
      PROVE  TypeOK'
  <2>1. CASE EndOfFile(u)
    BY <2>1 DEF EndOfFile, Goto, local
  <2>2. CASE MessageArrived(u)
    BY <2>2 DEF MessageArrived, Goto, local
  <2> QED BY <1>5, <2>1, <2>2
<1>6. ASSUME NEW u \in Users, Send(u)
      PROVE  TypeOK'
  <2> DEFINE p == Peer[u]
             m == typed[u]
  <2>1. p \in Users /\ m \in Nat /\ queue[p] \in Seq(Nat)
    OBVIOUS
  <2>2. /\ queue' \in [Users -> Seq(Nat)]
        /\ \A v \in Users : Len(queue[v])' <= MaxMsg
    <3>1. CASE Len(queue[p]) < MaxMsg
      <4>1. queue' = [queue EXCEPT ![p] = Append(@, m)]
        BY <1>6, <3>1 DEF Send
      <4>2. Append(queue[p], m) \in Seq(Nat) /\ Len(Append(queue[p], m)) <= MaxMsg
        BY <2>1, <3>1, QueueTypes
      <4> QED BY <2>1, <4>1, <4>2
    <3>2. CASE ~(Len(queue[p]) < MaxMsg)
      BY <1>6, <3>2 DEF Send
    <3> QED BY <3>1, <3>2
  <2>3. pc' \in [Users -> PCs]
    BY <1>6, <2>1 DEF Send
  <2>4. registered' \in [Users -> BOOLEAN] /\ msg_arrived' \in [Users -> BOOLEAN]
    BY <1>6, <2>1 DEF Send
  <2> QED BY <1>6, <2>2, <2>3, <2>4 DEF Send, local
<1>7. ASSUME NEW u \in Users, Quit(u) \/ Fatal(u)
      PROVE  TypeOK'
  <2>1. CASE Quit(u)
    BY <2>1 DEF Quit, Exit, Goto
  <2>2. CASE Fatal(u)
    BY <2>2 DEF Fatal, Exit, Goto
  <2> QED BY <1>7, <2>1, <2>2
<1>8. ASSUME NEW u \in Users, Process(u)
      PROVE  TypeOK'
  <2>1. Tail(queue[u]) \in Seq(Nat) /\ Len(Tail(queue[u])) <= MaxMsg
    BY <1>8, QueueTypes DEF Process
  <2>2. queue' = [queue EXCEPT ![u] = Tail(@)]
    BY <1>8 DEF Process
  <2> QED BY <1>8, <2>1, <2>2 DEF Process, Goto, local
<1>9. ASSUME NEW u \in Users, Renotify(u) \/ Clear(u)
      PROVE  TypeOK'
  <2>1. CASE Renotify(u)
    BY <2>1 DEF Renotify, Goto, local
  <2>2. CASE Clear(u)
    <3>1. pc' \in [Users -> PCs] /\ msg_arrived' \in [Users -> BOOLEAN]
      BY <2>2 DEF Clear, Goto
    <3> QED BY <2>2, <3>1 DEF Clear, local
  <2> QED BY <1>9, <2>1, <2>2
<1>10. ASSUME NEW u \in Users, Interrupt(u)
       PROVE  TypeOK'
  <2>1. signals' \in [Users -> 0..MaxSignals]
    BY <1>10 DEF Interrupt
  <2>2. pc' \in [Users -> PCs]
    BY <1>10 DEF Interrupt, Goto
  <2>3. quit' \in [Users -> BOOLEAN] /\ linked' \in [Users -> BOOLEAN]
    BY <1>10 DEF Interrupt
  <2> QED BY <1>10, <2>1, <2>2, <2>3 DEF Interrupt
<1> QED
  BY <1>1, <1>2, <1>3, <1>4, <1>5, <1>6, <1>7, <1>8, <1>9, <1>10
  DEF Next, Run

\* Every step preserves what the flag stands for.
LEMMA FlagStep == TypeOK /\ FlagInv /\ [Next]_vars => FlagInv'
<1> SUFFICES ASSUME TypeOK, FlagInv, [Next]_vars
             PROVE  FlagInv'
  OBVIOUS
<1> USE PmsgChatAssumption DEF TypeOK, FlagInv
<1>1. CASE UNCHANGED vars
  BY <1>1 DEF vars
<1>2. ASSUME NEW u \in Users, Create(u) \/ Connect(u) \/ Register(u)
      PROVE  FlagInv'
  <2>1. CASE Create(u)
    BY <2>1 DEF Create, Goto, local
  <2>2. CASE Connect(u)
    BY <2>2 DEF Connect, Goto, local
  <2>3. CASE Register(u)
    BY <2>3 DEF Register, Goto, local
  <2> QED BY <1>2, <2>1, <2>2, <2>3
<1>3. ASSUME NEW u \in Users, Type(u) \/ EndOfFile(u) \/ MessageArrived(u)
      PROVE  FlagInv'
  <2>1. CASE Type(u)
    BY <2>1 DEF Type, Goto, local
  <2>2. CASE EndOfFile(u)
    BY <2>2 DEF EndOfFile, Goto, local
  <2>3. CASE MessageArrived(u)
    BY <2>3 DEF MessageArrived, Goto, local
  <2> QED BY <1>3, <2>1, <2>2, <2>3
\* The message that raises the flag of the peer is in the peer's queue.
<1>4. ASSUME NEW u \in Users, Send(u)
      PROVE  FlagInv'
  <2> DEFINE p == Peer[u]
             notifies == queue[p] = <<>> /\ registered[p]
  <2>1. p \in Users /\ p # u /\ typed[u] \in Nat /\ queue[p] \in Seq(Nat)
    OBVIOUS
  <2>2. \A v \in Users : queue[v] # <<>> => queue'[v] # <<>>
    <3>1. Append(queue[p], typed[u]) # <<>>
      BY <2>1, QueueTypes
    <3>2. queue \in [Users -> Seq(Nat)]
      OBVIOUS
    <3>3. \/ queue' = queue
          \/ queue' = [queue EXCEPT ![p] = Append(queue[p], typed[u])]
      BY <1>4 DEF Send
    <3> QED BY <2>1, <3>1, <3>2, <3>3
  <2>3. notifies => queue'[p] # <<>>
    BY <1>4, <2>1, QueueTypes DEF Send
  <2>4. \A v \in Users :
          /\ registered'[v] = (registered[v] /\ ~(v = p /\ notifies))
          /\ msg_arrived'[v] = (msg_arrived[v] \/ (v = p /\ notifies))
    <3>1. /\ registered' = [registered EXCEPT ![p] = registered[p] /\ ~notifies]
          /\ msg_arrived' = [msg_arrived EXCEPT ![p] = msg_arrived[p] \/ notifies]
      BY <1>4 DEF Send
    <3>2. registered \in [Users -> BOOLEAN] /\ msg_arrived \in [Users -> BOOLEAN]
      OBVIOUS
    <3> HIDE DEF TypeOK, FlagInv, p, notifies
    <3> QED BY <2>1, <3>1, <3>2, Zenon
  <2>5. \A v \in Users : \/ pc'[v] = pc[v]
                         \/ pc[v] \in {"send", "input"}
                            /\ pc'[v] \in {"input", "noInput"}
    BY <1>4, <2>1 DEF Send
  <2>6. pc \in [Users -> PCs] /\ pc[u] = "send"
    BY <1>4 DEF Send
  <2>7. ASSUME NEW v \in Users, v # p \/ ~notifies
        PROVE  FlagInv!(v)'
    BY <2>2, <2>4, <2>5, <2>6, <2>7
  <2>8. notifies => /\ msg_arrived'[p] /\ ~registered'[p] /\ queue'[p] # <<>>
                    /\ pc[p] \notin {"start", "connect", "register"}
                    /\ pc'[p] \notin {"start", "connect", "register"}
    BY <2>1, <2>3, <2>4, <2>5
  <2> QED BY <2>1, <2>7, <2>8
<1>5. ASSUME NEW u \in Users, Quit(u) \/ Fatal(u)
      PROVE  FlagInv'
  <2>1. CASE Quit(u)
    BY <2>1 DEF Quit, Exit, Goto
  <2>2. CASE Fatal(u)
    BY <2>2 DEF Fatal, Exit, Goto
  <2> QED BY <1>5, <2>1, <2>2
<1>6. ASSUME NEW u \in Users, Process(u)
      PROVE  FlagInv'
  BY <1>6 DEF Process, Goto, local
<1>7. ASSUME NEW u \in Users, Renotify(u) \/ Clear(u)
      PROVE  FlagInv'
  <2>1. CASE Renotify(u)
    BY <2>1 DEF Renotify, Goto, local
  <2>2. CASE Clear(u)
    BY <2>2 DEF Clear, Goto, local
  <2> QED BY <1>7, <2>1, <2>2
<1>8. ASSUME NEW u \in Users, Interrupt(u)
      PROVE  FlagInv'
  BY <1>8 DEF Interrupt, Goto, Gone
<1> QED
  BY <1>1, <1>2, <1>3, <1>4, <1>5, <1>6, <1>7, <1>8 DEF Next, Run

\* The invariant holds in every reachable state.
THEOREM ChatInvariance == Spec => [](TypeOK /\ FlagInv)
<1>1. Init => TypeOK /\ FlagInv
  BY PmsgChatAssumption DEF Init, TypeOK, FlagInv, PCs
<1> QED
  BY <1>1, TypeStep, FlagStep, PTL DEF Spec

\* process_msg never blocks in mq_receive: the message that SIGUSR1 announced
\* is still in the queue.
THEOREM ReceiveIsSafe == Spec => []ReceiveNeverBlocks
<1>1. FlagInv => ReceiveNeverBlocks
  BY DEF FlagInv, ReceiveNeverBlocks
<1> QED
  BY <1>1, ChatInvariance, PTL

\* mq_notify never returns EBUSY: the program registers again only after the
\* notification it had registered for.
THEOREM NotifyIsSafe == Spec => []NotifyNeverBusy
<1>1. FlagInv => NotifyNeverBusy
  BY DEF FlagInv, NotifyNeverBusy
<1> QED
  BY <1>1, ChatInvariance, PTL
-----------------------------------------------------------------------------
(***************************************************************************)
(* Lists of who waits: what mq_send, mq_receive, connect and accept make of *)
(* them.                                                                   *)
(***************************************************************************)

\* A queue in which nobody waits twice, and what mq_receive and mq_send make of it.
\* Nobody is twice among the first n of q.
Distinct(q, n) == \A i, j \in 1..n : q[i] = q[j] => i = j
Has(q, n, c) == \E i \in 1..n : q[i] = c
IsRest(r, q, n) == \A i \in 1..(n - 1) : r[i] = q[i + 1]
IsMore(r, q, n, m) == r[n + 1] = m /\ \A i \in 1..n : r[i] = q[i]

\* What Append leaves of a list.
LEMMA ListTypes ==
  ASSUME NEW S, NEW q \in Seq(S), NEW m \in S
  PROVE  /\ Append(q, m) \in Seq(S) /\ Len(Append(q, m)) = Len(q) + 1
         /\ Len(q) \in Nat /\ \A i \in 1..Len(q) : q[i] \in S
         /\ \A i \in 1..Len(q) : Append(q, m)[i] = q[i]
         /\ Append(q, m)[Len(q) + 1] = m
OBVIOUS

\* Who joins a list it is not in is in it once.
LEMMA OnceMore ==
  ASSUME NEW n \in Nat, NEW q, NEW r, NEW m, IsMore(r, q, n, m), Distinct(q, n), ~Has(q, n, m)
  PROVE  /\ Distinct(r, n + 1)
         /\ \A c : Has(r, n + 1, c) <=> c = m \/ Has(q, n, c)
<1> USE DEF IsMore, Distinct, Has
<1>1. \A i \in 1..(n + 1) : i \in 1..n \/ i = n + 1
  OBVIOUS
<1>2. \A i \in 1..n : i \in 1..(n + 1)
  OBVIOUS
<1>3. n + 1 \in 1..(n + 1)
  OBVIOUS
<1> QED BY <1>1, <1>2, <1>3

\* Who was first in a list is not in the rest of it.
LEMMA OnceLess ==
  ASSUME NEW n \in Nat \ {0}, NEW q, NEW r, IsRest(r, q, n), Distinct(q, n)
  PROVE  /\ Distinct(r, n - 1)
         /\ \A c : Has(q, n, c) <=> c = q[1] \/ Has(r, n - 1, c)
         /\ ~Has(r, n - 1, q[1])
<1> USE DEF IsRest, Distinct, Has
<1>1. \A i \in 1..(n - 1) : i + 1 \in 1..n /\ i + 1 # 1
  OBVIOUS
<1>2. 1 \in 1..n /\ \A i \in 1..n : i = 1 \/ (i - 1 \in 1..(n - 1) /\ (i - 1) + 1 = i)
  OBVIOUS
<1>3. \A i, j \in 1..(n - 1) : r[i] = r[j] => i = j
  BY <1>1
<1>4. ~\E i \in 1..(n - 1) : r[i] = q[1]
  BY <1>1, <1>2
<1>5. \A i \in 1..n : i = 1 \/ \E j \in 1..(n - 1) : q[i] = r[j]
  BY <1>2
<1> QED BY <1>1, <1>2, <1>3, <1>4, <1>5

\* What Tail leaves of a list.
LEMMA ListRest ==
  ASSUME NEW S, NEW q \in Seq(S), q # <<>>
  PROVE  /\ Head(q) \in S /\ Head(q) = q[1] /\ Tail(q) \in Seq(S)
         /\ Len(q) \in Nat \ {0} /\ Len(Tail(q)) = Len(q) - 1
         /\ \A i \in 1..Len(q) - 1 : Tail(q)[i] = q[i + 1]
OBVIOUS

-----------------------------------------------------------------------------
(***************************************************************************)
(* pmsg_seqnum_server.c: a client is given numbers once, and seq_val is the *)
(* sum of what was granted.                                                *)
(***************************************************************************)

\* The server is at work for client c; the request of client c is in the queue.
SqServing(c) == sq_spc \in {"open", "send", "update"} /\ sq_req = c
SqQueued(c) == \E i \in 1..Len(sq_mq) : sq_mq[i] = c

\* A client asks once, and has no number before the server sends it one.
SqOnceInv ==
  /\ \A i, j \in 1..Len(sq_mq) : sq_mq[i] = sq_mq[j] => i = j
  /\ \A c \in Askers :
       /\ sq_cpc[c] \in {"start", "made", "opened"} => ~SqQueued(c) /\ ~SqServing(c)
       /\ SqQueued(c) => ~SqServing(c)
       /\ sq_cpc[c] \in {"start", "made", "opened"} \/ SqQueued(c) => sq_resp[c] = NoNum
       /\ sq_printed[c] # NoNum => sq_cpc[c] = "done" /\ ~SqQueued(c)
  /\ sq_spc \in {"open", "send"} => sq_resp[sq_req] = NoNum /\ sq_printed[sq_req] = NoNum

\* What the clients that were given numbers asked for.
SqGranted == [c \in Askers |-> IF Seqnum!Given(c) # NoNum THEN SqLen[c] ELSE 0]

\* The first number not granted is the sum of all that was granted.
SqAssignedInv == Seqnum!Assigned = SumUpTo(SqGranted, N)
SqInv == Seqnum!TypeOK /\ SqOnceInv

\* seq_val stays an int.
LEMMA SqPlus ==
  ASSUME NEW v \in Seqnum!Ints, NEW c \in Askers
  PROVE  Seqnum!Plus(v, SqLen[c]) \in Seqnum!Ints
<1>1. SqLen[c] \in 0..IntMax /\ IntMax \in Nat
  BY MessagesAssumption
<1> QED BY <1>1 DEF Seqnum!Plus, Seqnum!Ints

\* The server begins with an empty queue.
LEMMA SqBegins == Seqnum!Init => SqInv
<1> SUFFICES ASSUME Seqnum!Init PROVE SqInv
  OBVIOUS
<1>0. IntMax \in Nat /\ MaxMsg \in Nat /\ MaxSignals \in Nat /\ MaxKills \in Nat
  BY MessagesAssumption, PmsgChatAssumption
<1>1. Seqnum!TypeOK
  <2>1. sq_seq_val \in Seqnum!Ints /\ sq_mq \in Seq(Askers) /\ Len(sq_mq) <= MaxMsg
    BY <1>0 DEF Seqnum!Init, Seqnum!Ints
  <2>2. sq_signals \in 0..MaxSignals /\ sq_kills \in 0..MaxKills
    BY <1>0 DEF Seqnum!Init
  <2> QED BY <2>1, <2>2 DEF Seqnum!Init, Seqnum!TypeOK
<1> QED BY <1>1 DEF Seqnum!Init, SqInv, SqOnceInv, SqQueued, SqServing

\* Every step of the server and its clients preserves the types.
LEMMA SqTypeStep ==
  ASSUME Seqnum!TypeOK, [Seqnum!Next]_Seqnum!vars
  PROVE  Seqnum!TypeOK'
<1> USE DEF Seqnum!TypeOK
<1>0. MaxMsg \in Nat /\ MaxSignals \in Nat /\ MaxKills \in Nat
  BY MessagesAssumption, PmsgChatAssumption
<1>1. CASE UNCHANGED Seqnum!vars
  BY <1>1 DEF Seqnum!vars
<1>2. CASE Seqnum!CreateServer \/ Seqnum!OpenClient \/ Seqnum!Unlink
  BY <1>2 DEF Seqnum!CreateServer, Seqnum!OpenClient, Seqnum!Unlink, Seqnum!ServerGoto,
    Seqnum!client
<1>3. CASE Seqnum!Receive
  <2>1. sq_mq' \in Seq(Askers) /\ Len(sq_mq') <= MaxMsg /\ sq_req' \in Askers
    BY <1>0, <1>3, ListRest DEF Seqnum!Receive
  <2> QED BY <1>3, <2>1 DEF Seqnum!Receive, Seqnum!ServerGoto, Seqnum!client
<1>4. CASE Seqnum!SendResponse
  BY <1>4 DEF Seqnum!SendResponse, Seqnum!ServerGoto, Seqnum!client
<1>5. CASE Seqnum!Update
  BY <1>5, SqPlus DEF Seqnum!Update, Seqnum!ServerGoto, Seqnum!client
<1>6. CASE Seqnum!Signal
  <2>1. sq_signals' \in 0..MaxSignals
    BY <1>0, <1>6 DEF Seqnum!Signal
  <2> QED BY <1>6, <2>1 DEF Seqnum!Signal, Seqnum!client
<1>7. ASSUME NEW c \in Askers, Seqnum!CreateOwn(c)
      PROVE  Seqnum!TypeOK'
  BY <1>7 DEF Seqnum!CreateOwn, Seqnum!ClientGoto, Seqnum!server
<1>8. ASSUME NEW c \in Askers, Seqnum!OpenServer(c)
      PROVE  Seqnum!TypeOK'
  <2>1. sq_cmq' \in [Askers -> BOOLEAN]
    BY <1>8 DEF Seqnum!OpenServer
  <2> QED BY <1>8, <2>1 DEF Seqnum!OpenServer, Seqnum!ClientGoto, Seqnum!server
<1>9. ASSUME NEW c \in Askers, Seqnum!SendRequest(c)
      PROVE  Seqnum!TypeOK'
  <2>1. sq_mq' \in Seq(Askers) /\ Len(sq_mq') <= MaxMsg
    BY <1>0, <1>9, ListTypes DEF Seqnum!SendRequest
  <2> QED BY <1>9, <2>1 DEF Seqnum!SendRequest, Seqnum!ClientGoto, Seqnum!server
<1>10. ASSUME NEW c \in Askers, Seqnum!ReceiveResponse(c)
       PROVE  Seqnum!TypeOK'
  BY <1>10 DEF Seqnum!ReceiveResponse, Seqnum!ClientGoto, Seqnum!server
<1>11. ASSUME NEW c \in Askers, Seqnum!Kill(c)
       PROVE  Seqnum!TypeOK'
  <2>1. sq_kills' \in 0..MaxKills
    BY <1>0, <1>11 DEF Seqnum!Kill
  <2> QED BY <1>11, <2>1 DEF Seqnum!Kill, Seqnum!server
<1> QED BY <1>1, <1>2, <1>3, <1>4, <1>5, <1>6, <1>7, <1>8, <1>9, <1>10, <1>11
        DEF Seqnum!Next, Seqnum!Server, Seqnum!Client

\* Every step preserves that a client asks once.
LEMMA SqOnceStep ==
  ASSUME SqInv, [Seqnum!Next]_Seqnum!vars
  PROVE  SqOnceInv'
<1> USE DEF SqInv, Seqnum!TypeOK, SqOnceInv, SqQueued, SqServing
<1>1. CASE UNCHANGED Seqnum!vars
  BY <1>1 DEF Seqnum!vars
<1>2. CASE Seqnum!CreateServer \/ Seqnum!OpenClient \/ Seqnum!Unlink
  BY <1>2 DEF Seqnum!CreateServer, Seqnum!OpenClient, Seqnum!Unlink, Seqnum!ServerGoto,
    Seqnum!client
<1>3. CASE Seqnum!Receive
  <2>1. /\ Head(sq_mq) = sq_mq[1] /\ sq_mq[1] \in Askers /\ Len(sq_mq) \in Nat \ {0}
        /\ Len(Tail(sq_mq)) = Len(sq_mq) - 1
        /\ \A i \in 1..(Len(sq_mq) - 1) : Tail(sq_mq)[i] = sq_mq[i + 1]
    BY <1>3, ListRest DEF Seqnum!Receive
  <2>2. sq_mq' = Tail(sq_mq) /\ sq_req' = sq_mq[1] /\ sq_spc = "receive" /\ sq_spc' = "open"
        /\ UNCHANGED <<sq_resp, sq_cpc, sq_printed>>
    BY <1>3, <2>1 DEF Seqnum!Receive, Seqnum!ServerGoto, Seqnum!client
  <2>4. /\ Len(sq_mq') = Len(sq_mq) - 1 /\ Len(sq_mq) \in Nat \ {0}
        /\ \A i \in 1..(Len(sq_mq) - 1) : sq_mq'[i] = sq_mq[i + 1]
        /\ \A i, j \in 1..Len(sq_mq) : sq_mq[i] = sq_mq[j] => i = j
    BY <2>1, <2>2
  <2>5. IsRest(sq_mq', sq_mq, Len(sq_mq)) /\ Distinct(sq_mq, Len(sq_mq))
    BY <2>4 DEF IsRest, Distinct
  <2>6. /\ Distinct(sq_mq', Len(sq_mq) - 1)
        /\ \A k :
              Has(sq_mq, Len(sq_mq), k) <=> k = sq_mq[1] \/ Has(sq_mq', Len(sq_mq) - 1, k)
        /\ ~Has(sq_mq', Len(sq_mq) - 1, sq_mq[1])
    BY <2>4, <2>5, OnceLess
  <2>3. /\ \A i, j \in 1..Len(sq_mq') : sq_mq'[i] = sq_mq'[j] => i = j
        /\ \A k : SqQueued(k) <=> k = sq_mq[1] \/ SqQueued(k)'
        /\ \A k : SqQueued(k)' => k # sq_mq[1]
    BY <2>4, <2>6 DEF Has, Distinct
  <2> HIDE DEF SqQueued
  <2> QED BY <2>1, <2>2, <2>3
<1>4. CASE Seqnum!SendResponse
  BY <1>4 DEF Seqnum!SendResponse, Seqnum!ServerGoto, Seqnum!client
<1>5. CASE Seqnum!Update
  BY <1>5 DEF Seqnum!Update, Seqnum!ServerGoto, Seqnum!client
<1>6. CASE Seqnum!Signal
  BY <1>6 DEF Seqnum!Signal, Seqnum!client
<1>7. ASSUME NEW c \in Askers, Seqnum!CreateOwn(c) \/ Seqnum!OpenServer(c)
      PROVE  SqOnceInv'
  BY <1>7 DEF Seqnum!CreateOwn, Seqnum!OpenServer, Seqnum!ClientGoto, Seqnum!server
<1>9. ASSUME NEW c \in Askers, Seqnum!SendRequest(c)
      PROVE  SqOnceInv'
  <2>1. /\ Len(sq_mq) \in Nat /\ sq_mq' = Append(sq_mq, c)
        /\ Len(sq_mq') = Len(sq_mq) + 1
        /\ \A i \in 1..Len(sq_mq) : sq_mq'[i] = sq_mq[i]
        /\ sq_mq'[Len(sq_mq) + 1] = c
    BY <1>9, ListTypes DEF Seqnum!SendRequest
  <2>2. /\ UNCHANGED <<sq_spc, sq_req, sq_resp, sq_printed>>
        /\ sq_cpc' = [sq_cpc EXCEPT ![c] = "waiting"]
        /\ sq_cpc[c] = "opened"
    BY <1>9 DEF Seqnum!SendRequest, Seqnum!ClientGoto, Seqnum!server
  <2>3. /\ IsMore(sq_mq', sq_mq, Len(sq_mq), c)
        /\ Distinct(sq_mq, Len(sq_mq))
        /\ ~Has(sq_mq, Len(sq_mq), c)
    BY <2>1, <2>2 DEF IsMore, Distinct, Has
  <2>5. /\ Distinct(sq_mq', Len(sq_mq) + 1)
        /\ \A k : Has(sq_mq', Len(sq_mq) + 1, k) <=> k = c \/ Has(sq_mq, Len(sq_mq), k)
    BY <2>1, <2>3, OnceMore
  <2>4. /\ \A i, j \in 1..Len(sq_mq') : sq_mq'[i] = sq_mq'[j] => i = j
        /\ \A k : SqQueued(k)' <=> k = c \/ SqQueued(k)
    BY <2>1, <2>5 DEF Distinct, Has
  <2> HIDE DEF SqQueued
  <2> QED BY <2>2, <2>4
<1>10. ASSUME NEW c \in Askers, Seqnum!ReceiveResponse(c)
       PROVE  SqOnceInv'
  BY <1>10 DEF Seqnum!ReceiveResponse, Seqnum!ClientGoto, Seqnum!server
<1>11. ASSUME NEW c \in Askers, Seqnum!Kill(c)
       PROVE  SqOnceInv'
  BY <1>11 DEF Seqnum!Kill, Seqnum!server
<1> QED BY <1>1, <1>2, <1>3, <1>4, <1>5, <1>6, <1>7, <1>9, <1>10, <1>11
        DEF Seqnum!Next, Seqnum!Server, Seqnum!Client

\* Who is given a number, and when.
LEMMA SqGiven ==
  ASSUME SqInv, [Seqnum!Next]_Seqnum!vars
  PROVE  \/ /\ Seqnum!SendResponse /\ Seqnum!Given(sq_req) = NoNum /\ sq_seq_val \in Int
            /\ Seqnum!Assigned = sq_seq_val
            /\ Seqnum!Assigned' = Seqnum!Plus(sq_seq_val, SqLen[sq_req])
            /\ \A c \in Askers :
                  Seqnum!Given(c)' = IF c = sq_req THEN sq_seq_val ELSE Seqnum!Given(c)
         \/ /\ Seqnum!Assigned' = Seqnum!Assigned
            /\ \A c \in Askers : Seqnum!Given(c)' = Seqnum!Given(c)
<1> USE DEF SqInv, Seqnum!TypeOK, Seqnum!Given, Seqnum!Assigned
<1>1. CASE UNCHANGED Seqnum!vars
  BY <1>1 DEF Seqnum!vars
<1>2. CASE Seqnum!CreateServer \/ Seqnum!OpenClient \/ Seqnum!Unlink \/ Seqnum!Receive
  BY <1>2 DEF Seqnum!CreateServer, Seqnum!OpenClient, Seqnum!Unlink, Seqnum!Receive,
    Seqnum!ServerGoto, Seqnum!client
<1>4. CASE Seqnum!SendResponse
  <2>1. /\ sq_resp' = [sq_resp EXCEPT ![sq_req] = sq_seq_val] /\ sq_req \in Askers
        /\ UNCHANGED <<sq_printed, sq_seq_val, sq_req>> /\ sq_spc = "send"
        /\ sq_spc' = "update"
    BY <1>4 DEF Seqnum!SendResponse, Seqnum!ServerGoto, Seqnum!client
  <2>2. sq_resp[sq_req] = NoNum /\ sq_printed[sq_req] = NoNum
    BY <2>1 DEF SqOnceInv
  <2>3. sq_seq_val \in Int
    BY MessagesAssumption DEF Seqnum!Ints
  <2> QED BY <1>4, <2>1, <2>2, <2>3
<1>5. CASE Seqnum!Update
  BY <1>5 DEF Seqnum!Update, Seqnum!ServerGoto, Seqnum!client
<1>6. CASE Seqnum!Signal
  BY <1>6 DEF Seqnum!Signal, Seqnum!client
<1>7. ASSUME NEW c \in Askers, Seqnum!CreateOwn(c) \/ Seqnum!OpenServer(c) \/ Seqnum!SendRequest(c)
                               \/ Seqnum!Kill(c)
      PROVE  /\ Seqnum!Assigned' = Seqnum!Assigned
             /\ \A k \in Askers : Seqnum!Given(k)' = Seqnum!Given(k)
  BY <1>7 DEF Seqnum!CreateOwn, Seqnum!OpenServer, Seqnum!SendRequest, Seqnum!Kill,
    Seqnum!ClientGoto, Seqnum!server
<1>10. ASSUME NEW c \in Askers, Seqnum!ReceiveResponse(c)
       PROVE  /\ Seqnum!Assigned' = Seqnum!Assigned
              /\ \A k \in Askers : Seqnum!Given(k)' = Seqnum!Given(k)
  <2>1. /\ sq_printed' = [sq_printed EXCEPT ![c] = sq_resp[c]] /\ sq_resp[c] # NoNum
        /\ sq_resp' = [sq_resp EXCEPT ![c] = NoNum] /\ sq_cpc[c] = "waiting"
        /\ UNCHANGED <<sq_spc, sq_seq_val, sq_req>>
    BY <1>10 DEF Seqnum!ReceiveResponse, Seqnum!ClientGoto, Seqnum!server
  <2>2. sq_printed[c] = NoNum
    BY <2>1 DEF SqOnceInv
  <2> QED BY <2>1, <2>2
<1> QED BY <1>1, <1>2, <1>4, <1>5, <1>6, <1>7, <1>10
        DEF Seqnum!Next, Seqnum!Server, Seqnum!Client

\* What is granted adds up, as long as all of it is below INT_MAX.
LEMMA SqSumStep ==
  ASSUME SumUpTo(SqLen, N) <= IntMax, SqInv, SqAssignedInv, [Seqnum!Next]_Seqnum!vars
  PROVE  /\ SqAssignedInv'
         /\ Seqnum!SendResponse /\ Seqnum!Assigned' # Seqnum!Assigned
            => Seqnum!Assigned' = Seqnum!Assigned + SqLen[sq_req]
<1>0. N \in Nat /\ Askers = 1..N /\ NoNum \notin Int /\ SqLen \in [1..N -> 0..IntMax]
      /\ IntMax \in Nat
  BY MessagesAssumption DEF Askers
<1>1. CASE /\ Seqnum!Assigned' = Seqnum!Assigned
           /\ \A c \in Askers : Seqnum!Given(c)' = Seqnum!Given(c)
  <2>1. SqGranted' = SqGranted
    BY <1>1 DEF SqGranted
  <2>2. SumUpTo(SqGranted, N)' = SumUpTo(SqGranted, N)
    BY <2>1 DEF SumUpTo
  <2> QED BY <1>1, <2>2 DEF SqAssignedInv
<1>2. CASE /\ Seqnum!SendResponse /\ Seqnum!Given(sq_req) = NoNum /\ sq_seq_val \in Int
           /\ Seqnum!Assigned = sq_seq_val
           /\ Seqnum!Assigned' = Seqnum!Plus(sq_seq_val, SqLen[sq_req])
           /\ \A c \in Askers :
                 Seqnum!Given(c)' = IF c = sq_req THEN sq_seq_val ELSE Seqnum!Given(c)
  <2> DEFINE f == SqGranted
             g == SqGranted'
  <2>1. sq_req \in 1..N /\ SqLen[sq_req] \in Int
    BY <1>0 DEF SqInv, Seqnum!TypeOK
  <2>2. IsChange(f, g, N, sq_req, SqLen[sq_req])
    BY <1>0, <1>2, <2>1 DEF IsChange, SqGranted
  <2>3. \A c \in 1..N : g[c] \in Int /\ SqLen[c] \in Int /\ g[c] <= SqLen[c]
    BY <1>0 DEF SqGranted
  <2> HIDE DEF f, g
  <2>4. SumUpTo(g, N) = SumUpTo(f, N) + SqLen[sq_req]
    BY <1>0, <2>1, <2>2, SumChange
  <2>5. SumUpTo(g, N) <= SumUpTo(SqLen, N)
    BY <1>0, <2>3, SumMonotone
  <2>6. \A c \in 1..N : f[c] \in Int /\ SqLen[c] \in Int
    BY <1>0 DEF f, SqGranted
  <2>7. SumUpTo(f, N) \in Int /\ SumUpTo(SqLen, N) \in Int
    BY <1>0, <2>6, SumType
  <2>8. sq_seq_val = SumUpTo(f, N)
    BY <1>2 DEF SqAssignedInv, f
  <2>9. Seqnum!Plus(sq_seq_val, SqLen[sq_req]) = SumUpTo(g, N)
    BY <1>0, <2>1, <2>4, <2>5, <2>7, <2>8 DEF Seqnum!Plus
  <2>10. SumUpTo(SqGranted, N)' = SumUpTo(g, N)
    BY DEF g, SumUpTo
  <2> QED BY <1>2, <2>4, <2>8, <2>9, <2>10 DEF SqAssignedInv
<1> QED BY <1>1, <1>2, SqGiven

\* Every step is one of the allocator, or none.
LEMMA SqAllocates ==
  ASSUME SumUpTo(SqLen, N) <= IntMax, SqInv, SqAssignedInv, [Seqnum!Next]_Seqnum!vars
  PROVE  [SqAllocator!SNext]_<<Seqnum!Assigned, [c \in Askers |-> Seqnum!Given(c)]>>
<1>1. CASE /\ Seqnum!Assigned' = Seqnum!Assigned
           /\ \A c \in Askers : Seqnum!Given(c)' = Seqnum!Given(c)
  <2>1. [c \in Askers |-> Seqnum!Given(c)]' = [c \in Askers |-> Seqnum!Given(c)]
    BY <1>1
  <2> QED BY <1>1, <2>1
<1>2. CASE /\ Seqnum!SendResponse /\ Seqnum!Given(sq_req) = NoNum /\ sq_seq_val \in Int
           /\ Seqnum!Assigned = sq_seq_val
           /\ Seqnum!Assigned' = Seqnum!Plus(sq_seq_val, SqLen[sq_req])
           /\ \A c \in Askers :
                 Seqnum!Given(c)' = IF c = sq_req THEN sq_seq_val ELSE Seqnum!Given(c)
  <2>1. sq_req \in Askers
    BY DEF SqInv, Seqnum!TypeOK
  <2>2. Seqnum!Assigned' = Seqnum!Assigned + SqLen[sq_req]
    <3>1. SqLen[sq_req] \in Int
      BY <2>1, MessagesAssumption
    <3>2. CASE Seqnum!Assigned' = Seqnum!Assigned
      BY <1>2, <3>1, <3>2, <2>1, SqSumStep, MessagesAssumption DEF Seqnum!Plus
    <3> QED BY <1>2, <3>2, SqSumStep
  <2> DEFINE old == [c \in Askers |-> Seqnum!Given(c)]
  <2>3. old' = [old EXCEPT ![sq_req] = Seqnum!Assigned]
    BY <1>2, <2>1
  <2>4. old[sq_req] = NoNum
    BY <1>2, <2>1
  <2>5. SqAllocator!Grant(sq_req)
    BY <2>2, <2>3, <2>4 DEF SqAllocator!Grant
  <2> QED BY <2>1, <2>5 DEF SqAllocator!SNext
<1> QED BY <1>1, <1>2, SqGiven

-----------------------------------------------------------------------------
(***************************************************************************)
(* pmsg_file_server.c: what is read of a file is received, in the box or   *)
(* being sent.                                                             *)
(***************************************************************************)

\* The first n messages of q are data.
AllData(q, n) == \A i \in 1..n : q[i] = "DATA"

\* A client asks once, and has no child before its request is received.
FileOnceInv ==
  /\ Distinct(f_mq, Len(f_mq))
  /\ f_spc = "fork" => f_kpc[f_req] = "none" /\ ~Has(f_mq, Len(f_mq), f_req)
  /\ \A c \in Users :
       /\ Has(f_mq, Len(f_mq), c) => f_kpc[c] = "none"
       /\ f_cpc[c] \in {"start", "made", "opened"} =>
            f_kpc[c] = "none" /\ ~Has(f_mq, Len(f_mq), c) /\ ~(f_spc = "fork" /\ f_req = c)

\* Where the messages of the file of client c are: received, in the box, or about to be
\* sent; an END is put after all of them, as the last message.
FileSent(c) ==
  /\ f_kpc[c] \in {"none", "open"} => Len(f_box[c]) = 0 /\ f_read[c] = 0 /\ f_received[c] = 0
  /\ f_kpc[c] \in {"read", "data", "end", "failure"} => AllData(f_box[c], Len(f_box[c]))
  /\ f_kpc[c] \in {"read", "end"} => f_received[c] + Len(f_box[c]) = f_read[c]
  /\ f_kpc[c] = "data" => f_received[c] + Len(f_box[c]) + 1 = f_read[c]
  /\ f_kpc[c] = "end" => f_read[c] = FileLen[c]
  /\ f_kpc[c] \in {"zombie", "reaped"} /\ Len(f_box[c]) > 0 =>
       /\ AllData(f_box[c], Len(f_box[c]) - 1)
       /\ f_box[c][Len(f_box[c])] = "END" => f_received[c] + Len(f_box[c]) - 1 = FileLen[c]
  /\ f_cpc[c] = "done" => f_received[c] = FileLen[c]

FileSentInv == \A c \in Users : FileSent(c)

\* The parent waits after a signal, and has ended after its children, or after two.
FileParentInv ==
  /\ f_spc = "wait" => f_signals >= 1
  /\ f_spc = "gone" => f_signals >= 2 \/ \A c \in Users : f_kpc[c] \in {"none", "reaped"}

FileInv == Files!TypeOK /\ FileOnceInv /\ FileParentInv

\* No client has a child, and all boxes are empty.
LEMMA FileBegins == Files!Init => FileInv /\ FileSentInv
<1> SUFFICES ASSUME Files!Init PROVE FileInv /\ FileSentInv
  OBVIOUS
<1>0. MaxMsg \in Nat /\ MaxInterrupts \in Nat /\ MaxKills \in Nat /\ MaxErrors \in Nat
  BY MessagesAssumption, PmsgChatAssumption
<1>1. Files!TypeOK
  <2>1. f_mq \in Seq(Users) /\ Len(f_mq) <= MaxMsg
    BY <1>0 DEF Files!Init
  <2>2. /\ f_signals \in 0..MaxInterrupts
        /\ f_kills \in 0..MaxKills
        /\ f_errors \in 0..MaxErrors
    BY <1>0 DEF Files!Init
  <2>3. f_box \in [Users -> Seq(Files!Messages)] /\ \A c \in Users : Len(f_box[c]) <= MaxMsg
    BY <1>0 DEF Files!Init, Files!Messages
  <2> QED BY <2>1, <2>2, <2>3 DEF Files!Init, Files!TypeOK
<1>2. \A c : ~Has(f_mq, Len(f_mq), c)
  <2>1. f_mq = <<>>
    BY DEF Files!Init
  <2> QED BY <2>1 DEF Has
<1>3. Distinct(f_mq, Len(f_mq))
  BY DEF Files!Init, Distinct
<1> QED BY <1>1, <1>2, <1>3 DEF Files!Init, FileInv, FileOnceInv, FileParentInv,
  FileSentInv, FileSent

\* What is put into a queue of a client, and taken from it.
LEMMA FilePut ==
  ASSUME Files!TypeOK, NEW c \in Users, NEW m \in Files!Messages, Files!Put(c, m)
  PROVE  /\ f_box' = [f_box EXCEPT ![c] = Append(f_box[c], m)]
         /\ f_box' \in [Users -> Seq(Files!Messages)]
         /\ \A k \in Users : Len(f_box[k])' <= MaxMsg
         /\ Len(f_box'[c]) = Len(f_box[c]) + 1 /\ Len(f_box[c]) \in Nat
         /\ f_box'[c][Len(f_box[c]) + 1] = m
         /\ \A i \in 1..Len(f_box[c]) : f_box'[c][i] = f_box[c][i]
         /\ \A k \in Users : k # c => f_box'[k] = f_box[k]
<1>1. /\ f_box \in [Users -> Seq(Files!Messages)] /\ f_box[c] \in Seq(Files!Messages)
      /\ \A k \in Users : Len(f_box[k]) <= MaxMsg
      /\ MaxMsg \in Nat
  BY PmsgChatAssumption DEF Files!TypeOK
<1>2. f_box' = [f_box EXCEPT ![c] = Append(f_box[c], m)] /\ Len(f_box[c]) < MaxMsg
  BY DEF Files!Put, Files!Room
<1>3. /\ Append(f_box[c], m) \in Seq(Files!Messages)
      /\ Len(Append(f_box[c], m)) = Len(f_box[c]) + 1
      /\ Append(f_box[c], m)[Len(f_box[c]) + 1] = m /\ Len(f_box[c]) \in Nat
      /\ \A i \in 1..Len(f_box[c]) : Append(f_box[c], m)[i] = f_box[c][i]
  BY <1>1, ListTypes
<1>4. f_box'[c] = Append(f_box[c], m) /\ \A k \in Users : k # c => f_box'[k] = f_box[k]
  BY <1>1, <1>2
<1>5. f_box' \in [Users -> Seq(Files!Messages)]
  BY <1>1, <1>2, <1>3
<1>6. Len(f_box'[c]) <= MaxMsg
  BY <1>1, <1>2, <1>3, <1>4
<1> QED BY <1>1, <1>2, <1>3, <1>4, <1>5, <1>6

\* What mq_receive takes from a queue of a client.
LEMMA FileTake ==
  ASSUME Files!TypeOK, NEW c \in Users, NEW m, Files!Take(c, m)
  PROVE  /\ f_box' \in [Users -> Seq(Files!Messages)]
         /\ \A k \in Users : Len(f_box[k])' <= MaxMsg
         /\ Len(f_box[c]) \in Nat \ {0}
         /\ Len(f_box'[c]) = Len(f_box[c]) - 1
         /\ f_box[c][1] = m
         /\ \A i \in 1..(Len(f_box[c]) - 1) : f_box'[c][i] = f_box[c][i + 1]
         /\ \A k \in Users : k # c => f_box'[k] = f_box[k]
<1>1. /\ f_box \in [Users -> Seq(Files!Messages)] /\ f_box[c] \in Seq(Files!Messages)
      /\ \A k \in Users : Len(f_box[k]) <= MaxMsg
      /\ MaxMsg \in Nat
  BY PmsgChatAssumption DEF Files!TypeOK
<1>2. f_box' = [f_box EXCEPT ![c] = Tail(f_box[c])] /\ f_box[c] # <<>> /\ Head(f_box[c]) = m
  BY DEF Files!Take
<1>3. /\ Tail(f_box[c]) \in Seq(Files!Messages) /\ Len(Tail(f_box[c])) = Len(f_box[c]) - 1
      /\ Len(f_box[c]) \in Nat \ {0} /\ Head(f_box[c]) = f_box[c][1]
      /\ \A i \in 1..(Len(f_box[c]) - 1) : Tail(f_box[c])[i] = f_box[c][i + 1]
  BY <1>1, <1>2, ListRest
<1>4. f_box'[c] = Tail(f_box[c]) /\ \A k \in Users : k # c => f_box'[k] = f_box[k]
  BY <1>1, <1>2
<1>5. f_box' \in [Users -> Seq(Files!Messages)]
  BY <1>1, <1>2, <1>3
<1>6. Len(f_box'[c]) <= MaxMsg
  BY <1>1, <1>3, <1>4
<1> QED BY <1>1, <1>2, <1>3, <1>4, <1>5, <1>6

\* Every step preserves the types; no queue overflows.
LEMMA FileTypeStep ==
  ASSUME Files!TypeOK, [Files!Next]_Files!vars
  PROVE  Files!TypeOK'
<1>0. MaxMsg \in Nat /\ MaxInterrupts \in Nat /\ MaxKills \in Nat /\ MaxErrors \in Nat
  BY MessagesAssumption, PmsgChatAssumption
<1> USE DEF Files!TypeOK, Files!parent, Files!child, Files!client, Files!bounds
<1>1. CASE UNCHANGED Files!vars
  BY <1>1 DEF Files!vars
<1>2. CASE Files!Start \/ Files!Fork \/ Files!WaitEnds
  <2>1. CASE Files!Start
    BY <2>1 DEF Files!Start, Files!ParentGoto
  <2>2. CASE Files!Fork
    BY <2>2 DEF Files!Fork, Files!ParentGoto
  <2>3. CASE Files!WaitEnds
    BY <2>3 DEF Files!WaitEnds, Files!ParentGoto
  <2> QED BY <1>2, <2>1, <2>2, <2>3
<1>3. CASE Files!Receive
  <2>1. f_mq' \in Seq(Users) /\ Len(f_mq') <= MaxMsg /\ f_req' \in Users
    BY <1>0, <1>3, ListRest DEF Files!Receive
  <2> QED BY <1>3, <2>1 DEF Files!Receive, Files!ParentGoto
<1>4. CASE Files!GrimReaper \/ Files!WaitReaps
  <2>1. PICK S : Files!Reap(S)
    BY <1>4 DEF Files!GrimReaper, Files!WaitReaps
  <2>2. f_kpc' \in [Users -> {"none", "open", "read", "data", "end", "failure",
                             "zombie", "reaped"}]
    BY <2>1 DEF Files!Reap
  <2>3. CASE Files!GrimReaper
    BY <2>2, <2>3 DEF Files!GrimReaper
  <2>4. CASE Files!WaitReaps
    BY <2>2, <2>4 DEF Files!WaitReaps
  <2> QED BY <1>4, <2>3, <2>4
<1>5. CASE Files!Interrupt
  <2>1. f_signals' \in 0..MaxInterrupts
    BY <1>0, <1>5 DEF Files!Interrupt
  <2>2. f_kpc' \in [Users -> {"none", "open", "read", "data", "end", "failure",
                             "zombie", "reaped"}]
    BY <1>5 DEF Files!Interrupt
  <2>3. f_spc' \in {"start", "receive", "fork", "wait", "gone"} /\ f_linked' \in BOOLEAN
    BY <1>5 DEF Files!Interrupt
  <2>4. f_sigchld' \in BOOLEAN /\ f_quit_req' \in BOOLEAN
    BY <1>5 DEF Files!Interrupt
  <2> QED BY <1>5, <2>1, <2>2, <2>3, <2>4 DEF Files!Interrupt
<1>6. ASSUME NEW c \in Users, Files!OpenBoth(c) \/ Files!ClientGone(c) \/ Files!ReadEnds(c)
      PROVE  Files!TypeOK'
  <2>1. CASE Files!OpenBoth(c)
    BY <2>1 DEF Files!OpenBoth, Files!ChildGoto
  <2>2. CASE Files!ClientGone(c)
    BY <2>2 DEF Files!ClientGone, Files!ChildExits, Files!ChildGoto
  <2>3. CASE Files!ReadEnds(c)
    BY <2>3 DEF Files!ReadEnds, Files!ChildGoto
  <2> QED BY <1>6, <2>1, <2>2, <2>3
<1>7. ASSUME NEW c \in Users, Files!ReadData(c)
      PROVE  Files!TypeOK'
  <2>1. f_read' \in [Users -> Nat]
    BY <1>7 DEF Files!ReadData
  <2> QED BY <1>7, <2>1 DEF Files!ReadData, Files!ChildGoto
<1>8. ASSUME NEW c \in Users, Files!ReadError(c)
      PROVE  Files!TypeOK'
  <2>1. f_errors' \in 0..MaxErrors
    BY <1>0, <1>8 DEF Files!ReadError
  <2> QED BY <1>8, <2>1 DEF Files!ReadError, Files!ChildGoto
<1>9. ASSUME NEW c \in Users, Files!SendData(c) \/ Files!SendEnd(c) \/ Files!SendFailure(c)
      PROVE  Files!TypeOK'
  <2>1. PICK m \in Files!Messages : Files!Put(c, m)
    BY <1>9 DEF Files!SendData, Files!SendEnd, Files!SendFailure, Files!Messages
  <2>2. /\ f_box' \in [Users -> Seq(Files!Messages)]
        /\ \A k \in Users : Len(f_box[k])' <= MaxMsg
    BY <2>1, FilePut
  <2>3. f_kpc' \in [Users -> {"none", "open", "read", "data", "end", "failure",
                             "zombie", "reaped"}]
    BY <1>9 DEF Files!SendData, Files!SendEnd, Files!SendFailure, Files!ChildExits,
      Files!ChildGoto
  <2>4. /\ f_sigchld' \in BOOLEAN
        /\ UNCHANGED <<f_spc, f_quit_req, f_req, f_mq, f_linked, f_read>>
        /\ UNCHANGED <<Files!client, Files!bounds>>
    BY <1>9 DEF Files!SendData, Files!SendEnd, Files!SendFailure, Files!ChildExits,
      Files!ChildGoto
  <2> QED BY <2>2, <2>3, <2>4
<1>10. ASSUME NEW c \in Users, Files!CreateOwn(c)
       PROVE  Files!TypeOK'
  BY <1>10 DEF Files!CreateOwn, Files!ClientGoto
<1>11. ASSUME NEW c \in Users, Files!OpenServer(c)
       PROVE  Files!TypeOK'
  BY <1>11 DEF Files!OpenServer, Files!ClientGoto
<1>12. ASSUME NEW c \in Users, Files!SendRequest(c)
       PROVE  Files!TypeOK'
  <2>1. f_mq' \in Seq(Users) /\ Len(f_mq') <= MaxMsg
    BY <1>0, <1>12, ListTypes DEF Files!SendRequest
  <2> QED BY <1>12, <2>1 DEF Files!SendRequest, Files!ClientGoto
<1>13. ASSUME NEW c \in Users, Files!ReceiveData(c) \/ Files!ReceiveLast(c)
       PROVE  Files!TypeOK'
  <2>1. PICK m : Files!Take(c, m)
    BY <1>13 DEF Files!ReceiveData, Files!ReceiveLast
  <2>2. /\ f_box' \in [Users -> Seq(Files!Messages)]
        /\ \A k \in Users : Len(f_box[k])' <= MaxMsg
    BY <2>1, FileTake
  <2>3. f_cpc' \in [Users -> {"start", "made", "opened", "receiving", "done",
                             "failed", "killed"}]
    BY <1>13 DEF Files!ReceiveData, Files!ReceiveLast, Files!ClientGoto
  <2>4. f_received' \in [Users -> Nat]
    <3>1. f_received \in [Users -> Nat]
      OBVIOUS
    <3> HIDE DEF Files!TypeOK
    <3>2. CASE Files!ReceiveData(c)
      BY <3>1, <3>2 DEF Files!ReceiveData
    <3>3. CASE Files!ReceiveLast(c)
      BY <3>1, <3>3 DEF Files!ReceiveLast
    <3> QED BY <1>13, <3>2, <3>3
  <2>6. f_cmq' \in [Users -> BOOLEAN]
    BY <1>13 DEF Files!ReceiveData, Files!ReceiveLast
  <2>5. UNCHANGED <<Files!parent, f_mq, f_linked, Files!child, Files!bounds>>
    BY <1>13 DEF Files!ReceiveData, Files!ReceiveLast
  <2> QED BY <2>2, <2>3, <2>4, <2>5, <2>6
<1>14. ASSUME NEW c \in Users, Files!Interrupted(c)
       PROVE  Files!TypeOK'
  <2>1. f_kills' \in 0..MaxKills
    BY <1>0, <1>14 DEF Files!Interrupted
  <2> QED BY <1>14, <2>1 DEF Files!Interrupted, Files!ClientGoto
<1> QED BY <1>1, <1>2, <1>3, <1>4, <1>5, <1>6, <1>7, <1>8, <1>9, <1>10, <1>11, <1>12,
           <1>13, <1>14 DEF Files!Next, Files!Parent, Files!Child, Files!Client

\* The parent ends after its children.
LEMMA FileParentStep ==
  ASSUME Files!TypeOK, FileParentInv, [Files!Next]_Files!vars
  PROVE  FileParentInv'
<1> USE DEF Files!TypeOK, FileParentInv, Files!parent, Files!child, Files!client,
  Files!bounds
<1>1. CASE UNCHANGED Files!vars
  BY <1>1 DEF Files!vars
<1>2. CASE Files!Start \/ Files!Fork \/ Files!Receive
  BY <1>2 DEF Files!Start, Files!Fork, Files!Receive, Files!ParentGoto
<1>3. CASE Files!WaitEnds
  <2>1. \A c \in Users : f_kpc[c] \in {"none", "reaped"} /\ f_kpc'[c] = f_kpc[c]
    BY <1>3 DEF Files!WaitEnds, Files!Zombies, Files!Alive
  <2> QED BY <1>3, <2>1 DEF Files!WaitEnds, Files!ParentGoto
<1>4. CASE Files!GrimReaper \/ Files!WaitReaps
  BY <1>4 DEF Files!GrimReaper, Files!WaitReaps
<1>5. CASE Files!Interrupt
  BY <1>5 DEF Files!Interrupt
<1>6. ASSUME NEW c \in Users, Files!Child(c) \/ Files!ReadError(c)
      PROVE  FileParentInv'
  <2>1. f_kpc[c] \notin {"none", "reaped"} /\ UNCHANGED <<f_spc, f_signals>>
    BY <1>6 DEF Files!Child, Files!OpenBoth, Files!ClientGone, Files!ReadData,
      Files!ReadEnds, Files!SendData, Files!SendEnd,
                Files!SendFailure, Files!ReadError, Files!ChildExits, Files!ChildGoto
  <2> QED BY <2>1
<1>7. ASSUME NEW c \in Users, Files!Client(c) \/ Files!Interrupted(c)
      PROVE  FileParentInv'
  <2>1. UNCHANGED <<f_spc, f_signals, f_kpc>>
    BY <1>7 DEF Files!Client, Files!CreateOwn, Files!OpenServer, Files!SendRequest,
      Files!ReceiveData, Files!ReceiveLast,
                Files!Interrupted
  <2> QED BY <2>1
<1> QED BY <1>1, <1>2, <1>3, <1>4, <1>5, <1>6, <1>7 DEF Files!Next, Files!Parent

\* Every step preserves that a client has one child at most.
LEMMA FileOnceStep ==
  ASSUME Files!TypeOK, FileOnceInv, [Files!Next]_Files!vars
  PROVE  FileOnceInv'
<1> USE DEF Files!TypeOK, FileOnceInv, Files!parent, Files!child, Files!client, Files!bounds
<1>1. CASE UNCHANGED Files!vars
  BY <1>1 DEF Files!vars, Distinct, Has
<1>2. CASE Files!Start \/ Files!WaitEnds
  BY <1>2 DEF Files!Start, Files!WaitEnds, Files!ParentGoto, Distinct, Has
<1>3. CASE Files!Receive
  <2>1. /\ Head(f_mq) = f_mq[1] /\ f_mq[1] \in Users /\ Len(f_mq) \in Nat \ {0}
        /\ f_mq' = Tail(f_mq)
        /\ f_req' = f_mq[1]
        /\ f_spc' = "fork"
        /\ UNCHANGED <<f_kpc, f_cpc>>
        /\ Len(Tail(f_mq)) = Len(f_mq) - 1
        /\ \A i \in 1..(Len(f_mq) - 1) : Tail(f_mq)[i] = f_mq[i + 1]
    BY <1>3, ListRest DEF Files!Receive, Files!ParentGoto
  <2>2. IsRest(f_mq', f_mq, Len(f_mq))
    BY <2>1 DEF IsRest
  <2>3. /\ Distinct(f_mq', Len(f_mq) - 1) /\ ~Has(f_mq', Len(f_mq) - 1, f_mq[1])
        /\ \A c : Has(f_mq, Len(f_mq), c) <=> c = f_mq[1] \/ Has(f_mq', Len(f_mq) - 1, c)
    BY <2>1, <2>2, OnceLess
  <2>4. Distinct(f_mq, Len(f_mq))' = Distinct(f_mq', Len(f_mq) - 1)
    BY <2>1 DEF Distinct
  <2>5. \A c : Has(f_mq, Len(f_mq), c)' = Has(f_mq', Len(f_mq) - 1, c)
    BY <2>1 DEF Has
  <2>6. ~Has(f_mq, Len(f_mq), f_req)'
    BY <2>1, <2>3 DEF Has
  <2> QED BY <2>1, <2>3, <2>4, <2>5, <2>6
<1>4. CASE Files!Fork
  <2>1. /\ f_spc = "fork" /\ f_spc' = "receive" /\ f_kpc' = [f_kpc EXCEPT ![f_req] = "open"]
        /\ UNCHANGED <<f_mq, f_cpc, f_req>>
    BY <1>4 DEF Files!Fork, Files!ParentGoto
  <2>2. \A c : Has(f_mq, Len(f_mq), c)' = Has(f_mq, Len(f_mq), c)
    BY <2>1 DEF Has
  <2>3. Distinct(f_mq, Len(f_mq))' = Distinct(f_mq, Len(f_mq))
    BY <2>1 DEF Distinct
  <2> QED BY <2>1, <2>2, <2>3
\* Children that were forked stay so.
<1>5. ASSUME UNCHANGED <<f_mq, f_cpc, f_req>>, f_spc' = "fork" => f_spc = "fork",
             \A c \in Users : f_kpc[c] = "none" => f_kpc'[c] = "none"
      PROVE  FileOnceInv'
  <2>2. \A c : Has(f_mq, Len(f_mq), c)' = Has(f_mq, Len(f_mq), c)
    BY <1>5 DEF Has
  <2>3. Distinct(f_mq, Len(f_mq))' = Distinct(f_mq, Len(f_mq))
    BY <1>5 DEF Distinct
  <2>4. Has(f_mq, Len(f_mq), f_req)' = Has(f_mq, Len(f_mq), f_req)
    BY <1>5 DEF Has
  <2> QED BY <1>5, <2>2, <2>3, <2>4
<1>6. CASE Files!GrimReaper \/ Files!WaitReaps
  <2>1. PICK S \in SUBSET Files!Zombies : Files!Reap(S)
    BY <1>6 DEF Files!GrimReaper, Files!WaitReaps, Files!Zombies
  <2>2. \A c \in Users : f_kpc[c] = "none" => f_kpc'[c] = "none"
    BY <2>1 DEF Files!Reap, Files!Zombies
  <2>3. UNCHANGED <<f_mq, f_cpc, f_req, f_spc>>
    BY <1>6 DEF Files!GrimReaper, Files!WaitReaps
  <2> QED BY <1>5, <2>2, <2>3
<1>7. CASE Files!Interrupt
  <2>1. \A c \in Users : f_kpc[c] = "none" => f_kpc'[c] = "none"
    BY <1>7 DEF Files!Interrupt, Files!Blocked
  <2>2. UNCHANGED <<f_mq, f_cpc, f_req>> /\ (f_spc' = "fork" => f_spc = "fork")
    BY <1>7 DEF Files!Interrupt
  <2> QED BY <1>5, <2>1, <2>2
<1>8. ASSUME NEW c \in Users, Files!Child(c) \/ Files!ReadError(c)
      PROVE  FileOnceInv'
  <2>1. f_kpc[c] # "none" /\ UNCHANGED <<f_mq, f_cpc, f_req, f_spc>>
    BY <1>8 DEF Files!Child, Files!OpenBoth, Files!ClientGone, Files!ReadData,
      Files!ReadEnds, Files!SendData, Files!SendEnd,
                Files!SendFailure, Files!ReadError, Files!ChildExits, Files!ChildGoto
  <2>2. \A k \in Users : k # c => f_kpc'[k] = f_kpc[k]
    BY <1>8 DEF Files!Child, Files!OpenBoth, Files!ClientGone, Files!ReadData,
      Files!ReadEnds, Files!SendData, Files!SendEnd,
                Files!SendFailure, Files!ReadError, Files!ChildExits, Files!ChildGoto
  <2> QED BY <1>5, <2>1, <2>2
<1>9. ASSUME NEW c \in Users, Files!SendRequest(c)
      PROVE  FileOnceInv'
  <2>1. /\ Len(f_mq) \in Nat /\ f_mq' = Append(f_mq, c) /\ Len(f_mq') = Len(f_mq) + 1
        /\ \A i \in 1..Len(f_mq) : f_mq'[i] = f_mq[i]
        /\ f_mq'[Len(f_mq) + 1] = c
    BY <1>9, ListTypes DEF Files!SendRequest
  <2>2. /\ UNCHANGED <<f_spc, f_req, f_kpc>> /\ f_cpc' = [f_cpc EXCEPT ![c] = "receiving"]
        /\ f_cpc[c] = "opened"
    BY <1>9 DEF Files!SendRequest, Files!ClientGoto
  <2>3. \A i \in 1..Len(f_mq) : f_mq'[i] = f_mq[i] /\ f_mq[i] # c
    BY <2>1, <2>2 DEF Has
  <2>4. IsMore(f_mq', f_mq, Len(f_mq), c) /\ ~Has(f_mq, Len(f_mq), c)
    BY <2>1, <2>3 DEF IsMore, Has
  <2>5. /\ Distinct(f_mq', Len(f_mq) + 1)
        /\ \A k : Has(f_mq', Len(f_mq) + 1, k) <=> k = c \/ Has(f_mq, Len(f_mq), k)
    BY <2>1, <2>4, OnceMore
  <2>6. Distinct(f_mq, Len(f_mq))'
    BY <2>1, <2>5 DEF Distinct
  <2>7. \A k : Has(f_mq, Len(f_mq), k)' <=> k = c \/ Has(f_mq, Len(f_mq), k)
    BY <2>1, <2>5 DEF Has
  <2>8. f_spc = "fork" => ~Has(f_mq, Len(f_mq), f_req)'
    BY <2>1, <2>2, <2>5 DEF Has
  <2> QED BY <2>2, <2>6, <2>7, <2>8
<1>10. ASSUME NEW c \in Users, Files!CreateOwn(c) \/ Files!OpenServer(c) \/ Files!ReceiveData(c)
                                  \/ Files!ReceiveLast(c) \/ Files!Interrupted(c)
       PROVE  FileOnceInv'
  <2>1. /\ UNCHANGED <<f_mq, f_req, f_spc, f_kpc>>
        /\ \A k \in Users : f_cpc'[k] \in {"start", "made", "opened"}
                                 => f_cpc[k] \in {"start", "made", "opened"}
    BY <1>10 DEF Files!CreateOwn, Files!OpenServer, Files!ReceiveData, Files!ReceiveLast,
      Files!Interrupted, Files!ClientGoto
  <2>2. \A k : Has(f_mq, Len(f_mq), k)' = Has(f_mq, Len(f_mq), k)
    BY <2>1 DEF Has
  <2>3. Distinct(f_mq, Len(f_mq))' = Distinct(f_mq, Len(f_mq))
    BY <2>1 DEF Distinct
  <2>4. Has(f_mq, Len(f_mq), f_req)' = Has(f_mq, Len(f_mq), f_req)
    BY <2>1 DEF Has
  <2> QED BY <2>1, <2>2, <2>3, <2>4
<1> QED BY <1>1, <1>2, <1>3, <1>4, <1>6, <1>7, <1>8, <1>9, <1>10 DEF Files!Next,
  Files!Parent, Files!Client

\* A client whose messages no step touches.
LEMMA FileQuiet ==
  ASSUME NEW c \in Users, FileSent(c),
         f_box'[c] = f_box[c], f_read'[c] = f_read[c], f_received'[c] = f_received[c],
         f_kpc'[c] = f_kpc[c] \/ (f_kpc[c] = "zombie" /\ f_kpc'[c] = "reaped"),
         f_cpc'[c] = "done" => f_cpc[c] = "done"
  PROVE  FileSent(c)'
BY DEF FileSent, AllData

\* Those facts of the types that the steps of the messages need.
LEMMA FileTypes ==
  ASSUME FileInv
  PROVE  /\ Files!TypeOK /\ \A c \in Users : Len(f_box[c]) \in Nat
         /\ f_read \in [Users -> Nat] /\ f_received \in [Users -> Nat]
         /\ f_kpc \in [Users -> {"none", "open", "read", "data", "end", "failure",
                                "zombie", "reaped"}]
         /\ f_cpc \in [Users -> {"start", "made", "opened", "receiving", "done",
                                "failed", "killed"}]
<1>1. Files!TypeOK
  BY DEF FileInv
<1>2. f_box \in [Users -> Seq(Files!Messages)]
  BY <1>1 DEF Files!TypeOK
<1>3. \A c \in Users : Len(f_box[c]) \in Nat
  BY <1>2
<1> QED BY <1>1, <1>3 DEF Files!TypeOK

\* The child of one client sends, and what it sends is in the box.
LEMMA FileChildSends ==
  ASSUME FileInv, NEW c \in Users, FileSent(c), Files!Child(c) \/ Files!ReadError(c)
  PROVE  FileSent(c)'
<1> USE FileTypes DEF Files!parent, Files!child, Files!client, Files!bounds
<1>1. CASE Files!OpenBoth(c)
  BY <1>1 DEF Files!OpenBoth, Files!ChildGoto, FileSent, AllData
<1>2. CASE Files!ClientGone(c)
  BY <1>2 DEF Files!ClientGone, Files!ChildExits, Files!ChildGoto, FileSent
<1>3. CASE Files!ReadData(c)
  BY <1>3 DEF Files!ReadData, Files!ChildGoto, FileSent, AllData
<1>4. CASE Files!ReadEnds(c)
  BY <1>4 DEF Files!ReadEnds, Files!ChildGoto, FileSent, AllData
<1>5. CASE Files!ReadError(c)
  BY <1>5 DEF Files!ReadError, Files!ChildGoto, FileSent, AllData
<1>6. CASE Files!SendData(c)
  <2>1. /\ f_kpc[c] = "data" /\ f_kpc'[c] = "read" /\ Files!Put(c, "DATA")
        /\ UNCHANGED <<f_read, f_cpc, f_received>>
    BY <1>6 DEF Files!SendData, Files!ChildGoto
  <2>2. /\ Len(f_box'[c]) = Len(f_box[c]) + 1 /\ Len(f_box[c]) \in Nat
        /\ f_box'[c][Len(f_box[c]) + 1] = "DATA"
        /\ \A i \in 1..Len(f_box[c]) : f_box'[c][i] = f_box[c][i]
    BY <2>1, FilePut DEF Files!Messages
  <2>3. AllData(f_box[c], Len(f_box[c]))
    BY <2>1 DEF FileSent
  <2>4. AllData(f_box[c], Len(f_box[c]))'
    <3>1. \A i \in 1..Len(f_box'[c]) : i \in 1..Len(f_box[c]) \/ i = Len(f_box[c]) + 1
      BY <2>2
    <3> QED BY <2>2, <2>3, <3>1 DEF AllData
  <2>5. f_received[c] + Len(f_box[c])' = f_read[c]
    BY <2>1, <2>2 DEF FileSent
  <2> QED BY <2>1, <2>4, <2>5 DEF FileSent
<1>7. ASSUME NEW m \in Files!Messages, Files!Put(c, m), NEW p,
             f_kpc[c] = p, p \in {"end", "failure"},
             f_kpc'[c] = "zombie", m = "END" => p = "end",
             UNCHANGED <<f_read, f_cpc, f_received>>
      PROVE  FileSent(c)'
  <2>1. /\ Len(f_box'[c]) = Len(f_box[c]) + 1 /\ Len(f_box[c]) \in Nat
        /\ f_box'[c][Len(f_box[c]) + 1] = m
        /\ \A i \in 1..Len(f_box[c]) : f_box'[c][i] = f_box[c][i]
    BY <1>7, FilePut
  <2>2. AllData(f_box[c], Len(f_box[c]))
    BY <1>7 DEF FileSent
  <2>3. AllData(f_box[c], Len(f_box[c]) - 1)'
    <3>1. Len(f_box'[c]) - 1 = Len(f_box[c])
      BY <2>1
    <3> QED BY <2>1, <2>2, <3>1 DEF AllData
  <2>4. m = "END" => f_received[c] + Len(f_box[c]) = FileLen[c]
    BY <1>7 DEF FileSent
  <2>5. f_box'[c][Len(f_box'[c])] = "END" => f_received'[c] + Len(f_box'[c]) - 1 = FileLen[c]
    BY <1>7, <2>1, <2>4
  <2>6. f_cpc'[c] = "done" => f_received'[c] = FileLen[c]
    BY <1>7 DEF FileSent
  <2> QED BY <1>7, <2>3, <2>5, <2>6 DEF FileSent
<1>8. CASE Files!SendEnd(c)
  BY <1>7, <1>8 DEF Files!SendEnd, Files!ChildExits, Files!ChildGoto, Files!Messages
<1>9. CASE Files!SendFailure(c)
  BY <1>7, <1>9 DEF Files!SendFailure, Files!ChildExits, Files!ChildGoto, Files!Messages
<1> QED BY <1>1, <1>2, <1>3, <1>4, <1>5, <1>6, <1>8, <1>9 DEF Files!Child

\* The client takes the first message of its box.
LEMMA FileClientReceives ==
  ASSUME FileInv, NEW c \in Users, FileSent(c), Files!ReceiveData(c) \/ Files!ReceiveLast(c)
  PROVE  FileSent(c)'
<1> USE FileTypes DEF Files!parent, Files!child, Files!client, Files!bounds
<1>1. PICK m : Files!Take(c, m)
  BY DEF Files!ReceiveData, Files!ReceiveLast
<1>2. /\ Len(f_box[c]) \in Nat \ {0}
      /\ Len(f_box'[c]) = Len(f_box[c]) - 1
      /\ f_box[c][1] = m
      /\ \A i \in 1..(Len(f_box[c]) - 1) : f_box'[c][i] = f_box[c][i + 1]
  BY <1>1, FileTake DEF FileInv
<1>3. UNCHANGED <<f_kpc, f_read>> /\ f_received[c] \in Nat /\ Len(f_box'[c]) \in Nat
  BY <1>2 DEF Files!ReceiveData, Files!ReceiveLast
<1>4. f_kpc[c] \in {"read", "data", "end", "failure", "zombie", "reaped"}
  BY <1>2 DEF FileSent
<1>5. AllData(f_box[c], Len(f_box[c])) => AllData(f_box'[c], Len(f_box[c]) - 1)
  <2>1. \A i \in 1..(Len(f_box[c]) - 1) : i + 1 \in 1..Len(f_box[c])
    BY <1>2
  <2> QED BY <1>2, <2>1 DEF AllData
<1>6. CASE f_kpc[c] \in {"zombie", "reaped"}
  <2>1. AllData(f_box[c], Len(f_box[c]) - 1)
    BY <1>2, <1>6 DEF FileSent
  <2>2. Len(f_box'[c]) > 0 => AllData(f_box'[c], Len(f_box'[c]) - 1)
    <3>1. \A i \in 1..(Len(f_box'[c]) - 1) : i + 1 \in 1..(Len(f_box[c]) - 1)
                                             /\ i \in 1..(Len(f_box[c]) - 1)
      BY <1>2
    <3> QED BY <1>2, <2>1, <3>1 DEF AllData
  <2>3. Len(f_box'[c]) > 0
          => /\ f_box'[c][Len(f_box'[c])] = f_box[c][Len(f_box[c])]
             /\ f_box[c][1] = "DATA"
    <3>1. Len(f_box'[c]) > 0 => /\ Len(f_box'[c]) \in 1..(Len(f_box[c]) - 1)
                                /\ Len(f_box'[c]) + 1 = Len(f_box[c])
                                /\ 1 \in 1..(Len(f_box[c]) - 1)
      BY <1>2
    <3> QED BY <1>2, <2>1, <3>1 DEF AllData
  <2>4. CASE Files!ReceiveData(c)
    <3>1. f_received'[c] = f_received[c] + 1 /\ f_cpc'[c] = f_cpc[c] /\ f_cpc[c] # "done"
      BY <2>4 DEF Files!ReceiveData
    <3>2. f_received'[c] + Len(f_box'[c]) - 1 = f_received[c] + Len(f_box[c]) - 1
      <4>1. \A r, n \in Nat : (r + 1) + (n - 1) - 1 = r + n - 1
        OBVIOUS
      <4> QED BY <1>2, <1>3, <3>1, <4>1
    <3>3. Len(f_box'[c]) > 0 /\ f_box'[c][Len(f_box'[c])] = "END"
            => f_received'[c] + Len(f_box'[c]) - 1 = FileLen[c]
      <4>1. Len(f_box[c]) > 0
        BY <1>2
      <4> QED BY <1>6, <2>3, <3>2, <4>1 DEF FileSent
    <3>4. f_cpc'[c] # "done"
      BY <3>1
    <3> QED BY <1>3, <1>6, <2>2, <3>3, <3>4 DEF FileSent, AllData
  <2>5. CASE Files!ReceiveLast(c)
    <3>1. f_box[c][1] # "DATA" /\ f_received' = f_received
      BY <1>2, <2>5, FileTake DEF Files!ReceiveLast, FileInv
    <3>2. Len(f_box'[c]) = 0
      <4>1. ~(Len(f_box'[c]) > 0)
        BY <2>3, <3>1
      <4> QED BY <1>3, <4>1
    <3>5. Len(f_box[c]) = 1
      <4>1. \A n \in Nat : n - 1 = 0 => n = 1
        OBVIOUS
      <4> QED BY <1>2, <3>2, <4>1
    <3>3. f_cpc'[c] = "done" => f_box[c][1] = "END"
      BY <2>5, FileTake DEF Files!ReceiveLast, Files!ClientGoto, FileInv
    <3>4. f_cpc'[c] = "done" => f_received[c] = FileLen[c]
      BY <1>6, <3>3, <3>5 DEF FileSent
    <3> QED BY <1>3, <1>6, <3>1, <3>2, <3>4 DEF FileSent
  <2> QED BY <2>4, <2>5
<1>7. CASE f_kpc[c] \in {"read", "data", "end", "failure"}
  <2>1. AllData(f_box[c], Len(f_box[c])) /\ AllData(f_box'[c], Len(f_box[c]) - 1)
    BY <1>5, <1>7 DEF FileSent
  <2>2. f_box[c][1] = "DATA"
    BY <1>2, <2>1 DEF AllData
  <2>3. Files!ReceiveData(c)
    BY <1>2, <2>2, FileTake DEF Files!ReceiveLast, FileInv
  <2>4. f_received'[c] = f_received[c] + 1 /\ f_cpc'[c] = f_cpc[c] /\ f_cpc[c] # "done"
    BY <2>3 DEF Files!ReceiveData
  <2>5. AllData(f_box[c], Len(f_box[c]))'
    BY <1>2, <2>1 DEF AllData
  <2>6. f_received'[c] + Len(f_box'[c]) = f_received[c] + Len(f_box[c])
    BY <1>2, <2>4
  <2> QED BY <1>3, <1>7, <2>4, <2>5, <2>6 DEF FileSent
<1> QED BY <1>4, <1>6, <1>7

\* What each step leaves of the messages of every client.
LEMMA FileSentStep ==
  ASSUME CtrlC = FALSE, FileInv, FileSentInv, [Files!Next]_Files!vars
  PROVE  FileSentInv'
<1> SUFFICES ASSUME NEW c \in Users
             PROVE  FileSent(c)'
  BY DEF FileSentInv
<1>0. FileSent(c)
  BY DEF FileSentInv
<1> USE FileTypes DEF Files!parent, Files!child, Files!client, Files!bounds
<1>1. CASE UNCHANGED Files!vars \/ Files!Start \/ Files!Receive \/ Files!WaitEnds
  BY <1>0, <1>1, FileQuiet DEF Files!vars, Files!Start, Files!Receive, Files!WaitEnds
<1>2. CASE Files!Fork
  <2>1. /\ f_kpc' = [f_kpc EXCEPT ![f_req] = "open"] /\ f_kpc[f_req] = "none"
        /\ UNCHANGED <<f_box, f_read, f_received, f_cpc>>
    BY <1>2 DEF Files!Fork, Files!ParentGoto, FileInv, FileOnceInv
  <2>2. CASE c = f_req
    <3>1. f_kpc'[c] = "open" /\ f_kpc[c] = "none"
      BY <2>1, <2>2
    <3> QED BY <1>0, <2>1, <3>1 DEF FileSent
  <2>3. CASE c # f_req
    <3>1. f_kpc'[c] = f_kpc[c]
      BY <2>1, <2>3
    <3> QED BY <1>0, <2>1, <3>1, FileQuiet
  <2> QED BY <2>2, <2>3
<1>3. CASE Files!GrimReaper \/ Files!WaitReaps
  <2>1. PICK S \in SUBSET Files!Zombies : Files!Reap(S)
    BY <1>3 DEF Files!GrimReaper, Files!WaitReaps, Files!Zombies
  <2>2. f_kpc'[c] = f_kpc[c] \/ (f_kpc[c] = "zombie" /\ f_kpc'[c] = "reaped")
    BY <2>1 DEF Files!Reap, Files!Zombies
  <2> QED BY <1>0, <1>3, <2>2, FileQuiet DEF Files!GrimReaper, Files!WaitReaps
<1>4. CASE Files!Interrupt
  <2>1. f_kpc'[c] = f_kpc[c] /\ UNCHANGED <<f_box, f_read, f_received, f_cpc>>
    BY <1>4 DEF Files!Interrupt, Files!Blocked
  <2> QED BY <1>0, <2>1, FileQuiet
<1>5. ASSUME NEW k \in Users, Files!Child(k) \/ Files!ReadError(k), k # c
      PROVE  FileSent(c)'
  <2>1. \/ UNCHANGED f_box \/ \E m \in Files!Messages : Files!Put(k, m)
    BY <1>5 DEF Files!Child, Files!OpenBoth, Files!ClientGone, Files!ReadData,
      Files!ReadEnds, Files!SendData, Files!SendEnd,
                Files!SendFailure, Files!ReadError, Files!Messages
  <2>2. f_box'[c] = f_box[c]
    BY <1>5, <2>1, FilePut DEF FileInv
  <2>3. /\ f_read'[c] = f_read[c] /\ f_received'[c] = f_received[c]
        /\ f_kpc'[c] = f_kpc[c] /\ f_cpc'[c] = f_cpc[c]
    BY <1>5 DEF Files!Child, Files!OpenBoth, Files!ClientGone, Files!ReadData,
      Files!ReadEnds, Files!SendData, Files!SendEnd,
                Files!SendFailure, Files!ReadError, Files!ChildExits, Files!ChildGoto
  <2> QED BY <1>0, <2>2, <2>3, FileQuiet
<1>6. ASSUME NEW k \in Users, Files!ReceiveData(k) \/ Files!ReceiveLast(k), k # c
      PROVE  FileSent(c)'
  <2>1. \E m \in Files!Messages : Files!Take(k, m)
    BY <1>6 DEF Files!ReceiveData, Files!ReceiveLast, Files!Messages
  <2>2. f_box'[c] = f_box[c]
    BY <1>6, <2>1, FileTake DEF FileInv
  <2>3. /\ f_read'[c] = f_read[c] /\ f_received'[c] = f_received[c]
        /\ f_kpc'[c] = f_kpc[c] /\ f_cpc'[c] = f_cpc[c]
    BY <1>6 DEF Files!ReceiveData, Files!ReceiveLast, Files!ClientGoto
  <2> QED BY <1>0, <2>2, <2>3, FileQuiet
<1>7. ASSUME NEW k \in Users,
             Files!CreateOwn(k) \/ Files!OpenServer(k) \/ Files!SendRequest(k)
             \/ Files!Interrupted(k)
      PROVE  FileSent(c)'
  <2>1. /\ UNCHANGED <<f_box, f_read, f_received, f_kpc>>
        /\ f_cpc'[c] = "done" => f_cpc[c] = "done"
    BY <1>7 DEF Files!CreateOwn, Files!OpenServer, Files!SendRequest, Files!Interrupted,
      Files!ClientGoto
  <2> QED BY <1>0, <2>1, FileQuiet
<1>8. ASSUME NEW k \in Users, Files!Child(k) \/ Files!ReadError(k)
                              \/ Files!ReceiveData(k) \/ Files!ReceiveLast(k)
      PROVE  FileSent(c)'
  BY <1>0, <1>5, <1>6, <1>8, FileChildSends, FileClientReceives
<1> QED BY <1>1, <1>2, <1>3, <1>4, <1>7, <1>8 DEF Files!Next, Files!Parent, Files!Client

-----------------------------------------------------------------------------
(***************************************************************************)
(* nv_sv.c: the password of a name is that of its first adder.             *)
(***************************************************************************)

\* A name has the password of its first adder, and the names without one have had none.
NvFirstInv ==
  \A k \in Keys : IF k \in DOMAIN nv_auth_tree
                  THEN nv_first[k] = nv_auth_tree[k] /\ nv_first[k] # NoNum
                  ELSE nv_first[k] = NoNum
NvInv == Nv!TypeOK /\ Nv!PairsHavePasswords /\ NvFirstInv

\* Both trees begin empty.
LEMMA NvBegins == Nv!Init => NvInv
<1> SUFFICES ASSUME Nv!Init PROVE NvInv
  OBVIOUS
<1>1. DOMAIN nv_tree = {} /\ DOMAIN nv_auth_tree = {}
  BY DEF Nv!Init, Nv!EmptyTree
<1>2. Nv!TypeOK
  BY <1>1 DEF Nv!Init, Nv!TypeOK
<1> QED BY <1>1, <1>2 DEF Nv!Init, NvInv, Nv!PairsHavePasswords, NvFirstInv

\* Every request preserves the types.
LEMMA NvTypeStep ==
  ASSUME NvInv, [Nv!Next]_Nv!vars
  PROVE  Nv!TypeOK'
<1> USE MessagesAssumption DEF NvInv, Nv!TypeOK
<1>1. CASE UNCHANGED Nv!vars
  BY <1>1 DEF Nv!vars
<1>2. CASE Nv!Accept
  <2>1. nv_backlog # <<>> /\ nv_backlog \in Seq(Users)
    BY <1>2 DEF Nv!Accept
  <2>2. Head(nv_backlog) \in Users /\ Tail(nv_backlog) \in Seq(Users)
    BY <2>1
  <2> QED BY <1>2, <2>2 DEF Nv!Accept, Nv!trees
<1>3. ASSUME NEW outcome, Nv!Served(outcome)
      PROVE  /\ nv_backlog' \in Seq(Users) /\ nv_spc' \in {"accept", "read", "crashed"}
             /\ nv_cfd' \in Users /\ nv_cpc' \in [Users -> {"start", "connected", "sent"}]
  BY <1>3 DEF Nv!Served
<1>4. CASE Nv!DropPartial
  BY <1>3, <1>4 DEF Nv!DropPartial, Nv!trees
<1>5. ASSUME NEW k \in Keys, Nv!Refuse(k) \/ Nv!Get(k)
      PROVE  Nv!TypeOK'
  BY <1>3, <1>5 DEF Nv!Refuse, Nv!Get, Nv!trees
<1>6. ASSUME NEW k \in Keys, Nv!Delete(k)
      PROVE  Nv!TypeOK'
  <2>1. /\ DOMAIN nv_tree' = DOMAIN nv_tree \ {k}
        /\ \A j \in DOMAIN nv_tree' : nv_tree'[j] = nv_tree[j]
    BY <1>6 DEF Nv!Delete
  <2> QED BY <1>3, <1>6, <2>1 DEF Nv!Delete
<1>7. ASSUME NEW k \in Keys, NEW v \in Values, Nv!Modify(k, v)
      PROVE  Nv!TypeOK'
  <2>1. /\ DOMAIN nv_tree' = DOMAIN nv_tree
        /\ \A j \in DOMAIN nv_tree' : nv_tree'[j] \in {v, nv_tree[j]}
    BY <1>7 DEF Nv!Modify
  <2> QED BY <1>3, <1>7, <2>1 DEF Nv!Modify
<1>8. ASSUME NEW k \in Keys, NEW v \in Values, Nv!Add(k, v)
      PROVE  Nv!TypeOK'
  <2>1. /\ DOMAIN nv_tree' \subseteq Keys /\ \A j \in DOMAIN nv_tree' : nv_tree'[j] \in Values
        /\ DOMAIN nv_auth_tree' \subseteq Keys
        /\ \A j \in DOMAIN nv_auth_tree' : nv_auth_tree'[j] \in Users
    BY <1>8 DEF Nv!Add, Nv!Added
  <2>2. {nv_first', nv_creator'} \subseteq [Keys -> Users \cup {NoNum}]
    BY <1>8 DEF Nv!Add
  <2> QED BY <1>3, <1>8, <2>1, <2>2 DEF Nv!Add
<1>9. ASSUME NEW c \in Users, Nv!Connect(c) \/ Nv!Write(c)
      PROVE  Nv!TypeOK'
  <2>1. CASE Nv!Connect(c)
    <3>1. nv_backlog' \in Seq(Users)
      BY <2>1 DEF Nv!Connect
    <3> QED BY <2>1, <3>1 DEF Nv!Connect, Nv!trees
  <2>2. CASE Nv!Write(c)
    BY <2>2 DEF Nv!Write, Nv!trees
  <2> QED BY <1>9, <2>1, <2>2
<1> QED BY <1>1, <1>2, <1>4, <1>5, <1>6, <1>7, <1>8, <1>9 DEF Nv!Next, Nv!Server

\* No request changes the password of a name.
LEMMA NvFirstStep ==
  ASSUME NvInv, [Nv!Next]_Nv!vars
  PROVE  Nv!PairsHavePasswords' /\ NvFirstInv'
<1> USE MessagesAssumption DEF NvInv, Nv!TypeOK, Nv!PairsHavePasswords, NvFirstInv
<1>1. CASE UNCHANGED Nv!vars
  BY <1>1 DEF Nv!vars
<1>2. CASE Nv!Accept
  BY <1>2 DEF Nv!Accept, Nv!trees
<1>4. CASE Nv!DropPartial
  BY <1>4 DEF Nv!DropPartial, Nv!trees
<1>5. ASSUME NEW k \in Keys, Nv!Refuse(k) \/ Nv!Get(k)
      PROVE  Nv!PairsHavePasswords' /\ NvFirstInv'
  BY <1>5 DEF Nv!Refuse, Nv!Get, Nv!trees
<1>6. ASSUME NEW k \in Keys, Nv!Delete(k)
      PROVE  Nv!PairsHavePasswords' /\ NvFirstInv'
  BY <1>6 DEF Nv!Delete
<1>7. ASSUME NEW k \in Keys, NEW v \in Values, Nv!Modify(k, v)
      PROVE  Nv!PairsHavePasswords' /\ NvFirstInv'
  BY <1>7 DEF Nv!Modify
<1>8. ASSUME NEW k \in Keys, NEW v \in Values, Nv!Add(k, v)
      PROVE  Nv!PairsHavePasswords' /\ NvFirstInv'
  <2>1. /\ nv_tree' = Nv!Added(nv_tree, k, v)
        /\ nv_auth_tree' = Nv!Added(nv_auth_tree, k, nv_cfd)
        /\ nv_first' = [nv_first EXCEPT ![k] = IF @ = NoNum THEN nv_cfd ELSE @]
    BY <1>8 DEF Nv!Add
  <2>2. /\ DOMAIN nv_tree' = DOMAIN nv_tree \cup {k}
        /\ DOMAIN nv_auth_tree' = DOMAIN nv_auth_tree \cup {k}
        /\ \A j \in DOMAIN nv_auth_tree : nv_auth_tree'[j] = nv_auth_tree[j]
        /\ k \notin DOMAIN nv_auth_tree => nv_auth_tree'[k] = nv_cfd
    BY <2>1 DEF Nv!Added
  <2>3. nv_first \in [Keys -> Users \cup {NoNum}] /\ nv_cfd \in Users
    OBVIOUS
  <2>4. ASSUME NEW j \in Keys
        PROVE  IF j \in DOMAIN nv_auth_tree'
               THEN nv_first'[j] = nv_auth_tree'[j] /\ nv_first'[j] # NoNum
               ELSE nv_first'[j] = NoNum
    <3>1. CASE j = k
      <4>1. nv_first'[k] = IF nv_first[k] = NoNum THEN nv_cfd ELSE nv_first[k]
        BY <2>1, <2>3
      <4> QED BY <3>1, <4>1, <2>2, <2>3
    <3>2. CASE j # k
      <4>1. nv_first'[j] = nv_first[j]
        BY <2>1, <2>3, <3>2
      <4> QED BY <3>2, <4>1, <2>2, <2>3
    <3> QED BY <3>1, <3>2
  <2> QED BY <2>2, <2>4
<1>9. ASSUME NEW c \in Users, Nv!Connect(c) \/ Nv!Write(c)
      PROVE  Nv!PairsHavePasswords' /\ NvFirstInv'
  BY <1>9 DEF Nv!Connect, Nv!Write, Nv!trees
<1> QED BY <1>1, <1>2, <1>4, <1>5, <1>6, <1>7, <1>8, <1>9 DEF Nv!Next, Nv!Server

\* A pair changes only for who was authenticated, that is the first to add it.
LEMMA NvChanges ==
  ASSUME NvInv, [Nv!Next]_Nv!vars, NEW k \in Keys, Nv!Changes(k)
  PROVE  nv_cfd = nv_first[k]
<1> USE MessagesAssumption DEF NvInv, Nv!TypeOK, NvFirstInv, Nv!Changes
<1>1. nv_tree' # nv_tree
  OBVIOUS
<1>2. CASE Nv!Accept \/ Nv!DropPartial \/ UNCHANGED Nv!vars
  BY <1>1, <1>2 DEF Nv!Accept, Nv!DropPartial, Nv!trees, Nv!vars
<1>3. ASSUME NEW j \in Keys, Nv!Refuse(j) \/ Nv!Get(j)
      PROVE  FALSE
  BY <1>1, <1>3 DEF Nv!Refuse, Nv!Get, Nv!trees
<1>4. ASSUME NEW j \in Keys, Nv!Delete(j)
      PROVE  nv_cfd = nv_first[k]
  BY <1>4 DEF Nv!Delete, Nv!Authentic
<1>5. ASSUME NEW j \in Keys, NEW v \in Values, Nv!Modify(j, v)
      PROVE  nv_cfd = nv_first[k]
  BY <1>5 DEF Nv!Modify, Nv!Authentic
<1>6. ASSUME NEW j \in Keys, NEW v \in Values, Nv!Add(j, v)
      PROVE  FALSE
  <2>1. /\ DOMAIN nv_tree' = DOMAIN nv_tree \cup {j}
        /\ \A i \in DOMAIN nv_tree : nv_tree'[i] = nv_tree[i]
    BY <1>6 DEF Nv!Add, Nv!Added
  <2> QED BY <2>1
<1>7. ASSUME NEW c \in Users, Nv!Connect(c) \/ Nv!Write(c)
      PROVE  FALSE
  BY <1>1, <1>7 DEF Nv!Connect, Nv!Write, Nv!trees
<1> QED BY <1>2, <1>3, <1>4, <1>5, <1>6, <1>7 DEF Nv!Next, Nv!Server

-----------------------------------------------------------------------------
(***************************************************************************)
(* rlbuf_seqnum_sv.c: a client is accepted once.                           *)
(***************************************************************************)

\* The server is at work for client c; client c is connected and not accepted.
RlServing(c) == rl_spc # "accept" /\ rl_cfd = c
RlQueued(c) == \E i \in 1..Len(rl_backlog) : rl_backlog[i] = c

\* A client connects once, and has no response before the server writes one.
RlOnceInv ==
  /\ \A i, j \in 1..Len(rl_backlog) : rl_backlog[i] = rl_backlog[j] => i = j
  /\ \A c \in Askers : /\ rl_cpc[c] = "start" => ~RlQueued(c) /\ ~RlServing(c)
                       /\ RlQueued(c) => ~RlServing(c)
                       /\ rl_cpc[c] = "start" \/ RlQueued(c) => rl_response[c] = NoNum
  /\ rl_spc \in {"read", "write"} => rl_response[rl_cfd] = NoNum
RlInv == Rlbuf!TypeOK /\ RlOnceInv

\* Nobody is connected at the start.
LEMMA RlBegins == Rlbuf!Init => RlInv
BY DEF Rlbuf!Init, RlInv, Rlbuf!TypeOK, RlOnceInv, RlQueued, RlServing

\* Every step of the server and its clients preserves the types.
LEMMA RlTypeStep ==
  ASSUME Rlbuf!TypeOK, [Rlbuf!Next]_Rlbuf!vars
  PROVE  Rlbuf!TypeOK'
<1> USE DEF Rlbuf!TypeOK
<1>1. CASE UNCHANGED Rlbuf!vars
  BY <1>1 DEF Rlbuf!vars
<1>2. CASE Rlbuf!Accept
  BY <1>2, ListRest DEF Rlbuf!Accept, Rlbuf!ServerGoto
<1>3. CASE Rlbuf!ReadLine \/ Rlbuf!ReadEOF
  BY <1>3 DEF Rlbuf!ReadLine, Rlbuf!ReadEOF, Rlbuf!ServerGoto
<1>4. CASE Rlbuf!WriteResponse
  BY <1>4 DEF Rlbuf!WriteResponse, Rlbuf!ServerGoto
<1>5. CASE Rlbuf!Update
  <2>1. rl_seqNum' \in Int
    BY <1>5 DEF Rlbuf!Update
  <2> QED BY <1>5, <2>1 DEF Rlbuf!Update, Rlbuf!ServerGoto
<1>6. CASE Rlbuf!Close
  BY <1>6 DEF Rlbuf!Close, Rlbuf!ServerGoto
<1>7. ASSUME NEW c \in Askers, Rlbuf!Connect(c)
      PROVE  Rlbuf!TypeOK'
  <2>1. rl_backlog' \in Seq(Askers)
    BY <1>7 DEF Rlbuf!Connect
  <2>2. rl_cpc' \in [Askers -> {"start", "sending", "waiting", "done", "failed", "gone"}]
    BY <1>7 DEF Rlbuf!Connect, Rlbuf!ClientGoto
  <2> QED BY <1>7, <2>1, <2>2 DEF Rlbuf!Connect, Rlbuf!server
<1>8. ASSUME NEW c \in Askers, Rlbuf!SendPart(c) \/ Rlbuf!SendRest(c)
      PROVE  Rlbuf!TypeOK'
  <2>1. CASE Rlbuf!SendPart(c)
    BY <2>1 DEF Rlbuf!SendPart, Rlbuf!server
  <2>2. CASE Rlbuf!SendRest(c)
    BY <2>2 DEF Rlbuf!SendRest, Rlbuf!ClientGoto, Rlbuf!server
  <2> QED BY <1>8, <2>1, <2>2
<1>9. ASSUME NEW c \in Askers, Rlbuf!ReceiveResponse(c)
      PROVE  Rlbuf!TypeOK'
  BY <1>9 DEF Rlbuf!ReceiveResponse, Rlbuf!ClientGoto, Rlbuf!server
<1>10. ASSUME NEW c \in Askers, Rlbuf!ReceiveEOF(c) \/ Rlbuf!Leave(c)
      PROVE  Rlbuf!TypeOK'
  BY <1>10 DEF Rlbuf!ReceiveEOF, Rlbuf!Leave, Rlbuf!ClientGoto, Rlbuf!server
<1> QED BY <1>1, <1>2, <1>3, <1>4, <1>5, <1>6, <1>7, <1>8, <1>9, <1>10
        DEF Rlbuf!Next, Rlbuf!Server, Rlbuf!Client

\* Every step preserves that a client connects once.
LEMMA RlOnceStep ==
  ASSUME RlInv, [Rlbuf!Next]_Rlbuf!vars
  PROVE  RlOnceInv'
<1> USE DEF RlInv, Rlbuf!TypeOK, RlOnceInv, RlQueued, RlServing
<1>1. CASE UNCHANGED Rlbuf!vars
  BY <1>1 DEF Rlbuf!vars
<1>2. CASE Rlbuf!Accept
  <2>1. /\ Head(rl_backlog) = rl_backlog[1]
        /\ rl_backlog[1] \in Askers
        /\ Len(rl_backlog) \in Nat \ {0}
        /\ Len(Tail(rl_backlog)) = Len(rl_backlog) - 1
        /\ \A i \in 1..(Len(rl_backlog) - 1) : Tail(rl_backlog)[i] = rl_backlog[i + 1]
    BY <1>2, ListRest DEF Rlbuf!Accept
  <2>2. rl_backlog' = Tail(rl_backlog) /\ rl_cfd' = rl_backlog[1] /\ rl_spc' = "read"
        /\ UNCHANGED <<rl_response, rl_cpc>>
    BY <1>2, <2>1 DEF Rlbuf!Accept, Rlbuf!ServerGoto
  <2>4. /\ Len(rl_backlog') = Len(rl_backlog) - 1 /\ Len(rl_backlog) \in Nat \ {0}
        /\ \A i \in 1..(Len(rl_backlog) - 1) : rl_backlog'[i] = rl_backlog[i + 1]
        /\ \A i, j \in 1..Len(rl_backlog) : rl_backlog[i] = rl_backlog[j] => i = j
    BY <2>1, <2>2
  <2>5. /\ IsRest(rl_backlog', rl_backlog, Len(rl_backlog))
        /\ Distinct(rl_backlog, Len(rl_backlog))
    BY <2>4 DEF IsRest, Distinct
  <2>6. /\ Distinct(rl_backlog', Len(rl_backlog) - 1)
        /\ \A k :
              Has(rl_backlog, Len(rl_backlog), k)
              <=> k = rl_backlog[1] \/ Has(rl_backlog', Len(rl_backlog) - 1, k)
        /\ ~Has(rl_backlog', Len(rl_backlog) - 1, rl_backlog[1])
    BY <2>4, <2>5, OnceLess
  <2>3. /\ \A i, j \in 1..Len(rl_backlog') : rl_backlog'[i] = rl_backlog'[j] => i = j
        /\ \A k : RlQueued(k) <=> k = rl_backlog[1] \/ RlQueued(k)'
        /\ \A k : RlQueued(k)' => k # rl_backlog[1]
    BY <2>4, <2>6 DEF Has, Distinct
  <2> HIDE DEF RlQueued
  <2> QED BY <2>1, <2>2, <2>3
<1>3. CASE Rlbuf!ReadLine \/ Rlbuf!ReadEOF
  BY <1>3 DEF Rlbuf!ReadLine, Rlbuf!ReadEOF, Rlbuf!ServerGoto
<1>4. CASE Rlbuf!WriteResponse
  BY <1>4 DEF Rlbuf!WriteResponse, Rlbuf!ServerGoto
<1>5. CASE Rlbuf!Update
  BY <1>5 DEF Rlbuf!Update, Rlbuf!ServerGoto
<1>6. CASE Rlbuf!Close
  BY <1>6 DEF Rlbuf!Close, Rlbuf!ServerGoto
<1>7. ASSUME NEW c \in Askers, Rlbuf!Connect(c)
      PROVE  RlOnceInv'
  <2>1. /\ Len(rl_backlog) \in Nat /\ rl_backlog' = Append(rl_backlog, c)
        /\ Len(rl_backlog') = Len(rl_backlog) + 1
        /\ \A i \in 1..Len(rl_backlog) : rl_backlog'[i] = rl_backlog[i]
        /\ rl_backlog'[Len(rl_backlog) + 1] = c
    BY <1>7, ListTypes DEF Rlbuf!Connect
  <2>2. /\ UNCHANGED <<rl_spc, rl_cfd, rl_response>>
        /\ rl_cpc' = [rl_cpc EXCEPT ![c] = "sending"]
        /\ rl_cpc[c] = "start"
    BY <1>7 DEF Rlbuf!Connect, Rlbuf!ClientGoto, Rlbuf!server
  <2>3. /\ IsMore(rl_backlog', rl_backlog, Len(rl_backlog), c)
        /\ Distinct(rl_backlog, Len(rl_backlog))
        /\ ~Has(rl_backlog, Len(rl_backlog), c)
    BY <2>1, <2>2 DEF IsMore, Distinct, Has
  <2>5. /\ Distinct(rl_backlog', Len(rl_backlog) + 1)
        /\ \A k :
              Has(rl_backlog', Len(rl_backlog) + 1, k)
              <=> k = c \/ Has(rl_backlog, Len(rl_backlog), k)
    BY <2>1, <2>3, OnceMore
  <2>4. /\ \A i, j \in 1..Len(rl_backlog') : rl_backlog'[i] = rl_backlog'[j] => i = j
        /\ \A k : RlQueued(k)' <=> k = c \/ RlQueued(k)
    BY <2>1, <2>5 DEF Distinct, Has
  <2> HIDE DEF RlQueued
  <2> QED BY <2>2, <2>4
<1>8. ASSUME NEW c \in Askers, Rlbuf!SendPart(c) \/ Rlbuf!SendRest(c)
      PROVE  RlOnceInv'
  BY <1>8 DEF Rlbuf!SendPart, Rlbuf!SendRest, Rlbuf!ClientGoto, Rlbuf!server
<1>9. ASSUME NEW c \in Askers, Rlbuf!ReceiveResponse(c)
      PROVE  RlOnceInv'
  BY <1>9 DEF Rlbuf!ReceiveResponse, Rlbuf!ClientGoto, Rlbuf!server
<1>10. ASSUME NEW c \in Askers, Rlbuf!ReceiveEOF(c) \/ Rlbuf!Leave(c)
      PROVE  RlOnceInv'
  BY <1>10 DEF Rlbuf!ReceiveEOF, Rlbuf!Leave, Rlbuf!ClientGoto, Rlbuf!server
<1> QED BY <1>1, <1>2, <1>3, <1>4, <1>5, <1>6, <1>7, <1>8, <1>9, <1>10
        DEF Rlbuf!Next, Rlbuf!Server, Rlbuf!Client

\* Every step is one of the allocator, or none; who has left wastes its numbers.
LEMMA RlAllocates ==
  ASSUME RlInv, [Rlbuf!Next]_Rlbuf!vars
  PROVE  [RlAllocator!SNext]_<<Rlbuf!Assigned, rl_response>>
<1> USE DEF RlInv, Rlbuf!TypeOK, Rlbuf!Assigned
<1>1. CASE Rlbuf!WriteResponse
  <2>1. /\ rl_spc = "write" /\ rl_spc' = "update" /\ rl_seqNum' = rl_seqNum
        /\ rl_cfd' = rl_cfd
        /\ rl_response' = [rl_response EXCEPT ![rl_cfd] =
                              IF rl_cpc[rl_cfd] = "gone" THEN @ ELSE rl_seqNum]
    BY <1>1 DEF Rlbuf!WriteResponse, Rlbuf!ServerGoto
  <2>2. /\ Rlbuf!Assigned = rl_seqNum
        /\ Rlbuf!Assigned' = rl_seqNum + RlLen[rl_cfd]
        /\ rl_response[rl_cfd] = NoNum
    BY <2>1 DEF RlOnceInv
  <2>3. CASE rl_cpc[rl_cfd] = "gone"
    <3>1. rl_response' = rl_response
      BY <2>1, <2>3
    <3> QED BY <2>2, <3>1 DEF RlAllocator!SNext, RlAllocator!Waste
  <2>4. CASE rl_cpc[rl_cfd] # "gone"
    <3>1. rl_response' = [rl_response EXCEPT ![rl_cfd] = Rlbuf!Assigned]
      BY <2>1, <2>2, <2>4
    <3> QED BY <2>2, <3>1 DEF RlAllocator!SNext, RlAllocator!Grant
  <2> QED BY <2>3, <2>4
<1>2. CASE \/ Rlbuf!Accept \/ Rlbuf!ReadLine \/ Rlbuf!ReadEOF \/ Rlbuf!Close
           \/ UNCHANGED Rlbuf!vars
  BY <1>2 DEF Rlbuf!Accept, Rlbuf!ReadLine, Rlbuf!ReadEOF, Rlbuf!Close, Rlbuf!ServerGoto,
    Rlbuf!vars
<1>3. CASE Rlbuf!Update
  BY <1>3 DEF Rlbuf!Update, Rlbuf!ServerGoto
<1>4. ASSUME NEW c \in Askers, Rlbuf!Client(c) \/ Rlbuf!Leave(c)
      PROVE  UNCHANGED <<Rlbuf!Assigned, rl_response>>
  BY <1>4 DEF Rlbuf!Client, Rlbuf!Connect, Rlbuf!SendPart, Rlbuf!SendRest,
    Rlbuf!ReceiveResponse, Rlbuf!ReceiveEOF,
              Rlbuf!Leave, Rlbuf!server
<1> QED BY <1>1, <1>2, <1>3, <1>4 DEF Rlbuf!Next, Rlbuf!Server

-----------------------------------------------------------------------------
(***************************************************************************)
(* The five programs together.                                             *)
(***************************************************************************)

\* A step of one program is a step of its module, and none of the others'.
LEMMA EachKeepsItsOwn ==
  [MCNext]_allVars =>
    /\ [Next]_vars /\ [Seqnum!Next]_Seqnum!vars /\ [Files!Next]_Files!vars
    /\ [Nv!Next]_Nv!vars /\ [Rlbuf!Next]_Rlbuf!vars
<1> SUFFICES ASSUME [MCNext]_allVars
             PROVE  /\ [Next]_vars
                    /\ [Seqnum!Next]_Seqnum!vars /\ [Files!Next]_Files!vars
                    /\ [Nv!Next]_Nv!vars /\ [Rlbuf!Next]_Rlbuf!vars
  OBVIOUS
<1>1. UNCHANGED sqVars => UNCHANGED Seqnum!vars
  BY DEF sqVars, Seqnum!vars
<1>2. UNCHANGED fVars => UNCHANGED Files!vars
  BY DEF fVars, Files!vars, Files!parent, Files!child, Files!client, Files!bounds
<1>3. UNCHANGED nvVars => UNCHANGED Nv!vars
  BY DEF nvVars, Nv!vars
<1>4. UNCHANGED rlVars => UNCHANGED Rlbuf!vars
  BY DEF rlVars, Rlbuf!vars
<1>5. CASE UNCHANGED allVars
  BY <1>1, <1>2, <1>3, <1>4, <1>5 DEF allVars
<1>6. CASE MCNext
  BY <1>1, <1>2, <1>3, <1>4, <1>6 DEF MCNext, Only
<1> QED BY <1>5, <1>6

\* What holds of the programs at all times.
ProgramsInv == TypeOK /\ SqInv /\ FileInv /\ NvInv /\ RlInv

\* The programs start in states that satisfy the invariants.
LEMMA ProgramsStart == MCInit => ProgramsInv /\ FileSentInv
<1> SUFFICES ASSUME MCInit
             PROVE  ProgramsInv /\ FileSentInv
  OBVIOUS
<1>1. Init => TypeOK
  BY PmsgChatAssumption DEF Init, TypeOK, PCs
<1> QED
  BY <1>1, SqBegins, FileBegins, NvBegins, RlBegins DEF MCInit, ProgramsInv

\* Every step of one of the programs keeps the invariants of all of them.
LEMMA ProgramsStep == ProgramsInv /\ [MCNext]_allVars => ProgramsInv'
<1> SUFFICES ASSUME ProgramsInv, [MCNext]_allVars
             PROVE  ProgramsInv'
  OBVIOUS
<1>1. TypeOK'
  BY EachKeepsItsOwn, TypeStep DEF ProgramsInv
<1>2. SqInv'
  BY EachKeepsItsOwn, SqTypeStep, SqOnceStep DEF ProgramsInv, SqInv
<1>3. FileInv'
  BY EachKeepsItsOwn, FileTypeStep, FileOnceStep, FileParentStep DEF ProgramsInv, FileInv
<1>4. NvInv'
  BY EachKeepsItsOwn, NvTypeStep, NvFirstStep DEF ProgramsInv, NvInv
<1>5. RlInv'
  BY EachKeepsItsOwn, RlTypeStep, RlOnceStep DEF ProgramsInv, RlInv
<1> QED BY <1>1, <1>2, <1>3, <1>4, <1>5 DEF ProgramsInv

\* The invariants that the theorems below are drawn from hold in every reachable state.
LEMMA ProgramsInvariance == MCSpec => []ProgramsInv
<1>1. MCInit => ProgramsInv
  BY ProgramsStart
<1> QED BY <1>1, ProgramsStep, PTL DEF MCSpec

\* For any clients, lengths, names and bounds: every variable of the five programs keeps
\* its type, no queue overflows, and no pair of nv_sv.c is without a password.
THEOREM TypesAreKept == MCSpec => []ProgramsTypeOK
<1>1. ProgramsInv => ProgramsTypeOK
  BY DEF ProgramsInv, ProgramsTypeOK, SqInv, FileInv, NvInv, RlInv
<1> QED BY <1>1, ProgramsInvariance, PTL

\* pmsg_file_server.c, with SIGINTs that reach the parent alone: whoever is told the end of
\* a file has all of it, of whatever length, and the parent ends after its children.
THEOREM FilesEndInOrder == CtrlC = FALSE => (MCSpec => []EndsInOrder)
<1> SUFFICES ASSUME CtrlC = FALSE
             PROVE  MCSpec => []EndsInOrder
  OBVIOUS
<1>1. MCInit => FileSentInv
  BY ProgramsStart
<1>2. ProgramsInv /\ FileSentInv /\ [MCNext]_allVars => FileSentInv'
  BY EachKeepsItsOwn, FileSentStep DEF ProgramsInv
<1>3. ProgramsInv /\ FileSentInv => EndsInOrder
  <2> SUFFICES ASSUME FileInv, FileSentInv
               PROVE  Files!EndMeansComplete /\ Files!ParentEndsLast
    BY DEF ProgramsInv, EndsInOrder
  <2>1. Files!EndMeansComplete
    BY DEF FileSentInv, FileSent, Files!EndMeansComplete
  <2>2. f_signals \in 0..MaxInterrupts
    BY DEF FileInv, Files!TypeOK
  <2>3. ~(f_signals >= 2 /\ f_signals <= 1)
    BY <2>2, MessagesAssumption
  <2>4. Files!ParentEndsLast
    BY <2>3 DEF FileInv, FileParentInv, Files!ParentEndsLast, Files!Zombies, Files!Alive
  <2> QED BY <2>1, <2>4
<1> QED BY <1>1, <1>2, <1>3, ProgramsInvariance, PTL DEF MCSpec

\* nv_sv.c: a pair is changed or removed only for the client that was the first of all to
\* add its name.
THEOREM FirstDecides == MCSpec => FirstAdderDecides
<1>1. ProgramsInv /\ [MCNext]_allVars
        => [\A k \in Keys : Nv!Changes(k) => nv_cfd = nv_first[k]]_Nv!vars
  <2> SUFFICES ASSUME ProgramsInv, [MCNext]_allVars
               PROVE  \A k \in Keys : Nv!Changes(k) => nv_cfd = nv_first[k]
    OBVIOUS
  <2> QED BY EachKeepsItsOwn, NvChanges DEF ProgramsInv
<1>2. MCSpec => [][\A k \in Keys : Nv!Changes(k) => nv_cfd = nv_first[k]]_Nv!vars
  BY <1>1, ProgramsInvariance, PTL DEF MCSpec
<1> QED BY <1>2 DEF FirstAdderDecides, Nv!FirstAdderDecides

\* pmsg_seqnum_server.c, as long as all lengths together stay within an int, and
\* rlbuf_seqnum_sv.c implement the allocator: sequences are given out in order, each
\* client's once, and no two overlap.
THEOREM ServersAllocate == SumUpTo(SqLen, N) <= IntMax => (MCSpec => ServersAreAllocators)
<1> SUFFICES ASSUME SumUpTo(SqLen, N) <= IntMax
             PROVE  MCSpec => ServersAreAllocators
  OBVIOUS
<1>1. MCInit => SqAssignedInv /\ SqAllocator!SInit /\ RlAllocator!SInit
  <2> SUFFICES ASSUME MCInit
               PROVE  SqAssignedInv /\ SqAllocator!SInit /\ RlAllocator!SInit
    OBVIOUS
  <2>1. Seqnum!Assigned = 0 /\ \A c \in Askers : Seqnum!Given(c) = NoNum
    BY DEF MCInit, Seqnum!Init, Seqnum!Assigned, Seqnum!Given
  <2>2. \A c \in 1..N : SqGranted[c] = 0
    BY <2>1 DEF SqGranted, Askers
  <2>3. SumUpTo(SqGranted, N) = 0
    BY <2>2, SumZero, MessagesAssumption
  <2>4. RlAllocator!SInit
    BY DEF MCInit, Rlbuf!Init, Rlbuf!Assigned, RlAllocator!SInit
  <2> QED BY <2>1, <2>3, <2>4 DEF SqAssignedInv, SqAllocator!SInit
<1>2. ProgramsInv /\ SqAssignedInv /\ [MCNext]_allVars => SqAssignedInv'
  BY EachKeepsItsOwn, SqSumStep DEF ProgramsInv
<1>3. ProgramsInv /\ SqAssignedInv /\ [MCNext]_allVars
        => [SqAllocator!SNext]_<<Seqnum!Assigned, [c \in Askers |-> Seqnum!Given(c)]>>
  BY EachKeepsItsOwn, SqAllocates DEF ProgramsInv
<1>4. ProgramsInv /\ [MCNext]_allVars
        => [RlAllocator!SNext]_<<Rlbuf!Assigned, rl_response>>
  BY EachKeepsItsOwn, RlAllocates DEF ProgramsInv
<1>5. MCSpec => SqAllocator!SSpec
  BY <1>1, <1>2, <1>3, ProgramsInvariance, PTL DEF MCSpec, SqAllocator!SSpec
<1>6. MCSpec => RlAllocator!SSpec
  BY <1>1, <1>4, ProgramsInvariance, PTL DEF MCSpec, RlAllocator!SSpec
<1> QED BY <1>5, <1>6 DEF ServersAreAllocators
=============================================================================
