-------------------------------- MODULE Telnet --------------------------------
(***************************************************************************)
(* 64_Pseudoterminals/telnet_sv.c and telnet_cl.c.  A client makes two     *)
(* connections and names its session on both; the server pairs them in a   *)
(* tree and forks a child, which runs a shell on a pseudoterminal.  Keys   *)
(* and output go over the first connection, sizes of the window over the   *)
(* second, row and column each confirmed by a byte.                        *)
(*                                                                         *)
(* Server and child have the same handler of SIGCHLD, which is raised when *)
(* a child of theirs ends, stops or goes on, and which waits for an end: a *)
(* signal that tells of anything else keeps them in it.                    *)
(*                                                                         *)
(* A size is the number of changes so far, sent once as row and once as    *)
(* column.  Left out: names that agree up to a zero byte; what ws_buf      *)
(* holds if the client leaves in the middle of a size; a program that      *)
(* outlives the shell; SIGWINCH before the first size is sent; a fork that *)
(* fails; cl_len, which accept is given uninitialised.                     *)
(***************************************************************************)
EXTENDS Integers, Sequences, FiniteSets

CONSTANTS
  NumClients,   \* the clients there may be
  Loads         \* bounds: how many clients connect, the keys and the changes of the
                \* window of each, and how often a child of the server stops or goes
                \* on, as records [clients, keys, sizes, stops]

VARIABLES
  load,                   \* the one of Loads that bounds this behaviour
  backlog, conn, spc,     \* connections not accepted, the one accepted, the server
  named, sessions,        \* connections with a name written; clients in the tree
  zombies, pending, stops, \* children not waited for; SIGCHLDs not dealt with, and how
                          \* often a child stopped or went on
  cpc, cevents, caught,   \* client: place, events reported, sigwinch_caught
  size, snap,             \* its window, and the size it has read last
  wire, conf,             \* the second connection: numbers, and confirmations, unread
  kpc, kevents,           \* the child: place, events reported
  ws, term, shell,        \* its ws, the size of its terminal, the shell
  line                    \* keys on their way to the shell and back

vars == <<load, backlog, conn, spc, named, sessions, zombies, pending, stops, cpc,
          cevents, caught, size, snap, wire, conf, kpc, kevents, ws, term, shell, line>>
server  == <<load, backlog, conn, spc, named, sessions>>
reaping == <<zombies, pending, stops>>
client  == <<cpc, cevents, caught, size, snap>>
child   == <<kpc, kevents, ws, term, shell>>

Clients == 1..NumClients
Stages == {"keys", "up", "tty", "out", "down", "shown"}

Init ==
  /\ load \in Loads
  /\ backlog = <<>> /\ conn = <<>> /\ spc = "accept" /\ named = {} /\ sessions = {}
  /\ zombies = 0 /\ pending = 0 /\ stops = 0
  /\ cpc = [c \in Clients |-> "start"] /\ cevents = [c \in Clients |-> {}]
  /\ caught = [c \in Clients |-> FALSE]
  /\ size = [c \in Clients |-> 0] /\ snap = size /\ conf = size
  /\ wire = [c \in Clients |-> <<>>]
  /\ kpc = [c \in Clients |-> "none"] /\ kevents = cevents /\ shell = kpc
  /\ ws = [c \in Clients |-> <<0, 0>>] /\ term = ws
  /\ line = [c \in Clients |-> [s \in Stages |-> <<>>]]

Set(f, c, v) == [f EXCEPT ![c] = v]

CGone(c) == cpc[c] \in {"done", "dead"}
SvGone(c) == kpc[c] = "gone" \/ (spc = "crashed" /\ kpc[c] = "none")
InLoop(c) == cpc[c] \in {"loop", "enter", "poll", "handle"}
Sizing(c) == cpc[c] \in {"row", "col", "row again", "col again"}

\* The keys of a client, the first one first.
Whole(l) == l["shown"] \o l["down"] \o l["out"] \o l["tty"] \o l["up"] \o l["keys"]
Keys(c) == Whole(line[c])

\* All that is in one stage of a line goes to the next.
Move(c, from, to) ==
  line' = [line EXCEPT ![c][to] = @ \o line[c][from], ![c][from] = <<>>]

-----------------------------------------------------------------------------
(* The client.                                                             *)

\* Clients are numbered in the order in which they connect.
Connect(c, k) ==
  /\ (k = 1 => c <= load.clients) /\ spc # "crashed"
  /\ cpc[c] = IF k = 1 THEN "start" ELSE "second"
  /\ \A d \in 1..c - 1 : cpc[d] # "start"
  /\ cpc' = Set(cpc, c, IF k = 1 THEN "id 1" ELSE "id 2")
  /\ backlog' = Append(backlog, <<c, k>>)
  /\ UNCHANGED <<load, conn, spc, named, sessions, reaping, cevents, caught, size, snap,
                 wire, conf, child, line>>

WriteId(c) ==
  /\ cpc[c] \in {"id 1", "id 2"}
  /\ named' = named \cup {<<c, IF cpc[c] = "id 1" THEN 1 ELSE 2>>}
  /\ cpc' = Set(cpc, c, IF cpc[c] = "id 1" THEN "second" ELSE "size")
  /\ UNCHANGED <<load, backlog, conn, spc, sessions, reaping, cevents, caught, size, snap,
                 wire, conf, child, line>>

\* send_winsize: the size is read once, the row is sent.
SendRow(c) ==
  /\ cpc[c] \in {"size", "size again"}
  /\ cpc' = Set(cpc, c, IF cpc[c] = "size" THEN "row" ELSE "row again")
  /\ snap' = Set(snap, c, size[c]) /\ wire' = Set(wire, c, Append(wire[c], size[c]))
  /\ UNCHANGED <<server, reaping, cevents, caught, size, conf, child, line>>

\* A confirmation: the column follows, or the end of send_winsize; in the loop the
\* flag is reset then.
Confirmed(c) ==
  /\ Sizing(c) /\ conf[c] > 0 /\ conf' = Set(conf, c, conf[c] - 1)
  /\ IF cpc[c] \in {"row", "row again"}
     THEN /\ wire' = Set(wire, c, Append(wire[c], snap[c])) /\ UNCHANGED caught
          /\ cpc' = Set(cpc, c, IF cpc[c] = "row" THEN "col" ELSE "col again")
     ELSE /\ caught' = Set(caught, c, caught[c] /\ cpc[c] = "col")
          /\ cpc' = Set(cpc, c, "loop") /\ UNCHANGED wire
  /\ UNCHANGED <<server, reaping, cevents, size, snap, child, line>>

\* The window changes.  epoll_wait returns with EINTR, and a read that waits for a
\* confirmation fails, which ends the client.
Winch(c) ==
  /\ size[c] < load.sizes /\ (InLoop(c) \/ Sizing(c))
  /\ size' = Set(size, c, size[c] + 1) /\ caught' = Set(caught, c, TRUE)
  /\ \/ cpc[c] # "poll" /\ UNCHANGED cpc
     \/ cpc[c] = "poll" /\ cpc' = Set(cpc, c, "loop")
     \/ Sizing(c) /\ conf[c] = 0 /\ cpc' = Set(cpc, c, "dead")
  /\ UNCHANGED <<server, reaping, cevents, snap, wire, conf, child, line>>

TestFlag(c) ==
  /\ cpc[c] = "loop"
  /\ cpc' = Set(cpc, c, IF caught[c] THEN "size again" ELSE "enter")
  /\ UNCHANGED <<server, reaping, cevents, caught, size, snap, wire, conf, child, line>>

Enter(c) ==
  /\ cpc[c] = "enter" /\ cpc' = Set(cpc, c, "poll")
  /\ UNCHANGED <<server, reaping, cevents, caught, size, snap, wire, conf, child, line>>

CReady(c) ==
  (IF line[c]["keys"] # <<>> THEN {"stdin"} ELSE {}) \cup
  (IF SvGone(c) THEN {"hup"} ELSE IF line[c]["down"] # <<>> THEN {"sv"} ELSE {})

EpollWait(c) ==
  /\ cpc[c] = "poll" /\ CReady(c) # {}
  /\ cevents' = Set(cevents, c, CReady(c)) /\ cpc' = Set(cpc, c, "handle")
  /\ UNCHANGED <<server, reaping, caught, size, snap, wire, conf, child, line>>

\* One event; a server that has hung up ends the client, whatever is left to read.
HandleEvent(c) ==
  /\ cpc[c] = "handle"
  /\ UNCHANGED <<server, reaping, caught, size, snap, wire, conf, child>>
  /\ \/ cevents[c] = {} /\ cpc' = Set(cpc, c, "loop") /\ UNCHANGED <<cevents, line>>
     \/ \E e \in cevents[c] :
        /\ cevents' = Set(cevents, c, cevents[c] \ {e})
        /\ \/ e = "hup" /\ cpc' = Set(cpc, c, "done") /\ UNCHANGED line
           \/ e = "sv" /\ Move(c, "down", "shown") /\ UNCHANGED cpc
           \/ e = "stdin" /\ Move(c, "keys", "up") /\ UNCHANGED cpc

\* Without a server the client fails in connect, write or read.
Fail(c) ==
  /\ \/ cpc[c] \in {"id 1", "second", "id 2"} /\ spc = "crashed"
     \/ Sizing(c) /\ conf[c] = 0 /\ SvGone(c)
  /\ cpc' = Set(cpc, c, "dead")
  /\ UNCHANGED <<server, reaping, cevents, caught, size, snap, wire, conf, child, line>>

Kill(c) ==
  /\ cpc[c] # "start" /\ ~CGone(c) /\ cpc' = Set(cpc, c, "dead")
  /\ UNCHANGED <<server, reaping, cevents, caught, size, snap, wire, conf, child, line>>

Type(c) ==
  /\ InLoop(c) /\ Len(Keys(c)) < load.keys
  /\ line' = [line EXCEPT ![c]["keys"] = Append(@, Len(Keys(c)) + 1)]
  /\ UNCHANGED <<server, reaping, client, wire, conf, child>>

-----------------------------------------------------------------------------
(* The server.                                                             *)

\* The server is not in its handler.
Free == pending = 0

Accept ==
  /\ spc = "accept" /\ Free /\ backlog # <<>>
  /\ conn' = Head(backlog) /\ backlog' = Tail(backlog) /\ spc' = "id"
  /\ UNCHANGED <<load, named, sessions, reaping, client, wire, conf, child, line>>

\* The name is read: it may be in the tree, and then the child is forked, or new.
\* A lookup that misses in a tree that is not empty is the end of the server.
ReadId ==
  LET c == conn[1] IN
  /\ spc = "id" /\ Free /\ (conn \in named \/ CGone(c)) /\ conn' = <<>>
  /\ IF conn \notin named THEN spc' = "accept" /\ UNCHANGED <<sessions, kpc>>
     ELSE IF c \in sessions
     THEN spc' = "accept" /\ sessions' = sessions \ {c} /\ kpc' = Set(kpc, c, "row")
     ELSE IF sessions = {} THEN spc' = "accept" /\ sessions' = {c} /\ UNCHANGED kpc
     ELSE spc' = "crashed" /\ UNCHANGED <<sessions, kpc>>
  /\ UNCHANGED <<load, backlog, named, reaping, client, wire, conf, kevents, ws, term,
                 shell, line>>

\* A SIGCHLD: the handler is called once more, unless a call is due already that has not
\* begun.
Sigchld == pending' \in {n \in 1..2 : pending <= n /\ n <= pending + 1}

\* sigchld_handler waits for one child that ended: it does not return before it has one.
SigchldHandler ==
  /\ pending > 0 /\ spc # "crashed" /\ zombies > 0
  /\ pending' = pending - 1 /\ zombies' = zombies - 1
  /\ UNCHANGED <<server, stops, client, wire, conf, child, line>>

\* A child of the server is stopped, or goes on (SA_NOCLDSTOP is not set).
Stop(c) ==
  /\ kpc[c] \notin {"none", "gone"} /\ stops < load.stops /\ stops' = stops + 1 /\ Sigchld
  /\ UNCHANGED <<server, zombies, client, wire, conf, child, line>>

-----------------------------------------------------------------------------
(* The child.                                                              *)

\* The master is closed, and the shell is sent SIGHUP.
EndChild(c) ==
  /\ kpc' = Set(kpc, c, "gone") /\ shell' = Set(shell, c, "gone")
  /\ zombies' = zombies + 1 /\ Sigchld /\ UNCHANGED stops

\* The child is not in its handler, waiting for a shell that has only stopped.
Goes(c) == shell[c] # "stopped"

\* The handler of SIGCHLD, which the child has from the server: the shell is waited for,
\* and an epoll_wait that it interrupts ends the child, whatever is left to read.
ShellSignal(c) ==
  /\ shell[c] = "dead" /\ kpc[c] # "gone"
  /\ \/ kpc[c] = "wait" /\ EndChild(c)
     \/ /\ kpc[c] # "wait" /\ shell' = Set(shell, c, "gone")
        /\ UNCHANGED <<kpc, reaping>>
  /\ UNCHANGED <<server, client, wire, conf, kevents, ws, term, line>>

\* receive_winsize, one number at a time.
ReceiveNumber(c) ==
  /\ kpc[c] \in {"row", "col"} /\ Goes(c) /\ wire[c] # <<>>
  /\ wire' = Set(wire, c, Tail(wire[c])) /\ conf' = Set(conf, c, conf[c] + 1)
  /\ IF kpc[c] = "row"
     THEN ws' = Set(ws, c, <<Head(wire[c]), ws[c][2]>>) /\ kpc' = Set(kpc, c, "col")
     ELSE ws' = Set(ws, c, <<ws[c][1], Head(wire[c])>>) /\ kpc' = Set(kpc, c, "ioctl")
  /\ UNCHANGED <<server, reaping, client, kevents, term, shell, line>>

ClientLeft(c) ==
  /\ kpc[c] \in {"row", "col"} /\ Goes(c) /\ wire[c] = <<>> /\ CGone(c) /\ EndChild(c)
  /\ UNCHANGED <<server, client, wire, conf, kevents, ws, term, line>>

\* The first size goes to ptyFork, which starts the shell, the others to the ioctl.
SetWinsize(c) ==
  /\ kpc[c] = "ioctl" /\ Goes(c) /\ term' = Set(term, c, ws[c]) /\ kpc' = Set(kpc, c, "handle")
  /\ shell' = Set(shell, c, IF shell[c] = "none" THEN "run" ELSE shell[c])
  /\ UNCHANGED <<server, reaping, client, wire, conf, kevents, ws, line>>

KReady(c) ==
  (IF CGone(c) THEN {"cl hup", "prio hup"}
   ELSE (IF line[c]["up"] # <<>> THEN {"cl"} ELSE {})
        \cup (IF wire[c] # <<>> THEN {"prio"} ELSE {}))
  \cup (IF line[c]["out"] # <<>> \/ shell[c] \in {"dead", "gone"} THEN {"master"} ELSE {})

\* epoll_wait reports two of the three at most.
ChildWait(c) ==
  /\ kpc[c] = "wait" /\ Goes(c)
  /\ \E S \in SUBSET KReady(c) :
     /\ S # {} /\ (Cardinality(S) = 2 \/ S = KReady(c))
     /\ kevents' = Set(kevents, c, S)
  /\ kpc' = Set(kpc, c, "handle")
  /\ UNCHANGED <<server, reaping, client, wire, conf, ws, term, shell, line>>

ChildEvent(c) ==
  /\ kpc[c] = "handle" /\ Goes(c) /\ UNCHANGED <<server, client, wire, conf, ws, term>>
  /\ \/ /\ kevents[c] = {} /\ kpc' = Set(kpc, c, "wait")
        /\ UNCHANGED <<reaping, kevents, shell, line>>
     \/ \E e \in kevents[c] :
        /\ kevents' = Set(kevents, c, kevents[c] \ {e})
        /\ \/ /\ \/ e \in {"cl hup", "prio hup"}
                 \/ e = "master" /\ line[c]["out"] = <<>>
              /\ EndChild(c) /\ UNCHANGED line
           \/ /\ \/ e = "cl" /\ Move(c, "up", "tty")
                 \/ e = "master" /\ line[c]["out"] # <<>> /\ Move(c, "out", "down")
              /\ UNCHANGED <<reaping, kpc, shell>>
           \/ /\ e = "prio" /\ kpc' = Set(kpc, c, "row")
              /\ UNCHANGED <<reaping, shell, line>>

Shell(c) ==
  /\ shell[c] = "run"
  /\ \/ line[c]["tty"] # <<>> /\ Move(c, "tty", "out") /\ UNCHANGED shell
     \/ shell' = Set(shell, c, "dead") /\ UNCHANGED line
     \/ load.stops > 0 /\ shell' = Set(shell, c, "stopped") /\ UNCHANGED line
  /\ UNCHANGED <<server, reaping, client, wire, conf, kpc, kevents, ws, term>>

-----------------------------------------------------------------------------
ClientStep(c) == WriteId(c) \/ Connect(c, 2) \/ SendRow(c) \/ Confirmed(c) \/ TestFlag(c)
                 \/ Enter(c) \/ EpollWait(c) \/ HandleEvent(c) \/ Fail(c)
ChildStep(c) == ReceiveNumber(c) \/ ClientLeft(c) \/ SetWinsize(c) \/ ChildWait(c)
                \/ ChildEvent(c) \/ ShellSignal(c)
Programs == Accept \/ ReadId \/ SigchldHandler
            \/ \E c \in Clients : ClientStep(c) \/ ChildStep(c)
Next == Programs \/ \E c \in Clients :
                      Connect(c, 1) \/ Winch(c) \/ Type(c) \/ Kill(c) \/ Shell(c) \/ Stop(c)

-----------------------------------------------------------------------------
(***************************************************************************)
(* Whoever leaves or stops, and whenever windows change:                   *)
(*   - the handler of SIGCHLD is called no more often than children end,   *)
(*     stop and go on: it waits for a child in vain only if one stopped;   *)
(*   - a client in the tree has no child yet;                              *)
(*   - a terminal has the row and the column of one size, and while client *)
(*     and child are both in their loops it is the one sent last;          *)
(*   - keys and output stay in order, none twice.                          *)
(***************************************************************************)
TelnetIsSound ==
  /\ pending <= zombies + stops
  /\ \A c \in sessions : kpc[c] = "none"
  /\ \A c \in Clients :
       /\ term[c][1] = term[c][2] /\ (kpc[c] = "ioctl" => ws[c][1] = ws[c][2])
       /\ InLoop(c) /\ kpc[c] = "wait" =>
            wire[c] = <<>> /\ conf[c] = 0 /\ term[c] = <<snap[c], snap[c]>>
       /\ \A k \in DOMAIN Keys(c) : Keys(c)[k] = k

\* The lookup of a name never misses in a tree that has others.
StaysUp == spc # "crashed"

\* A client and its child settle: both in their loops with nothing to do, or both gone.
\* Said of a client that is alone, so that no other can end the server, and of a shell
\* that nobody stops.
TelnetSettled == load.clients = 1 /\ load.stops = 0 =>
  \A c \in Clients :
    \/ cpc[c] = "start"
    \/ cpc[c] = "poll" /\ CReady(c) = {} /\ kpc[c] = "wait" /\ KReady(c) = {}
    \/ CGone(c) /\ kpc[c] \in {"none", "gone"}
-----------------------------------------------------------------------------
(***************************************************************************)
(* The invariant from which TelnetIsSound follows (proved in MCProcesses). *)
(***************************************************************************)
Numbers == Int
In(q) == {q[k] : k \in 1..Len(q)}
Once(q) == \A j, k \in 1..Len(q) : j # k => q[j] # q[k]

TelnetTyped ==
  /\ spc \in {"accept", "id", "crashed"} /\ backlog \in Seq(Clients \X {1, 2})
  /\ spc = "id" => conn \in Clients \X {1, 2}
  /\ zombies \in Nat /\ pending \in Nat /\ stops \in Nat /\ sessions \subseteq Clients
  /\ cpc \in [Clients -> {"start", "id 1", "second", "id 2", "size", "row", "col",
                          "size again", "row again", "col again", "loop", "enter",
                          "poll", "handle", "done", "dead"}]
  /\ size \in [Clients -> Numbers] /\ snap \in [Clients -> Numbers]
  /\ wire \in [Clients -> Seq(Numbers)] /\ conf \in [Clients -> Int]
  /\ kpc \in [Clients -> {"none", "row", "col", "ioctl", "handle", "wait", "gone"}]
  /\ kevents \in [Clients -> SUBSET {"cl hup", "prio hup", "cl", "prio", "master"}]
  /\ ws \in [Clients -> Numbers \X Numbers] /\ term \in [Clients -> Numbers \X Numbers]
  /\ line \in [Clients -> [Stages -> Seq(Numbers)]]

\* Connection k of a client, made and not read, or still to be made.
Waiting(c, k) == <<c, k>> \in In(backlog) \/ (spc = "id" /\ conn = <<c, k>>)
ToCome(c, k) == cpc[c] = "start" \/ (k = 2 /\ cpc[c] \in {"id 1", "second"})
Comes(c, k) == Waiting(c, k) \/ ToCome(c, k)

QueueInv ==
  /\ Once(backlog) /\ (spc = "id" => conn \notin In(backlog))
  /\ \A c \in Clients, k \in {1, 2} : Waiting(c, k) => ~ToCome(c, k)

\* A client in the tree has one connection left at most, one with a child has none: a
\* child is forked once.
ForkOnce(c) ==
  /\ c \in sessions => kpc[c] = "none" /\ ~(Comes(c, 1) /\ Comes(c, 2))
  /\ kpc[c] # "none" => ~Comes(c, 1) /\ ~Comes(c, 2)

\* The child has the size that was sent last, or is about to set it.
Settled(c) ==
  \/ kpc[c] = "ioctl" /\ ws[c] = <<snap[c], snap[c]>>
  \/ kpc[c] \in {"handle", "wait", "gone"} /\ term[c] = <<snap[c], snap[c]>>

\* Row and column, each confirmed: one number at most is on its way, and the child
\* reads as row what was sent as row.
SizeInv(c) ==
  /\ term[c][1] = term[c][2] /\ wire[c] \in {<<>>, <<snap[c]>>}
  /\ kpc[c] = "col" => ws[c][1] = snap[c]
  /\ kpc[c] = "ioctl" => ws[c][1] = ws[c][2]
  /\ "prio" \in kevents[c] => kpc[c] \in {"handle", "gone"} /\ wire[c] # <<>>
  /\ cpc[c] \in {"start", "id 1", "second", "id 2", "size"} =>
       wire[c] = <<>> /\ conf[c] = 0 /\ kpc[c] \in {"none", "row"}
  /\ cpc[c] \in {"row", "row again"} =>
       IF kpc[c] = "col" THEN wire[c] = <<>> /\ conf[c] = 1
       ELSE wire[c] = <<snap[c]>> /\ conf[c] = 0
  /\ cpc[c] \in {"col", "col again"} =>
       \/ kpc[c] = "col" /\ wire[c] = <<snap[c]>> /\ conf[c] = 0
       \/ Settled(c) /\ wire[c] = <<>> /\ conf[c] = 1
  /\ InLoop(c) \/ cpc[c] = "size again" =>
       Settled(c) /\ wire[c] = <<>> /\ conf[c] = 0

\* Which stage follows which, the last one first.
Follows(to, from) ==
  \/ from = "keys" /\ to = "up"
  \/ from = "up" /\ to = "tty"
  \/ from = "tty" /\ to = "out"
  \/ from = "out" /\ to = "down"
  \/ from = "down" /\ to = "shown"

Counted(s) == \A k \in DOMAIN s : s[k] = k

TelnetInv ==
  /\ TelnetTyped /\ QueueInv
  /\ pending <= zombies + stops
  /\ \A c, d \in sessions : c = d
  /\ \A c \in Clients : ForkOnce(c) /\ SizeInv(c) /\ Counted(Keys(c))
=============================================================================
