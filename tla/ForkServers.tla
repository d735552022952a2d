----------------------------- MODULE ForkServers ------------------------------
(***************************************************************************)
(* Servers that fork a child for each connection: inetd_echo_sv.c of       *)
(* chapter 60, which counts its children and takes no more than a few, and *)
(* is_shell_sv.c of chapter 61, which has a shell execute what the client  *)
(* sends; with their clients is_echo_cl.c and is_shell_cl.c.               *)
(*                                                                         *)
(* A client has a few pieces to send, and each piece comes back.  The      *)
(* server is about to call accept ("enter") or blocked in it ("accept"):   *)
(* only there does a signal make it look again.  inetd_echo_sv.c does not  *)
(* set sa_flags, so accept may be restarted and not return; that it holds  *)
(* no other flag is assumed.  Left out: becomeDaemon; inetd's -i; fork and *)
(* accept that fail.                                                       *)
(***************************************************************************)
EXTENDS Integers, Sequences, FiniteSets

CONSTANTS
  NumClients,          \* the clients there may be
  Connects,            \* for each server, the clients that connect,
  Pieces, MaxKills,    \* what each may have to send, and how many are killed
  Limit                \* children inetd_echo_sv.c may have at a time

VARIABLES
  tool,
  backlog,      \* clients connected, not accepted
  spc,          \* "top", "reap", "enter", "accept" or "exited"
  caught,       \* sigchild_caught, or sigint_caught
  pending,      \* a SIGCHLD on its way to the server
  child_count,
  ints,         \* SIGINTs so far
  kpc,          \* each client's child; "leaked": its connection is kept, unserved
  cpc,          \* each client
  sent, fin,    \* what it has sent, and that it sends no more
  cmd, got      \* what its child has read, and what has come back to it

vars == <<tool, backlog, spc, caught, pending, child_count, ints, kpc, cpc, sent, fin,
          cmd, got>>
Clients == 1..NumClients
server == <<backlog, spc, caught, child_count>>
client == <<cpc, sent, fin>>

Init ==
  /\ tool \in {"inetd_echo", "is_shell"} /\ backlog = <<>> /\ spc = "top"
  /\ caught = FALSE /\ pending = FALSE /\ child_count = 0 /\ ints = 0
  /\ kpc = [c \in Clients |-> "none"] /\ cpc = [c \in Clients |-> "start"]
  /\ fin = [c \in Clients |-> FALSE]
  /\ sent = [c \in Clients |-> 0] /\ cmd = sent /\ got = sent

Set(f, c, v) == [f EXCEPT ![c] = v]
Zombies == {c \in Clients : kpc[c] = "zombie"}
Forked  == {c \in Clients : kpc[c] \in {"read", "run", "sleep", "zombie"}}

-----------------------------------------------------------------------------
\* Clients are numbered in the order in which they connect.
Connect(c) ==
  /\ c <= Connects[tool]
  /\ cpc[c] = "start" /\ spc # "exited" /\ \A d \in 1..c - 1 : cpc[d] # "start"
  /\ cpc' = Set(cpc, c, "write") /\ backlog' = Append(backlog, c)
  /\ UNCHANGED <<tool, spc, caught, pending, child_count, ints, kpc, sent, fin, cmd, got>>

\* is_shell_cl.c writes the command at once; a short write ends it.
WriteCommand(c) ==
  /\ tool = "is_shell" /\ cpc[c] = "write"
  /\ \E n \in 1..Pieces[tool] :
       /\ sent' = Set(sent, c, n)
       /\ cpc' = Set(cpc, c, IF n = Pieces[tool] THEN "read" ELSE "failed")
  /\ fin' = Set(fin, c, TRUE)
  /\ UNCHANGED <<tool, server, pending, ints, kpc, cmd, got>>

\* is_echo_cl.c copies its input, which may end early, then shuts the socket down;
\* a child of its own reads what comes back.
WriteInput(c) ==
  /\ tool = "inetd_echo" /\ cpc[c] = "write"
  /\ \/ /\ sent[c] < Pieces[tool] /\ sent' = Set(sent, c, sent[c] + 1)
        /\ UNCHANGED <<cpc, fin>>
     \/ cpc' = Set(cpc, c, "read") /\ fin' = Set(fin, c, TRUE) /\ UNCHANGED sent
  /\ UNCHANGED <<tool, server, pending, ints, kpc, cmd, got>>

\* End of file: the child has exited, or the server, before the connection was taken.
EndOfFile(c) ==
  /\ cpc[c] = "read"
  /\ kpc[c] \in {"zombie", "reaped"} \/ (spc = "exited" /\ kpc[c] = "none")
  /\ cpc' = Set(cpc, c, "done")
  /\ UNCHANGED <<tool, server, pending, ints, kpc, sent, fin, cmd, got>>

Kill(c) ==
  /\ cpc[c] \in {"write", "read"} /\ cpc' = Set(cpc, c, "killed")
  /\ Cardinality({d \in Clients : cpc[d] = "killed"}) < MaxKills[tool]
  /\ fin' = Set(fin, c, TRUE)
  /\ UNCHANGED <<tool, server, pending, ints, kpc, sent, cmd, got>>

-----------------------------------------------------------------------------
(* The child.                                                              *)

Child(c) == UNCHANGED <<tool, server, ints, client>>
Exit(c) == kpc' = Set(kpc, c, "zombie") /\ pending' = TRUE

\* handleRequest: what is read goes back; a client that is gone may make write fail.
Echo(c) ==
  /\ tool = "inetd_echo" /\ kpc[c] = "read" /\ cmd[c] < sent[c] /\ Child(c)
  /\ cmd' = Set(cmd, c, cmd[c] + 1)
  /\ \/ cpc[c] # "killed" /\ got' = Set(got, c, got[c] + 1) /\ UNCHANGED <<kpc, pending>>
     \/ cpc[c] = "killed" /\ UNCHANGED <<kpc, pending, got>>
     \/ cpc[c] = "killed" /\ Exit(c) /\ UNCHANGED got

\* handle_request: the command is collected.
Collect(c) ==
  /\ tool = "is_shell" /\ kpc[c] = "read" /\ cmd[c] < sent[c] /\ Child(c)
  /\ cmd' = Set(cmd, c, cmd[c] + 1) /\ UNCHANGED <<kpc, pending, got>>

\* The end of the input: system, or sleep.
EndOfInput(c) ==
  /\ kpc[c] = "read" /\ cmd[c] = sent[c] /\ fin[c] /\ Child(c)
  /\ kpc' = Set(kpc, c, IF tool = "is_shell" THEN "run" ELSE "sleep")
  /\ UNCHANGED <<pending, cmd, got>>

\* The shell writes a piece for each piece of the command to the socket.
Run(c) ==
  /\ kpc[c] = "run" /\ got[c] < cmd[c] /\ cpc[c] = "read" /\ Child(c)
  /\ got' = Set(got, c, got[c] + 1) /\ UNCHANGED <<kpc, pending, cmd>>

\* It is done, or killed: nobody reads, or SIGINT.
Done(c) ==
  /\ \/ kpc[c] = "sleep"
     \/ kpc[c] = "run" /\ (got[c] = cmd[c] \/ cpc[c] # "read" \/ ints > 0)
  /\ Exit(c) /\ Child(c) /\ UNCHANGED <<cmd, got>>

-----------------------------------------------------------------------------
(* The server.                                                             *)

\* The flag of SIGCHLD is tested and reset; is_shell_sv.c has nothing to test here.
Top ==
  /\ spc = "top"
  /\ UNCHANGED <<tool, backlog, pending, child_count, ints, kpc, client, cmd, got>>
  /\ IF tool = "inetd_echo" /\ caught THEN caught' = FALSE /\ spc' = "reap"
     ELSE spc' = "enter" /\ UNCHANGED caught

\* Mutant: one child is waited for, and not all that have ended.
ReapOne ==
  /\ spc = "reap" /\ spc' = "enter"
  /\ UNCHANGED <<tool, backlog, caught, pending, ints, client, cmd, got>>
  /\ \/ \E c \in Zombies : /\ kpc' = Set(kpc, c, "reaped")
                           /\ child_count' = IF child_count > 0 THEN child_count - 1
                                             ELSE child_count
     \/ Zombies = {} /\ UNCHANGED <<kpc, child_count>>

\* waitpid with WNOHANG, one child at a time.
Reap ==
  /\ spc = "reap" /\ UNCHANGED <<tool, backlog, caught, pending, ints, client, cmd, got>>
  /\ \/ \E c \in Zombies : /\ kpc' = Set(kpc, c, "reaped")
                           /\ child_count' = IF child_count > 0 THEN child_count - 1
                                             ELSE child_count
        /\ UNCHANGED spc
     \/ Zombies = {} /\ spc' = "enter" /\ UNCHANGED <<kpc, child_count>>

Block ==
  /\ spc = "enter" /\ backlog = <<>> /\ spc' = "accept"
  /\ UNCHANGED <<tool, backlog, caught, pending, child_count, ints, kpc, client, cmd, got>>

\* A connection over the limit is neither served nor closed.
Accept ==
  /\ spc \in {"enter", "accept"} /\ backlog # <<>>
  /\ backlog' = Tail(backlog) /\ spc' = "top"
  /\ IF tool = "is_shell" \/ child_count < Limit
     THEN /\ kpc' = Set(kpc, Head(backlog), "read")
          /\ child_count' = IF tool = "is_shell" THEN child_count ELSE child_count + 1
     ELSE kpc' = Set(kpc, Head(backlog), "leaked") /\ UNCHANGED child_count
  /\ UNCHANGED <<tool, caught, pending, ints, client, cmd, got>>

\* accept fails with EINTR; is_shell_sv.c exits if SIGINT has been caught.
Interrupted(int) ==
  IF spc # "accept" THEN UNCHANGED spc
  ELSE \/ tool = "is_shell" /\ int /\ spc' = "exited"
       \/ ~(tool = "is_shell" /\ int) /\ spc' = "top"
       \/ tool = "inetd_echo" /\ UNCHANGED spc

\* grimReaper sets the flag, sigchild_handler waits for all that have ended.
SigchldHandler ==
  /\ pending /\ spc # "exited" /\ pending' = FALSE /\ Interrupted(caught)
  /\ IF tool = "inetd_echo" THEN caught' = TRUE /\ UNCHANGED kpc
     ELSE /\ kpc' = [c \in Clients |-> IF c \in Zombies THEN "reaped" ELSE kpc[c]]
          /\ UNCHANGED caught
  /\ UNCHANGED <<tool, backlog, child_count, ints, client, cmd, got>>

\* SIGINT for is_shell_sv.c alone, or from the terminal for its children too: a child
\* that reads fails.
Sigint ==
  /\ tool = "is_shell" /\ ints = 0 /\ spc # "exited" /\ ints' = 1
  /\ caught' = TRUE /\ Interrupted(TRUE)
  /\ \/ UNCHANGED <<kpc, pending>>
     \/ LET hit == {c \in Clients : kpc[c] = "read"} IN
        /\ kpc' = [c \in Clients |-> IF c \in hit THEN "zombie" ELSE kpc[c]]
        /\ pending' = (pending \/ hit # {})
  /\ UNCHANGED <<tool, backlog, child_count, client, cmd, got>>

-----------------------------------------------------------------------------
Server == Top \/ Reap \/ Block \/ Accept
Children == \E c \in Clients : Echo(c) \/ Collect(c) \/ EndOfInput(c) \/ Run(c) \/ Done(c)
Readers == \E c \in Clients : WriteCommand(c) \/ WriteInput(c) \/ EndOfFile(c)
Next == Server \/ SigchldHandler \/ Sigint \/ Children \/ Readers
        \/ \E c \in Clients : Connect(c) \/ Kill(c)

-----------------------------------------------------------------------------
(***************************************************************************)
(* Whatever signals arrive, and between which steps:                       *)
(*   - inetd_echo_sv.c's count is that of the children it has not waited   *)
(*     for, so it never has more than the limit;                           *)
(*   - a child that has ended has a signal or the flag to tell of it;      *)
(*   - a command is executed whole, but for a client that failed or was    *)
(*     killed, and a client that is through has all of it back, but for    *)
(*     SIGINT.                                                             *)
(***************************************************************************)
ServersAreSound ==
  /\ tool = "inetd_echo" => child_count = Cardinality(Forked) /\ child_count <= Limit
  /\ Zombies # {} =>
       pending \/ spc \in {"reap", "exited"} \/ (tool = "inetd_echo" /\ caught)
  /\ \A c \in Clients :
       /\ tool = "is_shell" /\ kpc[c] = "run" =>
            cmd[c] = Pieces[tool] \/ cpc[c] \in {"failed", "killed"}
       /\ cpc[c] = "done" /\ ints = 0 => got[c] = sent[c]

\* A client that waits for an answer gets it sooner or later, unless it was over the
\* limit: nobody waits.
ClientsDone == \A c \in Clients : cpc[c] = "read" => kpc[c] = "leaked"

-----------------------------------------------------------------------------
(***************************************************************************)
(* The invariant from which ServersAreSound follows (proved in             *)
(* MCProcesses).                                                           *)
(***************************************************************************)
Living == {"read", "run", "sleep", "zombie"}
In(q) == {q[k] : k \in 1..Len(q)}
Once(q) == \A j, k \in 1..Len(q) : j # k => q[j] # q[k]

ForkTyped ==
  /\ tool \in {"inetd_echo", "is_shell"} /\ backlog \in Seq(Clients)
  /\ spc \in {"top", "reap", "enter", "accept", "exited"}
  /\ caught \in BOOLEAN /\ pending \in BOOLEAN
  /\ kpc \in [Clients -> Living \cup {"none", "reaped", "leaked"}]
  /\ cpc \in [Clients -> {"start", "write", "read", "failed", "done", "killed"}]
  /\ fin \in [Clients -> BOOLEAN]
  /\ sent \in [Clients -> Int] /\ cmd \in [Clients -> Int] /\ got \in [Clients -> Int]

\* Who waits to be accepted has connected, once, and has no child.
BacklogInv ==
  /\ Once(backlog)
  /\ \A c \in In(backlog) : kpc[c] = "none" /\ cpc[c] # "start"
  /\ \A c \in Clients : cpc[c] = "start" => kpc[c] = "none"

CountInv ==
  tool = "inetd_echo" => child_count = Cardinality(Forked) /\ child_count <= Limit

\* sigint_caught is of is_shell_sv.c, and so is what it leads to.
SignalInv ==
  /\ Zombies # {} =>
       pending \/ spc \in {"reap", "exited"} \/ (tool = "inetd_echo" /\ caught)
  /\ tool = "is_shell" => spc # "reap" /\ (caught => ints # 0)
  /\ spc = "exited" => tool = "is_shell" /\ ints # 0

\* A client and its child: the child leaves its loop at the end of the input.
ClientInv(c) ==
  /\ cmd[c] <= sent[c]
  /\ fin[c] <=> cpc[c] \notin {"start", "write"}
  /\ tool = "is_shell" =>
       /\ cpc[c] \in {"start", "write"} => sent[c] = 0
       /\ cpc[c] \in {"read", "done"} => sent[c] = Pieces[tool]
  /\ tool = "inetd_echo" /\ cpc[c] # "killed" => got[c] = cmd[c]
  /\ kpc[c] \in {"run", "sleep"} => fin[c] /\ cmd[c] = sent[c]
  /\ kpc[c] = "run" => tool = "is_shell"
  /\ kpc[c] = "sleep" => tool = "inetd_echo"
  /\ kpc[c] \in {"zombie", "reaped"} /\ ints = 0 => fin[c]
  /\ kpc[c] \in {"zombie", "reaped"} /\ cpc[c] \in {"read", "done"} /\ ints = 0 =>
       got[c] = sent[c]
  /\ cpc[c] = "done" /\ ints = 0 => kpc[c] \in {"zombie", "reaped"}

ForkInv ==
  ForkTyped /\ BacklogInv /\ CountInv /\ SignalInv /\ \A c \in Clients : ClientInv(c)
=============================================================================
