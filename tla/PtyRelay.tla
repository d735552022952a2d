------------------------------ MODULE PtyRelay -------------------------------
(***************************************************************************)
(* 64_Pseudoterminals: programs that run another one on a pseudoterminal   *)
(* and pass bytes between it and the terminal they were started on.        *)
(* better_script.c and unbuffer.c are one process that waits for both      *)
(* sides, fork_script.c is two processes, and drivi.c sends the commands   *)
(* of a script and reads nothing.                                          *)
(*                                                                         *)
(* The bytes typed are numbered.  The pty keeps all N of them on their way *)
(* to the child if need be, and QOut on the way back.  Left out: window    *)
(* sizes; a failing call other than fork and a write to the typescript;    *)
(* signals; what drivi rejects as syntax.                                  *)
(***************************************************************************)
EXTENDS Integers, Sequences, SequencesExt

CONSTANTS N, QOut

VARIABLES
  tool,
  typed, unread,    \* bytes typed so far, and those not read from the terminal
  eof,              \* the terminal has hung up
  toSlave, toMaster,
  child,            \* "fork", "run", "write", "gone"
  got, wrote,       \* bytes the child has taken from the pty, and written
  shown, script,    \* bytes in the terminal's output and in the typescript
  term,             \* the mode of the terminal: "cooked" or "raw"
  ready,            \* descriptors select or epoll_wait has reported
  rpc, kpc          \* the relay, and the process fork_script.c forks

vars == <<tool, typed, unread, eof, toSlave, toMaster, child, got, wrote, shown,
          script, term, ready, rpc, kpc>>
user == <<typed, unread, eof>>
slave == <<child, got, wrote>>
outputs == <<shown, script>>

Scripts == {"better_script", "fork_script"}

Init ==
  /\ tool \in Scripts \cup {"unbuffer", "drivi"}
  /\ typed = 0 /\ unread = <<>> /\ eof = FALSE
  /\ toSlave = <<>> /\ toMaster = <<>> /\ child = "fork" /\ got = <<>> /\ wrote = <<>>
  /\ shown = <<>> /\ script = <<>> /\ term = "cooked" /\ ready = {}
  /\ rpc = "start" /\ kpc = "none"

Over == rpc \in {"done", "failed"}

-----------------------------------------------------------------------------
\* The user, and drivi.c's script file, which is read to its end at once.
Type ==
  /\ typed < N /\ ~eof /\ ~Over
  /\ typed' = typed + 1 /\ unread' = Append(unread, typed + 1)
  /\ UNCHANGED <<tool, eof, toSlave, toMaster, slave, outputs, term, ready, rpc, kpc>>

HangUp ==
  /\ ~eof /\ ~Over /\ tool # "drivi" /\ eof' = TRUE
  /\ UNCHANGED <<tool, typed, unread, toSlave, toMaster, slave, outputs, term, ready,
                 rpc, kpc>>

\* The child of ptyFork opens the slave and execs.
Exec ==
  /\ child = "fork" /\ rpc # "start" /\ child' = "run"
  /\ UNCHANGED <<tool, user, toSlave, toMaster, got, wrote, outputs, term, ready, rpc,
                 kpc>>

\* The program on the slave reads a byte, and may have one to write for it; drivi's
\* ends after the last command.
Rest(b) == IF tool = "drivi" /\ b = N THEN "gone" ELSE "run"

Work ==
  /\ child = "run" /\ toSlave # <<>>
  /\ got' = Append(got, Head(toSlave)) /\ toSlave' = Tail(toSlave)
  /\ child' \in {"write", Rest(Head(toSlave))}
  /\ UNCHANGED <<tool, user, toMaster, wrote, outputs, term, ready, rpc, kpc>>

\* drivi.c: while ex warns of a swap file the commands it has not read are discarded.
Discard ==
  /\ tool = "drivi" /\ child = "run" /\ toSlave # <<>>
  /\ got' = Append(got, Head(toSlave)) /\ toSlave' = Tail(toSlave)
  /\ UNCHANGED <<tool, user, toMaster, child, wrote, outputs, term, ready, rpc, kpc>>

\* It waits while the pty is full.
Reply ==
  /\ child = "write" /\ Len(toMaster) < QOut
  /\ toMaster' = Append(toMaster, Last(got)) /\ wrote' = Append(wrote, Last(got))
  /\ child' = Rest(Last(got))
  /\ UNCHANGED <<tool, user, toSlave, got, outputs, term, ready, rpc, kpc>>

ChildExits ==
  /\ child \in {"run", "write"} /\ tool # "drivi" /\ child' = "gone"
  /\ UNCHANGED <<tool, user, toSlave, toMaster, got, wrote, outputs, term, ready, rpc,
                 kpc>>

-----------------------------------------------------------------------------
\* exit runs ttyReset; so do fatal and errExit.  That of better_script.c first writes
\* the time to the typescript, and if this fails exits before tcsetattr.
ExitRelay(status) ==
  \/ rpc' = status /\ term' = "cooked"
  \/ tool = "better_script" /\ rpc' = "failed" /\ UNCHANGED term

\* ptyFork, then ttySetRaw and atexit.  fork_script.c forks between the two.
Start ==
  /\ rpc = "start"
  /\ IF tool = "drivi" THEN rpc' = "in" /\ UNCHANGED <<term, kpc>>
     ELSE IF tool = "fork_script"
     THEN /\ term' = "raw"
          /\ \/ rpc' = "out" /\ kpc' = "read"
             \/ rpc' = "no fork" /\ UNCHANGED kpc
     ELSE term' = "raw" /\ rpc' = "wait" /\ UNCHANGED kpc
  /\ UNCHANGED <<tool, user, toSlave, toMaster, slave, outputs, ready>>

StdinReady  == unread # <<>> \/ eof
MasterReady == toMaster # <<>> \/ child = "gone"

\* select or epoll_wait.
Wait ==
  /\ rpc = "wait" /\ (StdinReady \/ MasterReady)
  /\ ready' = {d \in {"stdin", "master"} :
                 IF d = "stdin" THEN StdinReady ELSE MasterReady}
  /\ rpc' = "in"
  /\ UNCHANGED <<tool, user, toSlave, toMaster, slave, outputs, term, kpc>>

\* read from the terminal and write to the master, which fails without a slave.
\* At the end of the input better_script.c exits; unbuffer.c does not look.
CopyIn ==
  /\ rpc = "in" /\ tool \in {"better_script", "unbuffer"}
  /\ ready' = ready \ {"stdin"}
  /\ IF "stdin" \notin ready
     THEN rpc' = "out" /\ UNCHANGED <<unread, toSlave, term>>
     ELSE IF unread = <<>>
     THEN /\ IF tool = "better_script" THEN ExitRelay("done")
             ELSE rpc' = "out" /\ UNCHANGED term
          /\ UNCHANGED <<unread, toSlave>>
     ELSE IF child = "gone"
     THEN ExitRelay("failed") /\ unread' = <<>> /\ UNCHANGED toSlave
     ELSE /\ toSlave' = toSlave \o unread /\ unread' = <<>>
          /\ rpc' = "out" /\ UNCHANGED term
  /\ UNCHANGED <<tool, typed, eof, toMaster, slave, outputs, kpc>>

\* read from the master, and write to the terminal and the typescript: a failing
\* write to the latter is fatal.  The read fails once the slave is closed and all
\* is read; fork_script.c then has the other process to end.
CopyOut ==
  /\ rpc = "out"
  /\ IF tool = "fork_script" THEN MasterReady /\ UNCHANGED ready
     ELSE ready' = {}
  /\ IF tool # "fork_script" /\ "master" \notin ready
     THEN rpc' = "wait" /\ UNCHANGED <<toMaster, outputs, term>>
     ELSE IF toMaster = <<>>
     THEN /\ IF tool = "fork_script" THEN rpc' = "kill" /\ UNCHANGED term
             ELSE ExitRelay("done")
          /\ UNCHANGED <<toMaster, outputs>>
     ELSE /\ shown' = shown \o toMaster /\ toMaster' = <<>>
          /\ \/ /\ tool \in Scripts /\ ExitRelay("failed") /\ UNCHANGED script
             \/ /\ script' = IF tool \in Scripts THEN shown' ELSE script
                /\ rpc' = (IF tool = "fork_script" THEN "out" ELSE "wait")
                /\ UNCHANGED term
  /\ UNCHANGED <<tool, user, toSlave, slave, kpc>>

\* fork_script.c: the process that reads from the terminal.
ReadStdin ==
  /\ kpc = "read" /\ StdinReady
  /\ IF unread = <<>> \/ child = "gone"
     THEN kpc' = "zombie" /\ UNCHANGED toSlave
     ELSE toSlave' = toSlave \o unread /\ UNCHANGED kpc
  /\ unread' = <<>>
  /\ UNCHANGED <<tool, typed, eof, toMaster, slave, outputs, term, ready, rpc>>

\* Mutant: fork_script.c exits without kill and waitpid.
ExitAtOnce ==
  /\ rpc = "kill" /\ ExitRelay("done")
  /\ UNCHANGED <<tool, user, toSlave, toMaster, slave, outputs, ready, kpc>>

\* kill, waitpid and exit.
KillReader ==
  /\ rpc = "kill" /\ kpc' = "reaped" /\ ExitRelay("done")
  /\ UNCHANGED <<tool, user, toSlave, toMaster, slave, outputs, ready>>

\* drivi.c writes its commands to the master, a line at a time.
Command ==
  /\ tool = "drivi" /\ rpc = "in" /\ unread # <<>>
  /\ toSlave' = Append(toSlave, Head(unread)) /\ unread' = Tail(unread)
  /\ rpc' = IF Head(unread) = N THEN "hup" ELSE "in"
  /\ UNCHANGED <<tool, typed, eof, toMaster, slave, outputs, term, ready, kpc>>

\* epoll_wait for EPOLLHUP.
Hup ==
  /\ tool = "drivi" /\ rpc = "hup" /\ child = "gone" /\ rpc' = "done"
  /\ UNCHANGED <<tool, user, toSlave, toMaster, slave, outputs, term, ready, kpc>>

Relay == Start \/ Wait \/ CopyIn \/ CopyOut \/ KillReader \/ Command \/ Hup
Child == Exec \/ Work \/ Reply
Next == Type \/ HangUp \/ Child \/ Discard \/ ChildExits \/ Relay \/ ReadStdin

-----------------------------------------------------------------------------
(***************************************************************************)
(* The child reads what was typed, in order; the terminal shows what the   *)
(* child wrote, in order, and the typescript records what it shows.  A     *)
(* relay that ends in success after the child has lost none of its output, *)
(* has put the terminal back and left no process behind; the others than   *)
(* better_script.c put it back when they fail, too.  drivi.c does not end, *)
(* which would hang up on ex, before ex has come to its last command.      *)
(***************************************************************************)
RelayIsFaithful ==
  /\ got \o toSlave = [i \in 1..Len(got) + Len(toSlave) |-> i]
  /\ shown \o toMaster = wrote /\ IsPrefix(script, shown)
  /\ tool \in Scripts /\ ~Over => script = shown
  /\ rpc = "done" => term = "cooked"
  /\ Over /\ tool # "better_script" => term = "cooked"
  /\ rpc = "done" /\ child = "gone" /\ ~eof /\ tool # "drivi" => shown = wrote
  /\ rpc = "done" /\ tool = "fork_script" => kpc = "reaped"
  /\ rpc = "done" /\ tool = "drivi" => child = "gone" /\ Len(got) = N

\* What a relay comes to when its child has ended, if it got as far as the loop.
ChildGone == child = "gone"
RelayEnded == Over \/ rpc = "no fork"

\* What drivi.c comes to, unless ex waits for someone to read what it writes, or its
\* last command was discarded.
DriviEnded ==
  tool = "drivi" => \/ rpc = "done"
                    \/ Len(toMaster) = QOut
                    \/ child = "run" /\ Len(got) = N

-----------------------------------------------------------------------------
(***************************************************************************)
(* The invariant from which RelayIsFaithful follows (proved in             *)
(* MCProcesses).                                                           *)
(***************************************************************************)

\* The bytes; which numbers they are matters to no step.
Values == Int

\* The first n bytes typed.
Upto(n) == [i \in 1..n |-> i]

\* What has not been lost on its way to the child is in order; the bytes typed after a
\* relay's end, or behind a reader that ended, are not sent.
Passing == IF tool = "fork_script" THEN kpc \in {"none", "read"} ELSE ~Over

RelayTyped ==
  /\ tool \in Scripts \cup {"unbuffer", "drivi"}
  /\ typed \in Nat /\ unread \in Seq(Values) /\ eof \in BOOLEAN
  /\ toSlave \in Seq(Values) /\ toMaster \in Seq(Values)
  /\ child \in {"fork", "run", "write", "gone"}
  /\ got \in Seq(Values) /\ wrote \in Seq(Values)
  /\ shown \in Seq(Values) /\ script \in Seq(Values)
  /\ term \in {"cooked", "raw"} /\ ready \subseteq {"stdin", "master"}
  /\ rpc \in {"start", "wait", "in", "out", "no fork", "kill", "hup", "done", "failed"}
  /\ kpc \in {"none", "read", "zombie", "reaped"}

InputInOrder ==
  /\ got \o toSlave = Upto(Len(got \o toSlave))
  /\ Passing => (got \o toSlave) \o unread = Upto(typed)
  /\ child = "write" => got # <<>>
  /\ tool = "drivi" /\ child = "gone" => Len(got) = N

OutputInOrder ==
  /\ shown \o toMaster = wrote
  /\ tool \notin Scripts => script = <<>>
  /\ tool \in Scripts /\ ~Over => script = shown
  /\ IsPrefix(script, shown)

\* What the relay knows where it is.
RelayKnows ==
  /\ rpc = "done" => term = "cooked"
  /\ Over /\ tool # "better_script" => term = "cooked"
  /\ tool # "fork_script" => kpc = "none" /\ rpc \notin {"kill", "no fork"}
  /\ tool = "fork_script" => /\ rpc = "start" => kpc = "none"
                             /\ rpc = "done" => kpc = "reaped"
                             /\ rpc \notin {"wait", "in"}
  /\ tool = "drivi" => rpc \in {"start", "in", "hup", "done"} /\ term = "cooked"
  /\ tool # "drivi" => rpc # "hup"
  /\ tool \in {"drivi", "fork_script"} => ready = {}
  /\ "stdin" \in ready => unread # <<>> \/ eof
  /\ "master" \in ready => toMaster # <<>> \/ child = "gone"
  /\ rpc = "kill" => child = "gone" /\ toMaster = <<>>
  /\ rpc = "done" /\ tool = "drivi" => child = "gone"
  /\ rpc = "done" /\ ~eof /\ tool # "drivi" => child = "gone" /\ toMaster = <<>>

RelayInv == RelayTyped /\ InputInOrder /\ OutputInOrder /\ RelayKnows
=============================================================================
