-------------------------------- MODULE Pipes ---------------------------------
(***************************************************************************)
(* 44_Pipes_And_FIFOs, the programs made of a parent, its children and a   *)
(* pipe or two: simple_pipe.c, bidir_pipe.c, shell_hookup_process.c,       *)
(* pipe_sync.c and popen_close_imp.c.  Who still has which end open        *)
(* decides whether a reader sees the end of the data or waits for ever.    *)
(* nonblock_open_test.c, which asks a FIFO what O_NONBLOCK does, is here   *)
(* as well: its ends are held by descriptors instead of processes.         *)
(*                                                                         *)
(* A message is a sequence of values; a write of at most Atomic of them is *)
(* not split.  Left out: failing calls other than those on the pipes, and  *)
(* pclose_imp, which no program calls.                                     *)
(***************************************************************************)
EXTENDS Integers, Sequences

CONSTANTS PipeSize, Atomic, BufSize, Message

VARIABLES
  tool,
  pipe,    \* of each pipe, what has been written and not read
  rd, wr,  \* of each pipe, who has its read end and its write end open
  pc,      \* of each process
  msg,     \* what is still to be sent
  out,     \* what has been printed
  answer   \* nonblock_open_test: the outcome, and the number asked for;
           \* popen: how much ls has still to write

vars == <<tool, pipe, rd, wr, pc, msg, out, answer>>

Procs == {"parent", "child", "other"}
PipeNames == {"ptoc", "ctop"}
Tools == {"simple_pipe", "bidir_pipe", "shell_hookup", "pipe_sync", "popen",
          "nonblock_open_test"}

Init ==
  /\ tool \in Tools
  /\ pipe = [q \in PipeNames |-> <<>>]
  /\ rd = [q \in PipeNames |-> {}] /\ wr = rd
  /\ pc = [p \in Procs |-> IF p = "parent" THEN "fork" ELSE "none"]
  /\ msg = Message /\ out = <<>>
  /\ answer \in IF tool = "popen" THEN {<<n>> : n \in 0..PipeSize + 2} ELSE {<<>>}

Go(p, l) == pc' = [pc EXCEPT ![p] = l]

\* Process p closes its read end of pipe q, or its write end.
CloseRead(p, q) == rd' = [rd EXCEPT ![q] = @ \ {p}]
CloseWrite(p, q) == wr' = [wr EXCEPT ![q] = @ \ {p}]

\* A process that ends has its ends closed.
Ends(p) == /\ Go(p, "exited")
           /\ rd' = [q \in PipeNames |-> rd[q] \ {p}]
           /\ wr' = [q \in PipeNames |-> wr[q] \ {p}]

-----------------------------------------------------------------------------
(* What write and read do; without a reader, write is the end of p.        *)

Write(p, q, l) ==
  IF rd[q] = {} THEN Ends(p) /\ UNCHANGED <<pipe, msg>>
  ELSE \E n \in 1..Len(msg) :
       /\ Len(pipe[q]) + n <= PipeSize
       /\ n = Len(msg) \/ Len(msg) > Atomic
       /\ pipe' = [pipe EXCEPT ![q] = @ \o SubSeq(msg, 1, n)]
       /\ msg' = SubSeq(msg, n + 1, Len(msg))
       /\ Go(p, l) /\ UNCHANGED <<rd, wr>>

Received(q, n) ==
  /\ n \in 1..Len(pipe[q])
  /\ pipe' = [pipe EXCEPT ![q] = SubSeq(@, n + 1, Len(@))]

EOF(q) == pipe[q] = <<>> /\ wr[q] = {}

-----------------------------------------------------------------------------
\* The pipes made for the fork of p; p has every end its parent has.
Made(p) == CASE tool = "bidir_pipe" -> PipeNames
             [] tool = "popen" -> IF p = "child" THEN {"ctop"} ELSE {"ptoc"}
             [] OTHER -> IF p = "child" THEN {"ptoc"} ELSE {}

Inherited(ends, p) ==
  [q \in PipeNames |-> IF q \in Made(p) THEN {"parent", p}
                       ELSE IF "parent" \in ends[q] THEN ends[q] \union {p} ELSE ends[q]]

Fork(p, l) ==
  /\ pc["parent"] = "fork" /\ pc[p] = "none"
  /\ p = "other" => pc["child"] # "none"
  /\ rd' = Inherited(rd, p) /\ wr' = Inherited(wr, p)
  /\ pc' = [pc EXCEPT ![p] = "start", !["parent"] = l]
  /\ UNCHANGED <<tool, pipe, msg, out, answer>>

\* The parent waits for the children it has.
WaitChildren ==
  /\ pc["parent"] = "wait" /\ \A p \in Procs \ {"parent"} : pc[p] \in {"none", "exited"}
  /\ Ends("parent") /\ UNCHANGED <<tool, pipe, msg, out, answer>>

\* simple_pipe.c: the parent closes the read end, writes argv[1] piece by piece
\* and closes the write end.
SimpleParent ==
  /\ tool = "simple_pipe" /\ UNCHANGED <<tool, out, answer>>
  /\ \/ /\ pc["parent"] = "close" /\ Go("parent", "write")
        /\ CloseRead("parent", "ptoc") /\ UNCHANGED <<pipe, wr, msg>>
     \/ pc["parent"] = "write" /\ msg # <<>> /\ Write("parent", "ptoc", "write")
     \/ /\ pc["parent"] = "write" /\ msg = <<>> /\ Go("parent", "wait")
        /\ CloseWrite("parent", "ptoc") /\ UNCHANGED <<pipe, rd, msg>>

\* The child closes the write end, prints what comes, and ends with the data.
SimpleChild ==
  /\ tool = "simple_pipe" /\ UNCHANGED <<tool, msg, answer>>
  /\ \/ /\ pc["child"] = "start" /\ Go("child", "read")
        /\ CloseWrite("child", "ptoc") /\ UNCHANGED <<pipe, rd, out>>
     \/ /\ pc["child"] = "read" /\ \E n \in 1..BufSize :
           Received("ptoc", n) /\ out' = out \o SubSeq(pipe["ptoc"], 1, n)
        /\ UNCHANGED <<rd, wr, pc>>
     \/ /\ pc["child"] = "read" /\ EOF("ptoc")
        /\ Ends("child") /\ UNCHANGED <<pipe, out>>

-----------------------------------------------------------------------------
\* bidir_pipe.c: a line is sent, and its answer printed, before the next.
BidirParent ==
  /\ tool = "bidir_pipe" /\ UNCHANGED <<tool, answer>>
  /\ \/ /\ pc["parent"] = "close" /\ Go("parent", "fgets")
        /\ CloseRead("parent", "ptoc") /\ CloseWrite("parent", "ctop")
        /\ UNCHANGED <<pipe, msg, out>>
     \/ /\ pc["parent"] = "fgets" /\ msg # <<>>
        /\ pipe' = [pipe EXCEPT !["ptoc"] = Append(@, Head(msg))] /\ msg' = Tail(msg)
        /\ Go("parent", "read") /\ UNCHANGED <<rd, wr, out>>
     \/ /\ pc["parent"] = "read" /\ Received("ctop", 1)
        /\ out' = Append(out, Head(pipe["ctop"]))
        /\ Go("parent", "fgets") /\ UNCHANGED <<rd, wr, msg>>
     \/ /\ pc["parent"] = "fgets" /\ msg = <<>> /\ Go("parent", "wait")
        /\ CloseWrite("parent", "ptoc") /\ CloseRead("parent", "ctop")
        /\ UNCHANGED <<pipe, msg, out>>

Upper(m) == m + 100

BidirChild ==
  /\ tool = "bidir_pipe" /\ UNCHANGED <<tool, msg, out, answer>>
  /\ \/ /\ pc["child"] = "start" /\ Go("child", "read")
        /\ CloseWrite("child", "ptoc") /\ CloseRead("child", "ctop")
        /\ UNCHANGED pipe
     \/ /\ pc["child"] = "read" /\ pipe["ptoc"] # <<>>
        /\ pipe' = [pipe EXCEPT !["ptoc"] = Tail(@),
                                !["ctop"] = Append(@, Upper(Head(pipe["ptoc"])))]
        /\ UNCHANGED <<rd, wr, pc>>
     \/ pc["child"] = "read" /\ EOF("ptoc") /\ Ends("child") /\ UNCHANGED pipe

-----------------------------------------------------------------------------
\* shell_hookup_process.c: one child is the command before the |, one the command
\* after it; here they send the message and print what they read.
HookupParent ==
  /\ tool = "shell_hookup" /\ pc["parent"] = "close"
  /\ Go("parent", "wait") /\ CloseRead("parent", "ptoc") /\ CloseWrite("parent", "ptoc")
  /\ UNCHANGED <<tool, pipe, msg, out, answer>>

HookupChildren ==
  /\ tool = "shell_hookup" /\ UNCHANGED <<tool, answer>>
  /\ \/ /\ pc["child"] = "start" /\ Go("child", "write")
        /\ CloseRead("child", "ptoc") /\ UNCHANGED <<pipe, wr, msg, out>>
     \/ /\ pc["child"] = "write" /\ msg # <<>> /\ Write("child", "ptoc", "write")
        /\ UNCHANGED out
     \/ /\ pc["child"] = "write" /\ msg = <<>> /\ Ends("child")
        /\ UNCHANGED <<pipe, msg, out>>
     \/ /\ pc["other"] = "start" /\ Go("other", "read")
        /\ CloseWrite("other", "ptoc") /\ UNCHANGED <<pipe, rd, msg, out>>
     \/ /\ pc["other"] = "read" /\ Received("ptoc", 1)
        /\ out' = Append(out, Head(pipe["ptoc"])) /\ UNCHANGED <<rd, wr, pc, msg>>
     \/ /\ pc["other"] = "read" /\ EOF("ptoc") /\ Ends("other")
        /\ UNCHANGED <<pipe, msg, out>>

-----------------------------------------------------------------------------
\* pipe_sync.c: the parent waits in read until every child has closed the pipe.
SyncParent ==
  /\ tool = "pipe_sync" /\ UNCHANGED <<tool, pipe, msg, answer>>
  /\ \/ /\ pc["parent"] = "close" /\ Go("parent", "read")
        /\ CloseWrite("parent", "ptoc") /\ UNCHANGED <<rd, out>>
     \/ /\ pc["parent"] = "read" /\ EOF("ptoc") /\ Go("parent", "wait")
        /\ out' = Append(out, "woke up") /\ UNCHANGED <<rd, wr>>

SyncChild(p) ==
  /\ tool = "pipe_sync" /\ UNCHANGED <<tool, pipe, msg, answer>>
  /\ \/ /\ pc[p] = "start" /\ Go(p, "sleep")
        /\ CloseRead(p, "ptoc") /\ UNCHANGED <<wr, out>>
     \/ /\ pc[p] = "sleep" /\ Go(p, "close")
        /\ out' = Append(out, "finished") /\ UNCHANGED <<rd, wr>>
     \/ pc[p] = "close" /\ Ends(p) /\ UNCHANGED out

-----------------------------------------------------------------------------
\* popen_imp: the shell of "r" has the write end of ctop as its output, the shell
\* of "w" the read end of ptoc as its input.  Both keep what the parent had.
PopenImp(p) ==
  /\ tool = "popen" /\ pc[p] = "start" /\ UNCHANGED <<tool, pipe, msg, out, answer>>
  /\ Go(p, "run")
  /\ IF p = "child" THEN CloseRead(p, "ctop") /\ UNCHANGED wr
     ELSE CloseWrite(p, "ptoc") /\ UNCHANGED rd

\* ls writes to the pipe until it has no more, or nobody could read it; tee prints
\* its input and ends with it.
Ls ==
  /\ tool = "popen" /\ pc["child"] = "run" /\ UNCHANGED <<tool, msg, out>>
  /\ IF answer[1] = 0 \/ rd["ctop"] = {} THEN Ends("child") /\ UNCHANGED <<pipe, answer>>
     ELSE /\ Len(pipe["ctop"]) < PipeSize /\ answer' = <<answer[1] - 1>>
          /\ pipe' = [pipe EXCEPT !["ctop"] = Append(@, 0)]
          /\ UNCHANGED <<rd, wr, pc>>

Tee ==
  /\ tool = "popen" /\ pc["other"] = "run" /\ UNCHANGED <<tool, msg, answer>>
  /\ \/ /\ Received("ptoc", 1)
        /\ out' = Append(out, Head(pipe["ptoc"])) /\ UNCHANGED <<rd, wr, pc>>
     \/ EOF("ptoc") /\ Ends("other") /\ UNCHANGED <<pipe, out>>

\* main: the pipe of ls (in its parent, only the read end is left) is read once;
\* the lines of stdin go to tee; then both pipes are closed.  The pclose called
\* is the library's, which for a stream of popen_imp is fclose.
PopenMain ==
  /\ tool = "popen" /\ UNCHANGED <<tool, answer, out>>
  /\ \/ /\ pc["parent"] = "close" /\ pc["other"] = "none" /\ Go("parent", "read")
        /\ CloseWrite("parent", "ctop") /\ UNCHANGED <<pipe, rd, msg>>
     \/ /\ pc["parent"] = "read"
        /\ \/ Received("ctop", Len(pipe["ctop"]))
           \/ EOF("ctop") /\ UNCHANGED pipe
        /\ Go("parent", "fork") /\ UNCHANGED <<rd, wr, msg>>
     \/ /\ pc["parent"] = "close" /\ pc["other"] # "none" /\ Go("parent", "write")
        /\ CloseRead("parent", "ptoc") /\ UNCHANGED <<pipe, wr, msg>>
     \/ pc["parent"] = "write" /\ msg # <<>> /\ Write("parent", "ptoc", "write")
     \/ pc["parent"] = "write" /\ msg = <<>> /\ Ends("parent") /\ UNCHANGED <<pipe, msg>>

-----------------------------------------------------------------------------
\* nonblock_open_test.c: descriptor main_fd for reading ("r") or writing ("w"), and
\* dummy_fd if the other end is to be open; then the user may have that closed.
OpenNonblock ==
  /\ tool = "nonblock_open_test" /\ pc["parent"] = "fork"
  /\ \E mode \in {"r", "w"}, o \in BOOLEAN :
     IF mode = "w" /\ ~o
     THEN /\ answer' = <<"ENXIO", 0>> /\ Go("parent", "exited") /\ UNCHANGED <<rd, wr, out>>
     ELSE /\ Go("parent", IF o THEN "keep?" ELSE "fill") /\ out' = <<mode>>
          /\ rd' = [rd EXCEPT !["ptoc"] = (IF mode = "r" THEN {"main_fd"} ELSE {})
                                          \union (IF o THEN {"dummy_fd"} ELSE {})]
          /\ wr' = [wr EXCEPT !["ptoc"] = (IF mode = "w" THEN {"main_fd"} ELSE {})
                                          \union (IF o /\ mode = "r" THEN {"dummy_fd"} ELSE {})]
          /\ UNCHANGED answer
  /\ UNCHANGED <<tool, pipe, msg>>

KeepOther ==
  /\ tool = "nonblock_open_test" /\ pc["parent"] = "keep?" /\ Go("parent", "fill")
  /\ \/ UNCHANGED <<rd, wr>>
     \/ CloseRead("dummy_fd", "ptoc") /\ CloseWrite("dummy_fd", "ptoc")
  /\ UNCHANGED <<tool, pipe, msg, out, answer>>

\* Through temp_fd, closed again, the pipe is filled with what the user wants.
FillPipe ==
  /\ tool = "nonblock_open_test" /\ pc["parent"] = "fill" /\ Go("parent", "ask")
  /\ \E n \in 0..PipeSize : pipe' = [pipe EXCEPT !["ptoc"] = [i \in 1..n |-> 1]]
  /\ UNCHANGED <<tool, rd, wr, msg, out, answer>>

\* The read or write of n bytes, and what is said of it.
ReadOutcome(n) ==
  LET have == Len(pipe["ptoc"]) IN
  IF have = 0 /\ wr["ptoc"] # {} /\ n > 0 THEN "EAGAIN"
  ELSE IF have = 0 \/ n = 0 THEN "EOF" ELSE "read"

WriteOutcome(n) ==
  LET room == PipeSize - Len(pipe["ptoc"]) IN
  IF n > 0 /\ rd["ptoc"] = {} THEN "EPIPE"
  ELSE IF n > 0 /\ (room = 0 \/ (n <= Atomic /\ room < n)) THEN "EAGAIN" ELSE "written"

Attempt ==
  /\ tool = "nonblock_open_test" /\ pc["parent"] = "ask" /\ Go("parent", "exited")
  /\ \E n \in 0..PipeSize + 1 :
     answer' = <<IF out = <<"r">> THEN ReadOutcome(n) ELSE WriteOutcome(n), n>>
  /\ UNCHANGED <<tool, pipe, rd, wr, msg, out>>

-----------------------------------------------------------------------------
ParentStep ==
  \/ tool \in {"simple_pipe", "bidir_pipe", "popen"} /\ Fork("child", "close")
  \/ tool \in {"shell_hookup", "pipe_sync"} /\ Fork("child", "fork")
  \/ tool \in {"shell_hookup", "pipe_sync", "popen"} /\ Fork("other", "close")
  \/ SimpleParent \/ BidirParent \/ HookupParent \/ SyncParent \/ PopenMain
  \/ OpenNonblock \/ KeepOther \/ FillPipe \/ Attempt \/ WaitChildren

ChildStep == \/ SimpleChild \/ BidirChild \/ HookupChildren
             \/ SyncChild("child") \/ PopenImp("child") \/ Ls
OtherStep == SyncChild("other") \/ PopenImp("other") \/ Tee
Next == ParentStep \/ ChildStep \/ OtherStep

-----------------------------------------------------------------------------
\* pipe_sync.c: the parent is woken last.
WokenLast == \A i \in 1..Len(out) : out[i] = "woke up" => i = 3

\* nonblock_open_test.c: what is said is said of the state the attempt found.
Told ==
  answer # <<>> /\ answer[2] > 0 =>
    /\ answer[1] = "EOF" => EOF("ptoc")
    /\ answer[1] = "EPIPE" => rd["ptoc"] = {}
    /\ answer[1] = "EAGAIN" => IF out = <<"r">> THEN wr["ptoc"] # {} ELSE rd["ptoc"] # {}

(***************************************************************************)
(* What comes out of a pipe is what went in: simple_pipe, the hookup and   *)
(* tee print a prefix of the message and, once they have ended, all of it; *)
(* bidir_pipe prints the answer to each line.  pipe_sync's parent is woken *)
(* when both children have finished.  And nonblock_open_test explains the  *)
(* outcome with what is the case (for an amount that is not 0).            *)
(***************************************************************************)
PipesDeliver ==
  /\ tool \in {"simple_pipe", "shell_hookup"} =>
       /\ out = SubSeq(Message, 1, Len(out))
       /\ pc["parent"] = "exited" => out = Message
  /\ tool = "popen" => /\ out = SubSeq(Message, 1, Len(out))
                       /\ pc["other"] = "exited" => out = Message
  /\ tool = "bidir_pipe" => out = [i \in 1..Len(out) |-> Upper(Message[i])]
  /\ tool = "pipe_sync" => WokenLast
  /\ tool = "nonblock_open_test" => Told

\* What every program comes to, its children with it.
AllExited == \A p \in Procs : pc[p] \in {"none", "exited"}

-----------------------------------------------------------------------------
(***************************************************************************)
(* The invariant from which PipesDeliver follows (proved in MCProcesses):  *)
(* for each program, where its processes can be, which ends they hold, and *)
(* that nothing is lost between the message and what is printed.           *)
(***************************************************************************)

\* What is sent; which numbers matters to no step.
Values == Int

Places == {"none", "fork", "start", "close", "write", "wait", "read", "exited", "fgets",
           "sleep", "run", "keep?", "fill", "ask"}
Holders == Procs \cup {"main_fd", "dummy_fd"}

PipesTyped ==
  /\ tool \in Tools
  /\ pipe \in [PipeNames -> Seq(Values)]
  /\ rd \in [PipeNames -> SUBSET Holders] /\ wr \in [PipeNames -> SUBSET Holders]
  /\ pc \in [Procs -> Places] /\ msg \in Seq(Values)

\* What has been printed, what is in the pipe and what is still to be sent.
Flow == out \in Seq(Values) /\ (out \o pipe["ptoc"]) \o msg = Message

\* simple_pipe.c: the parent holds the write end until all is written, and the child the
\* read end until it has seen the end of the data.
SimpleInv ==
  /\ Flow /\ pc["other"] = "none"
  /\ pc["parent"] \in {"fork", "close", "write", "wait", "exited"}
  /\ pc["child"] \in {"none", "start", "read", "exited"}
  /\ pc["parent"] = "fork" <=> pc["child"] = "none"
  /\ pc["parent"] \in {"close", "write"} => "parent" \in wr["ptoc"]
  /\ pc["child"] \in {"start", "read"} => "child" \in rd["ptoc"]
  /\ pc["parent"] \in {"wait", "exited"} => msg = <<>>
  /\ pc["child"] = "exited" => pc["parent"] \in {"wait", "exited"} /\ pipe["ptoc"] = <<>>
  /\ pc["parent"] = "exited" => pc["child"] = "exited"

\* shell_hookup_process.c: until both children are there, the parent holds both ends.
HookupInv ==
  /\ Flow
  /\ pc["parent"] \in {"fork", "close", "wait", "exited"}
  /\ pc["child"] \in {"none", "start", "write", "exited"}
  /\ pc["other"] \in {"none", "start", "read", "exited"}
  /\ pc["child"] = "none" => pc["other"] = "none"
  /\ pc["parent"] = "fork" <=> pc["other"] = "none"
  /\ pc["child"] # "none" /\ pc["parent"] \in {"fork", "close"} =>
       "parent" \in rd["ptoc"] /\ "parent" \in wr["ptoc"]
  /\ pc["child"] \in {"start", "write"} => "child" \in wr["ptoc"]
  /\ pc["other"] \in {"start", "read"} => "other" \in rd["ptoc"]
  /\ pc["child"] = "exited" => msg = <<>>
  /\ pc["other"] = "exited" => pc["child"] = "exited" /\ pipe["ptoc"] = <<>>
  /\ pc["parent"] = "exited" => pc["other"] = "exited"

\* popen_close_imp.c: the same of its parent and tee, once tee is there.
PopenInv ==
  /\ Flow
  /\ pc["other"] \in {"none", "start", "run", "exited"}
  /\ pc["parent"] \in IF pc["other"] = "none" THEN {"fork", "close", "read"}
                      ELSE {"close", "write", "exited"}
  /\ pc["other"] # "none" /\ pc["parent"] \in {"close", "write"} => "parent" \in wr["ptoc"]
  /\ pc["other"] \in {"start", "run"} => "other" \in rd["ptoc"]
  /\ pc["parent"] = "exited" => msg = <<>>
  /\ pc["other"] = "exited" => pc["parent"] = "exited" /\ pipe["ptoc"] = <<>>

\* bidir_pipe.c: at most one line, or the answer to it, is on its way.
Sent == Len(Message) - Len(msg)
BidirInv ==
  /\ pc["parent"] \in {"fork", "close", "fgets", "read", "wait", "exited"}
  /\ out = [i \in 1..Len(out) |-> Upper(Message[i])] /\ out \in Seq(Values)
  /\ Len(msg) <= Len(Message) /\ \A i \in 1..Len(msg) : msg[i] = Message[Sent + i]
  /\ pc["parent"] \in {"fork", "close", "fgets"} =>
       Len(out) = Sent /\ pipe["ptoc"] = <<>> /\ pipe["ctop"] = <<>>
  /\ pc["parent"] = "read" =>
       /\ Sent = Len(out) + 1
       /\ \/ pipe["ptoc"] = <<Message[Sent]>> /\ pipe["ctop"] = <<>>
          \/ pipe["ptoc"] = <<>> /\ pipe["ctop"] = <<Upper(Message[Sent])>>

\* pipe_sync.c: what has been printed counts the processes past a place.
Lines == {"woke up", "finished"}
Past(p) == IF pc[p] \in {"close", "exited"} THEN 1 ELSE 0
Woken == IF pc["parent"] \in {"wait", "exited"} THEN 1 ELSE 0
SyncInv ==
  /\ out \in Seq(Lines)
  /\ pc["parent"] \in {"fork", "close", "read", "wait", "exited"}
  /\ \A p \in {"child", "other"} :
       /\ pc[p] \in {"none", "start", "sleep", "close", "exited"}
       /\ pc[p] \in {"start", "sleep", "close"} => p \in wr["ptoc"]
       /\ pc["parent"] \in {"close", "read", "wait", "exited"} => pc[p] # "none"
       /\ pc["parent"] \in {"wait", "exited"} => pc[p] = "exited"
  /\ pc["other"] # "none" => pc["child"] # "none"
  /\ pc["child"] # "none" /\ pc["parent"] \in {"fork", "close"} => "parent" \in wr["ptoc"]
  /\ Len(out) = Past("child") + Past("other") + Woken
  /\ WokenLast

\* nonblock_open_test.c: it is said last.
NonblockInv ==
  /\ pc["child"] = "none" /\ pc["other"] = "none"
  /\ pc["parent"] \in {"fork", "keep?", "fill", "ask", "exited"}
  /\ pc["parent"] # "exited" => answer = <<>>
  /\ Told

PipesInv ==
  /\ PipesTyped
  /\ tool = "simple_pipe" => SimpleInv
  /\ tool = "shell_hookup" => HookupInv
  /\ tool = "popen" => PopenInv
  /\ tool = "bidir_pipe" => BidirInv
  /\ tool = "pipe_sync" => SyncInv
  /\ tool = "nonblock_open_test" => NonblockInv

\* What a write and a read do to the flow, and which line pipe_sync may print next.
Sends == /\ \E n \in 1..Len(msg) : /\ pipe' = [pipe EXCEPT !["ptoc"] = @ \o SubSeq(msg, 1, n)]
                                   /\ msg' = SubSeq(msg, n + 1, Len(msg))
         /\ out' = out
Takes == /\ \E n \in 1..Len(pipe["ptoc"]) :
              /\ pipe' = [pipe EXCEPT !["ptoc"] = SubSeq(@, n + 1, Len(@))]
              /\ out' = out \o SubSeq(pipe["ptoc"], 1, n)
         /\ msg' = msg
MayBeNext(line) == line = "woke up" => Len(out) = 2
=============================================================================
