----------------------------- MODULE MCProcesses ------------------------------
(***************************************************************************)
(* Small programs made of a few processes or threads: the two block        *)
(* transfers of chapters 53 and 54, the SIGCHLD handler of chapter 26, and *)
(* the programs of the chapters on signals, timers, pipes, locks, servers  *)
(* and terminals.  A behaviour runs one of them, chosen at the start.  The *)
(* semaphore transfer has variables of its own; each other program keeps   *)
(* its state in the first slots of x1 to x22 and leaves the rest alone.    *)
(* A program with proofs here is followed by them; the others, the         *)
(* specification of a run, its properties and their theorems come last.    *)
(***************************************************************************)
EXTENDS SemTransfer, DataLemmas, FiniteSetTheorems, TLAPS

CONSTANTS
  NumChildren,           \* sigchild_handler.c: the children main forks
  Retries, FileLen,      \* chapter 55: lockfile_imp.c's retries, FILE_LEN
  MaxClock, MaxSignals,  \* chapter 23: bounds of time and of the SIGINTs sent
  Rounds, SignalsSent,   \* chapters 20 to 22: num-sigs, and what sig_sender.c sends
  PipeSize, Atomic,      \* chapter 44: what a pipe holds, and PIPE_BUF
  BufSize, Message,      \* simple_pipe.c's BUF_SIZE, and what is sent
  NumTyped, QOut,        \* chapter 64: the bytes typed, and what the pty holds
  TcpClients, UdpClients,  \* chapter 63: the clients of echo_sv.c
  NumClients, Limit,     \* those of other servers, and inetd_echo_sv.c's MAX_CHILD
  Connects, Pieces, MaxKills, Loads  \* bounds of those, as the servers' modules say

ASSUME ProcessesAssumption == NumChildren \in Nat /\ FileLen \in Nat
ASSUME ServersAssumption == NumClients \in Nat /\ Limit \in Nat
ASSUME PipesAssumption == Message \in Seq(Int) /\ PipeSize \in Nat \ {0}

VARIABLES
  prog, x1, x2, x3, x4, x5, x6, x7, x8, x9, x10, x11, x12, x13, x14, x15, x16,
  x17, x18, x19, x20, x21, x22

slots == <<x1, x2, x3, x4, x5, x6, x7, x8, x9, x10, x11, x12, x13, x14, x15,
           x16, x17, x18, x19, x20, x21, x22>>
allVars == <<prog, vars, slots>>

-----------------------------------------------------------------------------
(***************************************************************************)
(* Proof that sem_data_transfer.c implements BlockTransfer, for an input   *)
(* of any length.                                                          *)
(***************************************************************************)

\* Initially the token is in sem1 and nothing has been read.
LEMMA InitInv == Init => IndInv
<1> SUFFICES ASSUME Init PROVE IndInv
  OBVIOUS
<1>1. TypeOK
  <2>1. eof \in BOOLEAN
    BY DEF Init
  <2> QED BY <2>1, SemTransferAssumption DEF Init, TypeOK
<1>2. TurnInv
  BY DEF Init, TurnInv, Turns, Full
<1> QED BY <1>1, <1>2 DEF IndInv

\* The types are preserved: a semaphore is posted only by who took the token.
LEMMA TypeStep == IndInv /\ [Next]_vars => TypeOK'
<1> SUFFICES ASSUME IndInv, [Next]_vars
             PROVE  TypeOK'
  OBVIOUS
<1> USE SemTransferAssumption DEF IndInv, TypeOK
<1>1. CASE Writer
  <2>1. CASE WriterWaits \/ WriterJoins
    BY <2>1 DEF WriterWaits, WriterJoins
  <2>2. CASE ReadBlock
    BY <2>2 DEF ReadBlock
  <2>3. CASE ReadNothing
    <3>1. eof' \in BOOLEAN
      BY <2>3 DEF ReadNothing
    <3> QED BY <2>3, <3>1 DEF ReadNothing
  <2>4. CASE WriterPosts
    BY <2>4 DEF WriterPosts, TurnInv, Turns
  <2> QED BY <1>1, <2>1, <2>2, <2>3, <2>4 DEF Writer
<1>2. CASE ReaderWaits \/ ReaderTests
  BY <1>2 DEF ReaderWaits, ReaderTests
<1>3. CASE ReaderPrints
  BY <1>3, AppendProperties DEF ReaderPrints
<1>4. CASE ReaderPosts
  BY <1>4 DEF ReaderPosts, TurnInv, Turns
<1>5. CASE UNCHANGED vars
  BY <1>5 DEF vars
<1> QED
  BY <1>1, <1>2, <1>3, <1>4, <1>5 DEF Next, Reader, Ended

\* The token goes round.
LEMMA TurnStep == IndInv /\ [Next]_vars => TurnInv'
<1> SUFFICES ASSUME IndInv, [Next]_vars
             PROVE  TurnInv'
  OBVIOUS
<1> USE SemTransferAssumption DEF IndInv, TypeOK, TurnInv, Turns, Full
<1>1. CASE WriterWaits
  BY <1>1 DEF WriterWaits
<1>2. CASE ReadBlock
  BY <1>2 DEF ReadBlock
<1>3. CASE ReadNothing
  BY <1>3 DEF ReadNothing
<1>4. CASE WriterPosts
  BY <1>4 DEF WriterPosts
<1>5. CASE WriterJoins
  BY <1>5 DEF WriterJoins
<1>6. CASE ReaderWaits
  BY <1>6 DEF ReaderWaits
<1>7. CASE ReaderTests
  BY <1>7 DEF ReaderTests
<1>8. CASE ReaderPrints
  <2>1. Len(out') = Len(out) + 1
    BY <1>8, AppendProperties DEF ReaderPrints
  <2> QED BY <1>8, <2>1 DEF ReaderPrints
<1>9. CASE ReaderPosts
  BY <1>9 DEF ReaderPosts
<1>10. CASE UNCHANGED vars
  BY <1>10 DEF vars
<1> QED
  BY <1>1, <1>2, <1>3, <1>4, <1>5, <1>6, <1>7, <1>8, <1>9, <1>10
  DEF Next, Writer, Reader, Ended

\* The invariant holds in every reachable state.
THEOREM TransferInvariance == Spec => []IndInv
<1>1. IndInv /\ [Next]_vars => IndInv'
  BY TypeStep, TurnStep DEF IndInv
<1> QED
  BY InitInv, <1>1, PTL DEF Spec

\* Every step is a step of BlockTransfer or leaves its variables alone: a read
\* puts the next block in the buffer, a print takes it out, and the thread
\* sees the end only when every block is out.
LEMMA StepRefines ==
  IndInv /\ [Next]_vars =>
    [Transfer!BPut \/ Transfer!BGet \/ Transfer!BEnd]_<<next, out, rpc = "done">>
<1> SUFFICES ASSUME IndInv, [Next]_vars
             PROVE  \/ Transfer!BPut \/ Transfer!BGet \/ Transfer!BEnd
                    \/ UNCHANGED <<next, out, rpc = "done">>
  OBVIOUS
<1> USE SemTransferAssumption DEF IndInv, TypeOK, TurnInv, Turns, Full
<1>1. CASE ReadBlock
  BY <1>1 DEF ReadBlock, Transfer!BPut
<1>2. CASE ReaderTests
  BY <1>2 DEF ReaderTests, Transfer!BEnd
<1>3. CASE ReaderPrints
  BY <1>3 DEF ReaderPrints, Transfer!BGet
<1>4. CASE WriterWaits \/ ReadNothing \/ WriterPosts \/ WriterJoins
  BY <1>4 DEF WriterWaits, ReadNothing, WriterPosts, WriterJoins
<1>5. CASE ReaderWaits \/ ReaderPosts
  BY <1>5 DEF ReaderWaits, ReaderPosts
<1>6. CASE UNCHANGED vars
  BY <1>6 DEF vars
<1> QED
  BY <1>1, <1>2, <1>3, <1>4, <1>5, <1>6 DEF Next, Writer, Reader, Ended

\* sem_data_transfer.c transfers its input, block by block and in order.
THEOREM TransferRefines == Spec => IsTransfer
<1>1. Init => Transfer!BInit
  BY DEF Init, Transfer!BInit
<1> QED
  BY <1>1, StepRefines, TransferInvariance, PTL
  DEF Spec, IsTransfer, Transfer!BSpec

-----------------------------------------------------------------------------
(***************************************************************************)
(* Proofs about the programs of chapter 23, for any times, signals and     *)
(* delays: MaxClock and MaxSignals only bound what TLC looks at.           *)
(***************************************************************************)

Timer ==
  INSTANCE Timers WITH
    tool <- x1, clock <- x2, timer <- x3, expired <- x4, queued <- x5,
    told <- x6, pc <- x7, until <- x8, req <- x9, begun <- x10

tm_tool == x1
tm_clock == x2
tm_timer == x3
tm_expired == x4
tm_queued == x5
tm_told == x6
tm_pc == x7
tm_until == x8
tm_req == x9
tm_begun == x10

USE DEF tm_tool, tm_clock, tm_timer, tm_expired, tm_queued, tm_told, tm_pc, tm_until,
        tm_req, tm_begun

\* The time left, the interval, and the parts of req are numbers, of which any one may
\* be changed.
LEMMA Parts ==
  /\ \A t \in Timer!Times : t[1] \in Nat /\ t[2] \in Nat
  /\ \A m, n \in Nat : <<m, n>> \in Timer!Times /\ <<m, n>>[1] = m /\ <<m, n>>[2] = n
  /\ \A r \in Timer!Reqs : r[1] \in Nat /\ r[2] \in Nat /\ r[3] \in Nat
  /\ \A k, m, n \in Nat : /\ <<k, m, n>> \in Timer!Reqs /\ <<k, m, n>>[1] = k
                          /\ <<k, m, n>>[2] = m /\ <<k, m, n>>[3] = n
BY DEF Timer!Times, Timer!Reqs

\* What a change of one part of req does.
LEMMA PartsChange ==
  ASSUME NEW r \in Timer!Reqs, NEW n \in Nat
  PROVE  /\ [r EXCEPT ![1] = n] = <<n, r[2], r[3]>>
         /\ [r EXCEPT ![2] = n] = <<r[1], n, r[3]>>
         /\ [r EXCEPT ![3] = n] = <<r[1], r[2], n>>
BY DEF Timer!Reqs

\* What a sleep may be asked for.
LEMMA AnyRequest == \A r \in Timer!Requests : r \in Timer!Reqs
BY DEF Timer!Requests, Timer!Reqs

\* What a tick does to a timer: one that is due expires, and starts over with its interval.
LEMMA TickMeans ==
  ASSUME Timer!TimersTypeOK, Timer!Tick
  PROVE  /\ Timer!TimersTypeOK' /\ UNCHANGED <<tm_tool, tm_told, tm_pc, tm_until, tm_req, tm_begun>>
         /\ tm_clock' = tm_clock + 1
         /\ \A i \in Timer!Timers :
              \/ /\ tm_timer[i][1] = 1 /\ tm_timer'[i] = <<tm_timer[i][2], tm_timer[i][2]>>
                 /\ tm_expired'[i] = tm_expired[i] + 1 /\ tm_queued'[i] = tm_queued[i] + 1
              \/ /\ tm_timer[i][1] # 1
                 /\ (tm_timer[i][1] > 0 => tm_timer'[i] = <<tm_timer[i][1] - 1, tm_timer[i][2]>>)
                 /\ (tm_timer[i][1] = 0 => tm_timer'[i] = tm_timer[i])
                 /\ tm_expired'[i] = tm_expired[i] /\ tm_queued'[i] = tm_queued[i]
<1> DEFINE due == {i \in Timer!Timers : tm_timer[i][1] = 1}
<1>0. \A i \in Timer!Timers : /\ tm_timer[i] \in Timer!Times /\ tm_timer[i][1] \in Nat /\ tm_timer[i][2] \in Nat
                              /\ tm_expired[i] \in Nat /\ tm_queued[i] \in Nat
  BY Parts DEF Timer!TimersTypeOK
<1>1. /\ UNCHANGED <<tm_tool, tm_told, tm_pc, tm_until, tm_req, tm_begun>>
      /\ tm_clock' = tm_clock + 1
      /\ tm_timer' = [i \in Timer!Timers |-> IF i \in due THEN <<tm_timer[i][2], tm_timer[i][2]>>
                                   ELSE IF tm_timer[i][1] > 0 THEN <<tm_timer[i][1] - 1, tm_timer[i][2]>>
                                   ELSE tm_timer[i]]
      /\ tm_expired' = [i \in Timer!Timers |-> tm_expired[i] + (IF i \in due THEN 1 ELSE 0)]
      /\ tm_queued' = [i \in Timer!Timers |-> tm_queued[i] + (IF i \in due THEN 1 ELSE 0)]
  BY DEF Timer!Tick
<1>2. \A i \in Timer!Timers : i \in due <=> tm_timer[i][1] = 1
  OBVIOUS
<1> HIDE DEF due
<1>3. \A i \in Timer!Timers :
        /\ i \in due => tm_timer'[i] = <<tm_timer[i][2], tm_timer[i][2]>>
        /\ i \notin due /\ tm_timer[i][1] > 0 => tm_timer'[i] = <<tm_timer[i][1] - 1, tm_timer[i][2]>>
        /\ i \notin due /\ tm_timer[i][1] = 0 => tm_timer'[i] = tm_timer[i]
        /\ i \in due => tm_expired'[i] = tm_expired[i] + 1 /\ tm_queued'[i] = tm_queued[i] + 1
        /\ i \notin due => tm_expired'[i] = tm_expired[i] /\ tm_queued'[i] = tm_queued[i]
  BY <1>0, <1>1
<1>4. \A n \in Nat : n > 0 => n - 1 \in Nat /\ (n # 1 => n - 1 > 0)
  OBVIOUS
<1>5. \A i \in Timer!Timers : tm_timer'[i] \in Timer!Times /\ tm_expired'[i] \in Nat /\ tm_queued'[i] \in Nat
  <2>1. \A n \in Nat : n + 1 \in Nat
    OBVIOUS
  <2>2. \A i \in Timer!Timers : tm_expired'[i] \in Nat /\ tm_queued'[i] \in Nat
    BY <1>0, <1>3, <2>1
  <2>3. ASSUME NEW i \in Timer!Timers
        PROVE  tm_timer'[i] \in Timer!Times
    <3>0. tm_timer[i][1] \in Nat /\ tm_timer[i][2] \in Nat
      BY <1>0
    <3>1. CASE i \in due
      <4>1. tm_timer'[i] = <<tm_timer[i][2], tm_timer[i][2]>>
        BY <1>3, <3>1
      <4> QED BY <3>0, <4>1, Parts
    <3>2. CASE i \notin due /\ tm_timer[i][1] > 0
      <4>1. tm_timer'[i] = <<tm_timer[i][1] - 1, tm_timer[i][2]>>
        BY <1>3, <3>2
      <4>2. tm_timer[i][1] - 1 \in Nat
        BY <1>4, <3>0, <3>2
      <4> QED BY <3>0, <4>1, <4>2, Parts
    <3>3. CASE i \notin due /\ tm_timer[i][1] = 0
      BY <1>0, <1>3, <3>3
    <3> QED BY <1>0, <3>1, <3>2, <3>3
  <2> QED BY <2>2, <2>3
<1>6. Timer!TimersTypeOK'
  <2>1. tm_timer' \in [Timer!Timers -> Timer!Times]
    <3>1. DOMAIN tm_timer' = Timer!Timers /\ tm_timer' = [i \in Timer!Timers |-> tm_timer'[i]]
      BY <1>1
    <3> QED BY <1>5, <3>1
  <2>2. tm_expired' \in [Timer!Timers -> Nat]
    BY <1>0, <1>1
  <2>3. tm_queued' \in [Timer!Timers -> Nat]
    BY <1>0, <1>1
  <2> QED BY <1>1, <2>1, <2>2, <2>3 DEF Timer!TimersTypeOK
<1> QED BY <1>0, <1>1, <1>2, <1>3, <1>6

\* Which steps a program takes besides the passing of time.
LEMMA TimerSteps ==
  ASSUME Timer!Next, ~Timer!Tick
  PROVE  /\ tm_tool' = tm_tool
         /\ tm_tool \in Timer!Signalled => Timer!CreateTimer \/ Timer!BlockSignal \/ Timer!Killed \/ \E i \in Timer!Timers : Timer!Report(i)
         /\ tm_tool = "demo_timerfd" => Timer!TimerfdSettime \/ Timer!ReadTimerfd
         /\ tm_tool = "real_timer" => Timer!Setitimer \/ Timer!SigalrmHandler \/ Timer!GotAlarm
         /\ tm_tool = "posix_timers" => Timer!PosixStart \/ Timer!PosixWakes
         /\ tm_tool \in Timer!Sleepers => Timer!Sleep \/ Timer!Interrupted \/ Timer!SleepComplete
         /\ tm_tool = "timed_read" => Timer!Alarm \/ Timer!EnterRead \/ Timer!ReadReturns
         /\ tm_tool = "imp_alarm" => Timer!ImpAlarm
<1>1. tm_tool' = tm_tool
  BY DEF Timer!Next, Timer!CreateTimer, Timer!BlockSignal, Timer!Killed, Timer!Report,
    Timer!TimerfdSettime, Timer!ReadTimerfd,
    Timer!Setitimer,
         Timer!SigalrmHandler, Timer!GotAlarm, Timer!PosixStart, Timer!PosixWakes, Timer!Sleep, Timer!Interrupted, Timer!SleepComplete,
         Timer!Alarm, Timer!EnterRead, Timer!ReadReturns, Timer!ImpAlarm
<1> QED
  BY <1>1 DEF Timer!Next, Timer!CreateTimer, Timer!BlockSignal, Timer!Killed, Timer!Report,
    Timer!TimerfdSettime, Timer!ReadTimerfd,
    Timer!Setitimer,
         Timer!SigalrmHandler, Timer!GotAlarm, Timer!PosixStart, Timer!PosixWakes, Timer!Sleep, Timer!Interrupted, Timer!SleepComplete,
         Timer!Alarm, Timer!EnterRead, Timer!ReadReturns, Timer!ImpAlarm, Timer!Signalled, Timer!Sleepers,
         Timer!Relative

\* Every step keeps the types.
LEMMA TimersTypes == ASSUME Timer!TimersTypeOK, Timer!Next PROVE Timer!TimersTypeOK'
<1>0. /\ 1 \in Timer!Timers /\ 2 \in Timer!Timers /\ tm_tool \in Timer!Tools
      /\ \A i \in Timer!Timers :
            tm_timer[i] \in Timer!Times /\ tm_expired[i] \in Nat /\ tm_queued[i] \in Nat /\ tm_told[i] \in Int
      /\ tm_clock \in Nat /\ tm_until \in Nat /\ tm_begun \in Nat /\ tm_req \in Timer!Reqs
      /\ tm_req[1] \in Nat /\ tm_req[2] \in Nat /\ tm_req[3] \in Nat
      /\ \A i \in Timer!Timers : tm_timer[i][1] \in Nat /\ tm_timer[i][2] \in Nat
  BY Parts DEF Timer!TimersTypeOK, Timer!Timers
<1>a. \A i \in Timer!Timers, m, n \in Nat : Timer!Arm(i, m, n) => tm_timer' \in [Timer!Timers -> Timer!Times]
  BY Parts DEF Timer!Arm, Timer!TimersTypeOK
<1>s. \A s \in Timer!Specs : s[1] \in Nat /\ s[2] \in Nat
  BY DEF Timer!Specs
<1>q. \A i \in Timer!Timers, n \in Nat : [tm_queued EXCEPT ![i] = n] \in [Timer!Timers -> Nat]
  BY DEF Timer!TimersTypeOK
<1>t. \A i \in Timer!Timers, n \in Int : [tm_told EXCEPT ![i] = n] \in [Timer!Timers -> Int]
  BY DEF Timer!TimersTypeOK
<1>r. ASSUME NEW n \in Nat
      PROVE  /\ [tm_req EXCEPT ![1] = n] \in Timer!Reqs /\ [tm_req EXCEPT ![2] = n] \in Timer!Reqs
             /\ [tm_req EXCEPT ![3] = n] \in Timer!Reqs
  <2>1. /\ [tm_req EXCEPT ![1] = n] = <<n, tm_req[2], tm_req[3]>>
        /\ [tm_req EXCEPT ![2] = n] = <<tm_req[1], n, tm_req[3]>>
        /\ [tm_req EXCEPT ![3] = n] = <<tm_req[1], tm_req[2], n>>
    BY <1>0, PartsChange
  <2>2. tm_req[1] \in Nat /\ tm_req[2] \in Nat /\ tm_req[3] \in Nat /\ n \in Nat
    BY <1>0
  <2>3. \A j, k, m \in Nat : <<j, k, m>> \in Timer!Reqs
    BY DEF Timer!Reqs
  <2>4. /\ <<n, tm_req[2], tm_req[3]>> \in Timer!Reqs
        /\ <<tm_req[1], n, tm_req[3]>> \in Timer!Reqs
        /\ <<tm_req[1], tm_req[2], n>> \in Timer!Reqs
    BY <2>2, <2>3
  <2> QED BY <2>1, <2>4
<1>1. CASE Timer!Tick
  BY <1>1, TickMeans
<1>2. CASE Timer!CreateTimer
  <2>1. tm_req[1] + 1 \in Timer!Timers
    BY <1>0, <1>2 DEF Timer!CreateTimer, Timer!Timers
  <2>2. tm_timer' \in [Timer!Timers -> Timer!Times]
    BY <1>2, <1>a, <1>s, <2>1 DEF Timer!CreateTimer
  <2>3. tm_req' \in Timer!Reqs
    <3>1. tm_req' = [tm_req EXCEPT ![1] = tm_req[1] + 1] /\ tm_req[1] + 1 \in Nat
      BY <1>0, <1>2 DEF Timer!CreateTimer
    <3> QED BY <1>r, <3>1
  <2> QED BY <1>2, <2>2, <2>3 DEF Timer!CreateTimer, Timer!TimersTypeOK
<1>3. CASE Timer!BlockSignal \/ Timer!Killed
  BY <1>3 DEF Timer!BlockSignal, Timer!Killed, Timer!TimersTypeOK
<1>4. ASSUME NEW i \in Timer!Timers, Timer!Report(i)
      PROVE  Timer!TimersTypeOK'
  <2>1. tm_queued' \in [Timer!Timers -> Nat]
    BY <1>4, <1>q DEF Timer!Report
  <2>2. tm_told' \in [Timer!Timers -> Int]
    BY <1>0, <1>4, <1>t DEF Timer!Report
  <2> QED BY <1>4, <2>1, <2>2 DEF Timer!Report, Timer!TimersTypeOK
<1>5. CASE Timer!TimerfdSettime
  <2>1. tm_timer' \in [Timer!Timers -> Timer!Times]
    BY <1>0, <1>5, <1>a, <1>s DEF Timer!TimerfdSettime
  <2> QED BY <1>5, <2>1 DEF Timer!TimerfdSettime, Timer!TimersTypeOK
<1>6. CASE Timer!ReadTimerfd
  <2>1. tm_queued' \in [Timer!Timers -> Nat]
    BY <1>0, <1>6, <1>q DEF Timer!ReadTimerfd
  <2>2. tm_told' \in [Timer!Timers -> Int]
    BY <1>0, <1>6, <1>t DEF Timer!ReadTimerfd
  <2> QED BY <1>6, <2>1, <2>2 DEF Timer!ReadTimerfd, Timer!TimersTypeOK
<1>7. CASE Timer!Setitimer
  <2>1. tm_timer' \in [Timer!Timers -> Timer!Times]
    BY <1>0, <1>7, <1>a, <1>s DEF Timer!Setitimer
  <2>2. tm_req' \in Timer!Reqs
    BY <1>7, Parts DEF Timer!Setitimer
  <2> QED BY <1>7, <2>1, <2>2 DEF Timer!Setitimer, Timer!TimersTypeOK
<1>8. CASE Timer!SigalrmHandler
  <2>1. tm_queued' \in [Timer!Timers -> Nat] /\ tm_req' \in Timer!Reqs
    BY <1>0, <1>8, <1>q, <1>r DEF Timer!SigalrmHandler
  <2> QED BY <1>8, <2>1 DEF Timer!SigalrmHandler, Timer!TimersTypeOK
<1>9. CASE Timer!GotAlarm
  <2>1. tm_req' \in Timer!Reqs
    BY <1>0, <1>9, Parts DEF Timer!GotAlarm
  <2> QED BY <1>9, <2>1 DEF Timer!GotAlarm, Timer!TimersTypeOK
<1>10. CASE Timer!PosixStart
  <2>1. tm_timer' \in [Timer!Timers -> Timer!Times]
    BY <1>0, <1>10, <1>a DEF Timer!PosixStart
  <2>2. tm_until' \in Nat /\ tm_begun' \in Nat
    BY <1>0, <1>10 DEF Timer!PosixStart
  <2> QED BY <1>10, <2>1, <2>2 DEF Timer!PosixStart, Timer!TimersTypeOK
<1>11. CASE Timer!PosixWakes
  <2>1. tm_queued' \in [Timer!Timers -> Nat]
    BY <1>0, <1>11, <1>q DEF Timer!PosixWakes
  <2>2. tm_told' \in [Timer!Timers -> Int]
    BY <1>0, <1>11, <1>t DEF Timer!PosixWakes, Timer!TimersTypeOK
  <2>3. tm_timer' \in [Timer!Timers -> Timer!Times]
    BY <1>0, <1>11, <1>a DEF Timer!PosixWakes, Timer!TimersTypeOK
  <2>4. tm_req' \in Timer!Reqs
    BY <1>0, <1>11, Parts DEF Timer!PosixWakes
  <2>5. tm_until' \in Nat /\ tm_begun' \in Nat
    BY <1>0, <1>11 DEF Timer!PosixWakes
  <2> QED BY <1>11, <2>1, <2>2, <2>3, <2>4, <2>5 DEF Timer!PosixWakes, Timer!TimersTypeOK
<1>12. CASE Timer!Sleep
  <2>1. tm_req' \in Timer!Reqs
    BY <1>0, <1>12, AnyRequest DEF Timer!Sleep
  <2>2. tm_req'[1] \in Nat /\ tm_req'[2] \in Nat
    BY <2>1, Parts
  <2>3. tm_until' \in Nat /\ tm_begun' \in Nat
    BY <1>0, <1>12, <2>2 DEF Timer!Sleep
  <2> QED BY <1>12, <2>1, <2>3 DEF Timer!Sleep, Timer!TimersTypeOK
<1>13. CASE Timer!Interrupted
  <2>1. tm_until' \in Nat
    BY <1>0, <1>13 DEF Timer!Interrupted
  <2>2. tm_req' \in Timer!Reqs
    <3>1. tm_req' = [tm_req EXCEPT ![3] = tm_req[3] + 1] /\ tm_req[3] + 1 \in Nat
      BY <1>0, <1>13 DEF Timer!Interrupted
    <3> QED BY <1>r, <3>1
  <2> QED BY <1>13, <2>1, <2>2 DEF Timer!Interrupted, Timer!TimersTypeOK
<1>14. CASE Timer!SleepComplete
  <2>1. tm_told' \in [Timer!Timers -> Int]
    BY <1>0, <1>14, <1>t DEF Timer!SleepComplete
  <2> QED BY <1>14, <2>1 DEF Timer!SleepComplete, Timer!TimersTypeOK
<1>15. CASE Timer!Alarm
  <2>1. tm_timer' \in [Timer!Timers -> Timer!Times]
    BY <1>0, <1>15, <1>a DEF Timer!Alarm
  <2>2. tm_queued' \in [Timer!Timers -> Nat]
    BY <1>0, <1>15, <1>q DEF Timer!Alarm
  <2> QED BY <1>15, <2>1, <2>2 DEF Timer!Alarm, Timer!TimersTypeOK
<1>16. CASE Timer!EnterRead
  <2>1. tm_queued' \in [Timer!Timers -> Nat]
    BY <1>0, <1>16, <1>q DEF Timer!EnterRead
  <2> QED BY <1>16, <2>1 DEF Timer!EnterRead, Timer!TimersTypeOK
<1>17. CASE Timer!ReadReturns
  <2>1. tm_queued' \in [Timer!Timers -> Nat]
    BY <1>0, <1>17, <1>q DEF Timer!ReadReturns
  <2>2. tm_req[2] + 1 \in Nat
    BY <1>0
  <2>3. tm_req' \in Timer!Reqs
    BY <1>0, <1>17, <1>r, <2>2 DEF Timer!ReadReturns
  <2> QED BY <1>17, <2>1, <2>3 DEF Timer!ReadReturns, Timer!TimersTypeOK
<1>18. CASE Timer!ImpAlarm
  <2>1. \A seconds \in 0..2 : 2 * seconds \in Nat /\ tm_clock + 2 * seconds \in Nat
    BY <1>0
  <2>2. tm_timer' \in [Timer!Timers -> Timer!Times] /\ tm_until' \in Nat
    <3>1. CASE UNCHANGED <<tm_timer, tm_until>>
      BY <1>0, <3>1 DEF Timer!TimersTypeOK
    <3>2. ASSUME NEW seconds \in 0..2, Timer!Arm(1, 2 * seconds, 0),
                 tm_until' = tm_clock + 2 * seconds
          PROVE  tm_timer' \in [Timer!Timers -> Timer!Times] /\ tm_until' \in Nat
      <4>1. 2 * seconds \in Nat /\ 0 \in Nat /\ tm_clock + 2 * seconds \in Nat
        BY <2>1
      <4> QED BY <1>0, <1>a, <3>2, <4>1
    <3> QED BY <1>18, <3>1, <3>2 DEF Timer!ImpAlarm
  <2>3. tm_timer[1][1] \div 2 \in Int /\ -1 \in Int
    BY <1>0
  <2>4. tm_told' \in [Timer!Timers -> Int]
    BY <1>0, <1>18, <1>t, <2>3 DEF Timer!ImpAlarm
  <2> QED BY <1>18, <2>2, <2>4 DEF Timer!ImpAlarm, Timer!TimersTypeOK
<1> QED
  BY <1>1, <1>2, <1>3, <1>4, <1>5, <1>6, <1>7, <1>8, <1>9, <1>10, <1>11, <1>12, <1>13,
    <1>14,
     <1>15, <1>16, <1>17, <1>18 DEF Timer!Next

\* Nothing is armed, and nothing has been asked for but by those who sleep.
LEMMA TimersBegin == Timer!Init => Timer!TimersInv
<1> SUFFICES ASSUME Timer!Init PROVE Timer!TimersInv
  OBVIOUS
<1>1. /\ tm_tool \in Timer!Tools /\ tm_pc = "start" /\ tm_clock \in Nat /\ tm_until = 0
      /\ tm_begun = 0
      /\ \A i \in Timer!Timers :
            tm_timer[i] = <<0, 0>> /\ tm_expired[i] = 0 /\ tm_queued[i] = 0 /\ tm_told[i] = 0
      /\ tm_timer = [i \in Timer!Timers |-> <<0, 0>>]
      /\ tm_expired = [i \in Timer!Timers |-> 0] /\ tm_queued = [i \in Timer!Timers |-> 0]
      /\ tm_told = [i \in Timer!Timers |-> 0]
  BY DEF Timer!Init
<1>2. tm_req \in Timer!Reqs /\ (tm_tool \notin Timer!Sleepers => tm_req[2] = 0 /\ tm_req[3] = 0)
  BY DEF Timer!Init, Timer!Reqs, Timer!Requests
<1>3. 1 \in Timer!Timers /\ 2 \in Timer!Timers
  BY DEF Timer!Timers
<1>4. <<0, 0>> \in Timer!Times
  BY Parts
<1>5. Timer!TimersTypeOK
  BY <1>1, <1>2, <1>4 DEF Timer!TimersTypeOK
<1>6. tm_tool = "real_timer" => Timer!RealInv
  BY <1>1, <1>2, <1>3 DEF Timer!RealInv, Timer!Sleepers, Timer!Relative
<1>7. Timer!SleepInv /\ (tm_tool = "posix_timers" => Timer!PosixInv)
  BY <1>1, <1>2 DEF Timer!SleepInv, Timer!Sleeping, Timer!PosixInv, Timer!Sleepers,
    Timer!Relative
<1>8. Timer!ReadInv /\ (tm_tool = "imp_alarm" => Timer!AlarmInv)
  <2>1. tm_timer[1][1] = 0 /\ tm_timer[1][2] = 0
    BY <1>1, <1>3
  <2>2. ~(tm_until > tm_clock)
    BY <1>1
  <2> QED BY <1>1, <2>1, <2>2 DEF Timer!ReadInv, Timer!AlarmInv
<1> QED BY <1>1, <1>3, <1>5, <1>6, <1>7, <1>8 DEF Timer!TimersInv

\* Every expiration is reported or queued.
LEMMA ReportsStep ==
  ASSUME Timer!TimersTypeOK, Timer!TimersTypeOK', Timer!Next, tm_tool \in Timer!Signalled \union {"demo_timerfd"},
         \A i \in Timer!Timers : tm_told[i] + tm_queued[i] = tm_expired[i]
  PROVE  \A i \in Timer!Timers : tm_told'[i] + tm_queued'[i] = tm_expired'[i]
<1>0. /\ \A i \in Timer!Timers : tm_expired[i] \in Nat /\ tm_queued[i] \in Nat /\ tm_told[i] \in Int
      /\ 1 \in Timer!Timers
  BY DEF Timer!TimersTypeOK, Timer!Timers
<1>1. CASE Timer!Tick
  BY <1>0, <1>1, TickMeans
<1>2. ASSUME NEW i \in Timer!Timers, Timer!Report(i) \/ (i = 1 /\ Timer!ReadTimerfd)
      PROVE  \A j \in Timer!Timers : tm_told'[j] + tm_queued'[j] = tm_expired'[j]
  <2>1. /\ tm_told' = [tm_told EXCEPT ![i] = tm_told[i] + tm_queued[i]]
        /\ tm_queued' = [tm_queued EXCEPT ![i] = 0]
        /\ UNCHANGED tm_expired
    <3>1. tm_told[i] + 1 + (tm_queued[i] - 1) = tm_told[i] + tm_queued[i]
      BY <1>0
    <3> QED BY <1>0, <1>2, <3>1 DEF Timer!Report, Timer!ReadTimerfd
  <2>2. /\ tm_told'[i] = tm_told[i] + tm_queued[i] /\ tm_queued'[i] = 0
        /\ \A j \in Timer!Timers \ {i} : tm_told'[j] = tm_told[j] /\ tm_queued'[j] = tm_queued[j]
    BY <2>1 DEF Timer!TimersTypeOK
  <2> QED BY <1>0, <2>1, <2>2
<1>3. CASE Timer!CreateTimer \/ Timer!BlockSignal \/ Timer!Killed \/ Timer!TimerfdSettime
  BY <1>3 DEF Timer!CreateTimer, Timer!BlockSignal, Timer!Killed, Timer!TimerfdSettime
<1> QED
  <2>1. ~Timer!Tick => Timer!CreateTimer \/ Timer!BlockSignal \/ Timer!Killed \/ (\E i \in Timer!Timers : Timer!Report(i))
                       \/ Timer!TimerfdSettime \/ Timer!ReadTimerfd
    BY TimerSteps
  <2> QED BY <1>0, <1>1, <1>2, <1>3, <2>1

\* real_timer.c counts no alarm twice.
LEMMA RealStep ==
  ASSUME Timer!TimersTypeOK, Timer!Next, tm_tool = "real_timer", Timer!RealInv PROVE Timer!RealInv'
<1>0. /\ 1 \in Timer!Timers /\ tm_expired[1] \in Nat /\ tm_queued[1] \in Nat
      /\ tm_req \in Timer!Reqs
      /\ tm_req[1] \in Nat /\ tm_req[2] \in Nat /\ tm_req[3] \in Nat
      /\ tm_queued \in [Timer!Timers -> Nat]
  BY Parts DEF Timer!TimersTypeOK, Timer!Timers
<1>1. CASE Timer!Tick
  <2>1. /\ UNCHANGED <<tm_pc, tm_req>>
        /\ \/ tm_expired'[1] = tm_expired[1] + 1 /\ tm_queued'[1] = tm_queued[1] + 1
           \/ tm_expired'[1] = tm_expired[1] /\ tm_queued'[1] = tm_queued[1]
    BY <1>0, <1>1, TickMeans
  <2> QED BY <1>0, <2>1 DEF Timer!RealInv
<1>2. CASE Timer!Setitimer
  <2>1. tm_pc' = "loop" /\ UNCHANGED <<tm_expired, tm_queued>>
    BY <1>2 DEF Timer!Setitimer
  <2>2. tm_req'[1] \in {1, 3} /\ tm_req'[2] = 0 /\ tm_req'[3] = 0
    BY <1>2 DEF Timer!Setitimer
  <2> QED BY <1>0, <2>1, <2>2 DEF Timer!RealInv
<1>3. CASE Timer!SigalrmHandler
  <2>1. tm_queued[1] > 0 /\ tm_pc' = tm_pc /\ tm_pc = "loop" /\ UNCHANGED tm_expired /\ tm_queued'[1] = 0
    BY <1>0, <1>3 DEF Timer!SigalrmHandler
  <2>2. tm_req' = <<tm_req[1], tm_req[2], 1>>
    BY <1>0, <1>3, PartsChange DEF Timer!SigalrmHandler
  <2> QED BY <1>0, <2>1, <2>2 DEF Timer!RealInv
<1>4. CASE Timer!GotAlarm
  <2>1. /\ tm_pc = "loop" /\ tm_req[3] = 1 /\ UNCHANGED <<tm_expired, tm_queued>>
        /\ tm_req' = <<tm_req[1], tm_req[2] + 1, 0>>
        /\ tm_pc' = IF tm_req[2] + 1 >= tm_req[1] THEN "done" ELSE "loop"
    BY <1>4 DEF Timer!GotAlarm
  <2>2. tm_req'[1] = tm_req[1] /\ tm_req'[2] = tm_req[2] + 1 /\ tm_req'[3] = 0
    BY <2>1
  <2> QED BY <1>0, <2>1, <2>2 DEF Timer!RealInv
<1> QED BY <1>1, <1>2, <1>3, <1>4, TimerSteps

\* A sleep is resumed until its end.
LEMMA SleepStep ==
  ASSUME Timer!TimersTypeOK, Timer!Next, tm_tool \in Timer!Sleepers, Timer!SleepInv PROVE Timer!SleepInv'
<1>0. /\ 1 \in Timer!Timers /\ tm_req \in Timer!Reqs /\ tm_req[1] \in Nat
      /\ tm_req[2] \in Nat /\ tm_req[3] \in Nat
      /\ tm_clock \in Nat /\ tm_until \in Nat /\ tm_begun \in Nat
      /\ tm_told \in [Timer!Timers -> Int]
      /\ tm_told[1] \in Int
  BY Parts DEF Timer!TimersTypeOK, Timer!Timers
<1>a. Timer!Asked \in Nat /\ Timer!Slack \in Nat
  BY <1>0 DEF Timer!Asked, Timer!Slack
<1>b. tm_tool' = tm_tool
  BY TickMeans, TimerSteps
<1>1. CASE Timer!Tick
  <2>1. UNCHANGED <<tm_tool, tm_told, tm_pc, tm_until, tm_req, tm_begun>>
    BY <1>1, TickMeans
  <2>2. tm_pc # "done"
    BY <1>1 DEF Timer!Tick, Timer!Sleepers, Timer!Relative
  <2> QED BY <2>1, <2>2 DEF Timer!SleepInv, Timer!Sleeping, Timer!Asked, Timer!Slack
<1>2. CASE Timer!Sleep
  <2>1. UNCHANGED <<tm_tool, tm_clock, tm_told>> /\ tm_begun' = tm_clock
    BY <1>2 DEF Timer!Sleep
  <2>2. tm_req' \in Timer!Reqs
    BY <1>0, <1>2, AnyRequest DEF Timer!Sleep
  <2>3. Timer!Asked' \in Nat /\ Timer!Slack' \in Nat
    <3>1. tm_req'[1] \in Nat /\ tm_req'[2] \in Nat /\ tm_req'[3] \in Nat
      BY <2>2, Parts
    <3> QED BY <3>1 DEF Timer!Asked, Timer!Slack
  <2>4. CASE tm_pc' = "refused"
    BY <2>4 DEF Timer!SleepInv, Timer!Sleeping
  <2>5. CASE tm_pc' = "sleep" /\ tm_until' = tm_clock + 2 * tm_req'[1] + tm_req'[2]
    <3>1. tm_until' = tm_begun' + Timer!Asked'
      <4>1. tm_req'[1] \in Nat /\ tm_req'[2] \in Nat
        BY <2>2, Parts
      <4> QED BY <1>0, <2>1, <2>5, <4>1 DEF Timer!Asked
    <3>2. tm_begun' \in Nat
      BY <1>0, <2>1
    <3>3. \A b, a, k \in Nat : b + a <= b + a /\ b + a <= b + a + k
      OBVIOUS
    <3>4. tm_begun' + Timer!Asked' <= tm_until' /\ tm_until' <= tm_begun' + Timer!Asked' + Timer!Slack'
      BY <2>3, <3>1, <3>2, <3>3
    <3> QED BY <2>5, <3>4 DEF Timer!SleepInv, Timer!Sleeping
  <2> QED BY <1>2, <2>4, <2>5 DEF Timer!Sleep
<1>3. CASE Timer!Interrupted
  <2>1. /\ UNCHANGED <<tm_tool, tm_told, tm_pc, tm_begun>> /\ tm_pc = "sleep"
        /\ tm_until' \in IF tm_tool \in Timer!Relative THEN {tm_until, tm_until + 1} ELSE {tm_until}
    BY <1>3 DEF Timer!Interrupted, Timer!Sleeping
  <2>2. tm_req' = <<tm_req[1], tm_req[2], tm_req[3] + 1>>
    <3>1. tm_req' = [tm_req EXCEPT ![3] = tm_req[3] + 1] /\ tm_req[3] + 1 \in Nat
      BY <1>0, <1>3 DEF Timer!Interrupted
    <3> QED BY <1>0, <3>1, PartsChange
  <2>3. Timer!Asked' = Timer!Asked
    BY <2>2 DEF Timer!Asked
  <2>4. Timer!Slack' = IF tm_tool \in Timer!Relative THEN tm_req[3] + 1 ELSE 0
    BY <2>1, <2>2 DEF Timer!Slack
  <2>5. Timer!Slack = IF tm_tool \in Timer!Relative THEN tm_req[3] ELSE 0
    BY DEF Timer!Slack
  <2>6. tm_begun + Timer!Asked <= tm_until' /\ tm_until' <= tm_begun + Timer!Asked + Timer!Slack'
    BY <1>0, <1>a, <2>1, <2>4, <2>5 DEF Timer!SleepInv, Timer!Sleeping
  <2> QED BY <2>1, <2>3, <2>6 DEF Timer!SleepInv, Timer!Sleeping
<1>4. CASE Timer!SleepComplete
  <2>1. /\ UNCHANGED <<tm_tool, tm_clock, tm_until, tm_req, tm_begun>>
        /\ tm_pc' = "done"
        /\ Timer!Sleeping
        /\ tm_clock = tm_until
    BY <1>4 DEF Timer!SleepComplete
  <2>2. tm_told'[1] = tm_clock - tm_begun
    BY <1>0, <1>4 DEF Timer!SleepComplete
  <2>3. Timer!Asked' = Timer!Asked /\ Timer!Slack' = Timer!Slack
    BY <2>1 DEF Timer!Asked, Timer!Slack
  <2> QED BY <1>0, <1>a, <2>1, <2>2, <2>3 DEF Timer!SleepInv, Timer!Sleeping
<1> QED BY <1>1, <1>2, <1>3, <1>4, TimerSteps

\* posix_timers.c: nothing is left of the timer in the last sleep.
LEMMA PosixStep ==
  ASSUME Timer!TimersTypeOK, Timer!Next, tm_tool = "posix_timers", Timer!PosixInv PROVE Timer!PosixInv'
<1>0. /\ 1 \in Timer!Timers /\ tm_clock \in Nat /\ tm_until \in Nat /\ tm_begun \in Nat
      /\ tm_timer \in [Timer!Timers -> Timer!Times] /\ tm_queued \in [Timer!Timers -> Nat]
      /\ tm_told \in [Timer!Timers -> Int]
      /\ tm_queued[1] \in Nat /\ tm_timer[1][1] \in Nat
  BY Parts DEF Timer!TimersTypeOK, Timer!Timers
<1>1. CASE Timer!Tick
  <2>1. UNCHANGED <<tm_told, tm_pc, tm_until, tm_req, tm_begun>>
    BY <1>1, TickMeans
  <2>2. tm_timer[1][1] = 0 => tm_timer'[1] = tm_timer[1] /\ tm_queued'[1] = tm_queued[1]
    BY <1>0, <1>1, TickMeans
  <2> QED BY <2>1, <2>2 DEF Timer!PosixInv, Timer!Sleeping
<1>2. CASE Timer!PosixStart
  BY <1>2 DEF Timer!PosixStart, Timer!PosixInv, Timer!Sleeping
<1>3. CASE Timer!PosixWakes
  <2>1. /\ Timer!Sleeping /\ (tm_clock = tm_until \/ tm_queued[1] > 0) /\ tm_queued'[1] = 0
        /\ tm_begun' = tm_clock
        /\ UNCHANGED tm_clock
    BY <1>0, <1>3 DEF Timer!PosixWakes
  <2>2. CASE tm_req[2] = 2 /\ tm_pc' = "done" /\ tm_told' = [tm_told EXCEPT ![1] = tm_clock - tm_begun]
    <3>1. tm_clock = tm_begun + 20
      BY <1>0, <2>1, <2>2 DEF Timer!PosixInv
    <3>2. tm_told'[1] = 20
      BY <1>0, <2>2, <3>1
    <3> QED BY <2>2, <3>2 DEF Timer!PosixInv, Timer!Sleeping
  <2>3. CASE UNCHANGED <<tm_pc, tm_told>> /\ tm_req'[2] \in {0, 1}
    BY <2>1, <2>3 DEF Timer!PosixInv, Timer!Sleeping
  <2>4. CASE UNCHANGED <<tm_pc, tm_told>> /\ Timer!Arm(1, 0, 0) /\ tm_until' = tm_clock + 20 /\ tm_req' = <<0, 2, 0>>
    <3>1. tm_timer'[1] = <<0, 0>>
      BY <1>0, <2>4 DEF Timer!Arm
    <3> QED BY <2>1, <2>4, <3>1 DEF Timer!PosixInv, Timer!Sleeping
  <2>5. <<tm_req[1], 1, 0>>[2] = 1 /\ <<tm_req[1] + 1, 0, 0>>[2] = 0
    OBVIOUS
  <2> QED BY <1>3, <2>2, <2>3, <2>4, <2>5 DEF Timer!PosixWakes
<1> QED BY <1>1, <1>2, <1>3, TimerSteps

\* A tick, for the one timer of a program and its two parts.
LEMMA OneTick ==
  ASSUME Timer!TimersTypeOK, Timer!Tick
  PROVE  /\ tm_timer'[1][2] = tm_timer[1][2]
         /\ \/ /\ tm_timer[1][1] = 1 /\ tm_queued'[1] = tm_queued[1] + 1
               /\ tm_timer'[1][1] = tm_timer[1][2]
            \/ /\ tm_timer[1][1] > 1 /\ tm_queued'[1] = tm_queued[1]
               /\ tm_timer'[1][1] = tm_timer[1][1] - 1
            \/ /\ tm_timer[1][1] = 0 /\ tm_queued'[1] = tm_queued[1]
               /\ tm_timer'[1][1] = 0
<1>1. 1 \in Timer!Timers /\ tm_timer[1][1] \in Nat /\ tm_timer[1][2] \in Nat
  BY Parts DEF Timer!TimersTypeOK, Timer!Timers
<1>2. \/ /\ tm_timer[1][1] = 1 /\ tm_timer'[1] = <<tm_timer[1][2], tm_timer[1][2]>>
         /\ tm_queued'[1] = tm_queued[1] + 1
      \/ /\ tm_timer[1][1] # 1
         /\ (tm_timer[1][1] > 0 => tm_timer'[1] = <<tm_timer[1][1] - 1, tm_timer[1][2]>>)
         /\ (tm_timer[1][1] = 0 => tm_timer'[1] = tm_timer[1])
         /\ tm_queued'[1] = tm_queued[1]
  BY <1>1, TickMeans
<1>3. CASE tm_timer[1][1] = 1
  BY <1>1, <1>2, <1>3
<1>4. CASE tm_timer[1][1] > 1
  BY <1>1, <1>2, <1>4
<1>5. CASE tm_timer[1][1] = 0
  BY <1>1, <1>2, <1>5
<1> QED BY <1>1, <1>3, <1>4, <1>5

\* timed_read.c: a SIGALRM that finds the read waiting is that of the alarm set for it.
LEMMA ReadStep ==
  ASSUME Timer!TimersTypeOK, Timer!Next, tm_tool = "timed_read", Timer!ReadInv PROVE Timer!ReadInv'
<1>0. /\ 1 \in Timer!Timers /\ tm_timer \in [Timer!Timers -> Timer!Times]
      /\ tm_queued \in [Timer!Timers -> Nat]
      /\ tm_queued[1] \in Nat /\ tm_timer[1][1] \in Nat /\ tm_timer[1][2] = 0
      /\ tm_clock \in Nat /\ tm_begun \in Nat
  BY Parts DEF Timer!TimersTypeOK, Timer!Timers, Timer!ReadInv
<1>1. CASE Timer!Tick
  <2>1. UNCHANGED <<tm_pc, tm_begun>> /\ tm_clock' = tm_clock + 1
    BY <1>1, TickMeans
  <2>2. \/ /\ tm_timer[1][1] = 1 /\ tm_timer'[1][1] = 0 /\ tm_timer'[1][2] = 0
           /\ tm_queued'[1] = tm_queued[1] + 1
        \/ /\ tm_timer[1][1] > 0 /\ tm_timer'[1][1] = tm_timer[1][1] - 1
           /\ tm_timer'[1][2] = 0 /\ tm_queued'[1] = tm_queued[1]
        \/ /\ tm_timer[1][1] = 0 /\ tm_timer'[1][1] = 0
           /\ tm_timer'[1][2] = 0 /\ tm_queued'[1] = tm_queued[1]
    BY <1>0, <1>1, OneTick
  <2> QED BY <1>0, <2>1, <2>2 DEF Timer!ReadInv
<1>2. CASE Timer!Alarm
  <2>1. tm_pc' = "armed" /\ tm_timer'[1] = <<6, 0>> /\ tm_queued'[1] = 0
    BY <1>0, <1>2 DEF Timer!Alarm, Timer!Arm
  <2>2. tm_begun' = tm_clock /\ tm_clock' = tm_clock
    BY <1>2 DEF Timer!Alarm
  <2> QED BY <1>0, <2>1, <2>2 DEF Timer!ReadInv
<1>3. CASE Timer!EnterRead
  <2>1. tm_pc = "armed" /\ UNCHANGED <<tm_timer, tm_clock, tm_begun>> /\ tm_queued'[1] = 0
    BY <1>0, <1>3 DEF Timer!EnterRead
  <2> QED BY <2>1 DEF Timer!ReadInv
<1>4. CASE Timer!ReadReturns
  BY <1>4 DEF Timer!ReadReturns, Timer!ReadInv
<1> QED BY <1>1, <1>2, <1>3, <1>4, TimerSteps

\* imp_alarm.c: the alarm that runs is the last one asked for, which has no interval.
LEMMA AlarmStep ==
  ASSUME Timer!TimersTypeOK, Timer!Next, tm_tool = "imp_alarm", Timer!AlarmInv
  PROVE  Timer!AlarmInv'
<1>0. /\ 1 \in Timer!Timers /\ tm_timer \in [Timer!Timers -> Timer!Times]
      /\ tm_timer[1][1] \in Nat /\ tm_timer[1][2] = 0
      /\ tm_clock \in Nat /\ tm_until \in Nat
  BY Parts DEF Timer!TimersTypeOK, Timer!Timers, Timer!AlarmInv
<1>1. CASE Timer!Tick
  <2>1. tm_until' = tm_until /\ tm_clock' = tm_clock + 1
    BY <1>1, TickMeans
  <2>2. \/ tm_timer[1][1] = 1 /\ tm_timer'[1][1] = 0 /\ tm_timer'[1][2] = 0
        \/ /\ tm_timer[1][1] > 1 /\ tm_timer'[1][1] = tm_timer[1][1] - 1
           /\ tm_timer'[1][2] = 0
        \/ tm_timer[1][1] = 0 /\ tm_timer'[1][1] = 0 /\ tm_timer'[1][2] = 0
    BY <1>0, <1>1, OneTick
  <2> QED BY <1>0, <2>1, <2>2 DEF Timer!AlarmInv
<1>2. CASE Timer!ImpAlarm
  <2>1. tm_clock' = tm_clock
    BY <1>2 DEF Timer!ImpAlarm
  <2>2. ASSUME NEW seconds \in 0..2, Timer!Arm(1, 2 * seconds, 0),
               tm_until' = tm_clock + 2 * seconds
        PROVE  Timer!AlarmInv'
    <3>1. tm_timer'[1] = <<2 * seconds, 0>>
      BY <1>0, <2>2 DEF Timer!Arm
    <3>2. tm_timer'[1][1] = 2 * seconds /\ tm_timer'[1][2] = 0
      BY <3>1
    <3> QED BY <1>0, <2>1, <2>2, <3>2 DEF Timer!AlarmInv
  <2>3. CASE UNCHANGED <<tm_timer, tm_until>>
    BY <2>1, <2>3 DEF Timer!AlarmInv
  <2> QED BY <1>2, <2>2, <2>3 DEF Timer!ImpAlarm
<1> QED BY <1>1, <1>2, TimerSteps

\* The invariant is kept by every step of every program.
LEMMA TimersStep == ASSUME Timer!TimersInv, [Timer!Next]_Timer!vars PROVE Timer!TimersInv'
<1>1. CASE Timer!Next
  <2>1. Timer!TimersTypeOK'
    BY <1>1, TimersTypes DEF Timer!TimersInv
  <2>2. tm_tool' = tm_tool
    BY <1>1, TimerSteps, TickMeans DEF Timer!TimersInv
  <2>3. tm_tool \in Timer!Signalled \union {"demo_timerfd"} =>
          \A i \in Timer!Timers : tm_told'[i] + tm_queued'[i] = tm_expired'[i]
    BY <1>1, <2>1, ReportsStep DEF Timer!TimersInv
  <2>4. tm_tool = "imp_alarm" => Timer!AlarmInv'
    BY <1>1, AlarmStep DEF Timer!TimersInv
  <2>5. /\ tm_tool = "real_timer" => Timer!RealInv'
        /\ tm_tool \in Timer!Sleepers => Timer!SleepInv'
        /\ tm_tool = "posix_timers" => Timer!PosixInv'
        /\ tm_tool = "timed_read" => Timer!ReadInv'
    BY <1>1, RealStep, SleepStep, PosixStep, ReadStep DEF Timer!TimersInv
  <2> QED BY <2>1, <2>2, <2>3, <2>4, <2>5 DEF Timer!TimersInv
<1>2. CASE UNCHANGED Timer!vars
  BY <1>2 DEF Timer!vars, Timer!TimersInv, Timer!TimersTypeOK, Timer!RealInv,
    Timer!SleepInv, Timer!Sleeping, Timer!Asked, Timer!Slack, Timer!PosixInv,
    Timer!ReadInv, Timer!AlarmInv
<1> QED BY <1>1, <1>2

\* What the invariant says of time.
LEMMA TimersInvMeans == Timer!TimersInv => Timer!TimersKeepTime
<1> SUFFICES ASSUME Timer!TimersInv PROVE Timer!TimersKeepTime
  OBVIOUS
<1>0. /\ \A i \in Timer!Timers : tm_expired[i] \in Nat /\ tm_queued[i] \in Nat /\ tm_told[i] \in Int
      /\ 1 \in Timer!Timers
  BY DEF Timer!TimersInv, Timer!TimersTypeOK, Timer!Timers
<1>1. tm_tool \in Timer!Sleepers /\ tm_pc = "done" =>
        Timer!Asked <= tm_told[1] /\ tm_told[1] <= Timer!Asked + Timer!Slack
  BY DEF Timer!TimersInv, Timer!SleepInv
<1>2. Timer!Asked \in Nat
  BY Parts DEF Timer!Asked, Timer!TimersInv, Timer!TimersTypeOK
<1>3. tm_tool \in Timer!Sleepers /\ tm_pc = "done" =>
       LET asked == 2 * tm_req[1] + tm_req[2] IN
       /\ tm_told[1] >= asked
       /\ tm_told[1] <= asked + (IF tm_tool \in Timer!Relative THEN tm_req[3] ELSE 0)
  BY <1>0, <1>1, <1>2 DEF Timer!Asked, Timer!Slack
<1>4. /\ tm_tool = "timed_read" /\ tm_pc = "read" /\ tm_queued[1] > 0 =>
           tm_clock >= tm_begun + 6
      /\ tm_tool = "imp_alarm" =>
           tm_timer[1][1] = IF tm_until > tm_clock THEN tm_until - tm_clock ELSE 0
  BY DEF Timer!TimersInv, Timer!ReadInv, Timer!AlarmInv
<1>5. tm_tool = "posix_timers" /\ tm_pc = "done" => tm_told[1] = 20
  BY DEF Timer!TimersInv, Timer!PosixInv
<1>6. tm_tool = "real_timer" => /\ tm_req[2] + tm_req[3] + tm_queued[1] <= tm_expired[1]
                                /\ tm_pc = "done" => tm_req[2] = tm_req[1]
  BY DEF Timer!TimersInv, Timer!RealInv
<1> QED BY <1>3, <1>4, <1>5, <1>6 DEF Timer!TimersInv, Timer!TimersKeepTime

-----------------------------------------------------------------------------
(***************************************************************************)
(* Proofs about the programs that wait for SIGIO, for any input.           *)
(***************************************************************************)

Sigio ==
  INSTANCE SignalIO WITH
    MaxInput <- PipeSize + 1,  \* more than the pipe of selfpipe holds
    tool <- x1, sent <- x2, unread <- x3, queued <- x4, flag <- x5, pipe <- x6,
    caught <- x7, pc <- x8

io_tool == x1
io_sent == x2
io_unread == x3
io_queued == x4
io_flag == x5
io_pipe == x6
io_caught == x7
io_pc == x8

USE DEF io_tool, io_sent, io_unread, io_queued, io_flag, io_pipe, io_caught, io_pc

\* The invariant holds at first.
LEMMA SigioInit == Sigio!Init => Sigio!SigioInv
BY DEF Sigio!Init, Sigio!SigioInv, Sigio!SigioTyped, Sigio!InputIsAnnounced

\* Every step keeps it.
LEMMA SigioStep == Sigio!SigioInv /\ [Sigio!Next]_Sigio!vars => Sigio!SigioInv'
<1> SUFFICES ASSUME Sigio!SigioInv, [Sigio!Next]_Sigio!vars PROVE Sigio!SigioInv'
  OBVIOUS
<1> USE DEF Sigio!SigioInv, Sigio!SigioTyped, Sigio!InputIsAnnounced
<1>1. CASE Sigio!Arrive
  BY <1>1 DEF Sigio!Arrive
<1>2. CASE Sigio!SiginfoHandler
  BY <1>2 DEF Sigio!SiginfoHandler
<1>3. CASE Sigio!TestFlag
  BY <1>3 DEF Sigio!TestFlag
<1>4. CASE Sigio!ReadByte
  BY <1>4 DEF Sigio!ReadByte
<1>5. CASE Sigio!Quit
  BY <1>5 DEF Sigio!Quit
<1>6. CASE Sigio!Sigtimedwait
  BY <1>6 DEF Sigio!Sigtimedwait
<1>7. CASE Sigio!Handler
  BY <1>7, PipesAssumption DEF Sigio!Handler
<1>8. CASE Sigio!Poll
  BY <1>8 DEF Sigio!Poll
<1>9. CASE Sigio!Drain
  BY <1>9 DEF Sigio!Drain
<1>10. CASE UNCHANGED Sigio!vars
  BY <1>10 DEF Sigio!vars
<1> QED BY <1>1, <1>2, <1>3, <1>4, <1>5, <1>6, <1>7, <1>8, <1>9, <1>10
  DEF Sigio!Next, Sigio!Deliver, Sigio!Program

-----------------------------------------------------------------------------
(***************************************************************************)
(* Proofs about telnet_sv.c and telnet_cl.c, for any number of clients and *)
(* of changes of their windows: rows and columns are not mixed up, keys    *)
(* stay in order, and the handler of SIGCHLD is called no more often than  *)
(* children end, stop and go on.  Here as below, the variables of an       *)
(* instance are called by the names they have in its module, with a prefix.*)
(***************************************************************************)

Login ==
  INSTANCE Telnet WITH
    load <- x1, backlog <- x2, conn <- x3, spc <- x4, named <- x5,
    sessions <- x6, zombies <- x7, pending <- x8, cpc <- x9, cevents <- x10,
    caught <- x11, size <- x12, snap <- x13, wire <- x14, conf <- x15,
    kpc <- x16, kevents <- x17, ws <- x18, term <- x19, shell <- x20,
    line <- x21, stops <- x22

tn_load == x1
tn_backlog == x2
tn_conn == x3
tn_spc == x4
tn_named == x5
tn_sessions == x6
tn_zombies == x7
tn_pending == x8
tn_cpc == x9
tn_cevents == x10
tn_caught == x11
tn_size == x12
tn_snap == x13
tn_wire == x14
tn_conf == x15
tn_kpc == x16
tn_kevents == x17
tn_ws == x18
tn_term == x19
tn_shell == x20
tn_line == x21
tn_stops == x22

USE DEF tn_load, tn_backlog, tn_conn, tn_spc, tn_named, tn_sessions, tn_zombies,
        tn_pending, tn_cpc, tn_cevents, tn_caught, tn_size, tn_snap, tn_wire,
        tn_conf, tn_kpc, tn_kevents, tn_ws, tn_term, tn_shell, tn_line, tn_stops

\* Entering a queue.
LEMMA TelnetEnters ==
  ASSUME NEW S, NEW q \in Seq(S), NEW x \in S
  PROVE  /\ Append(q, x) \in Seq(S) /\ Login!In(Append(q, x)) = Login!In(q) \cup {x}
         /\ Login!Once(q) /\ x \notin Login!In(q) => Login!Once(Append(q, x))
BY EntersQueue DEF Login!In, Login!Once, Members, NoneTwice

\* Leaving it.
LEMMA TelnetLeaves ==
  ASSUME NEW S, NEW q \in Seq(S), q # <<>>
  PROVE  /\ Head(q) \in Login!In(q) /\ Tail(q) \in Seq(S)
         /\ Login!In(q) \subseteq S /\ Login!In(Tail(q)) \subseteq Login!In(q)
         /\ Login!Once(q) => Head(q) \notin Login!In(Tail(q)) /\ Login!Once(Tail(q))
BY LeavesQueue DEF Login!In, Login!Once, Members, NoneTwice

\* Confirmations are counted up to one.
LEMMA Confirmations ==
  ~(0 > 0) /\ 1 - 1 = 0 /\ 0 + 1 = 1
OBVIOUS

\* A number on its way, and the same one read.
LEMMA NumberSent ==
  ASSUME NEW x \in Login!Numbers
  PROVE  /\ Append(<<>>, x) = <<x>> /\ Head(<<x>>) = x /\ Tail(<<x>>) = <<>> /\ <<x>> # <<>>
         /\ <<x>> \in Seq(Login!Numbers) /\ <<>> \in Seq(Login!Numbers)
OBVIOUS

\* A row and a column.
LEMMA PairOfNumbers ==
  ASSUME NEW a \in Login!Numbers, NEW b \in Login!Numbers
  PROVE  <<a, b>> \in Login!Numbers \X Login!Numbers /\ <<a, b>>[1] = a /\ <<a, b>>[2] = b
OBVIOUS

\* What setting one value of a function does.
LEMMA TelnetSet ==
  ASSUME NEW S, NEW f \in [Login!Clients -> S], NEW c \in Login!Clients, NEW v \in S
  PROVE  /\ Login!Set(f, c, v) \in [Login!Clients -> S] /\ Login!Set(f, c, v)[c] = v
         /\ \A d \in Login!Clients : d # c => Login!Set(f, c, v)[d] = f[d]
BY DEF Login!Set

\* What is in one stage goes to another.
LEMMA StageMoved ==
  ASSUME Login!TelnetTyped, NEW c \in Login!Clients, NEW from \in Login!Stages,
         NEW to \in Login!Stages, from # to,
         Login!Move(c, from, to)
  PROVE  /\ tn_line' \in [Login!Clients -> [Login!Stages -> Seq(Login!Numbers)]]
         /\ tn_line'[c][to] = tn_line[c][to] \o tn_line[c][from] /\ tn_line'[c][from] = <<>>
         /\ \A s \in Login!Stages : s # from /\ s # to => tn_line'[c][s] = tn_line[c][s]
         /\ \A d \in Login!Clients : d # c => tn_line'[d] = tn_line[d]
<1>1. tn_line \in [Login!Clients -> [Login!Stages -> Seq(Login!Numbers)]]
  BY DEF Login!TelnetTyped
<1> DEFINE l == tn_line[c]
           m == [[l EXCEPT ![to] = l[to] \o l[from]] EXCEPT ![from] = <<>>]
<1>2. /\ l \in [Login!Stages -> Seq(Login!Numbers)]
      /\ l[to] \o l[from] \in Seq(Login!Numbers)
      /\ <<>> \in Seq(Login!Numbers)
  <2>1. /\ l[to] \in Seq(Login!Numbers)
        /\ l[from] \in Seq(Login!Numbers)
        /\ l \in [Login!Stages -> Seq(Login!Numbers)]
    BY <1>1
  <2> QED BY <2>1, ConcatProperties, EmptySeq
<1>3. tn_line' = [tn_line EXCEPT ![c] = m]
  BY <1>1 DEF Login!Move
<1> HIDE DEF l
<1>4. /\ m \in [Login!Stages -> Seq(Login!Numbers)]
      /\ m[to] = l[to] \o l[from]
      /\ m[from] = <<>>
      /\ \A s \in Login!Stages : s # from /\ s # to => m[s] = l[s]
  BY <1>2
<1> HIDE DEF m
<1> QED BY <1>1, <1>3, <1>4 DEF l

\* The keys in one stage.
LEMMA StageType ==
  ASSUME Login!TelnetTyped, NEW c \in Login!Clients
  PROVE  \A s \in Login!Stages : tn_line[c][s] \in Seq(Login!Numbers)
<1>1. tn_line[c] \in [Login!Stages -> Seq(Login!Numbers)]
  BY DEF Login!TelnetTyped
<1> QED BY <1>1

\* The keys of a client, as a sequence of numbers.
LEMMA KeysType ==
  ASSUME Login!TelnetTyped, NEW c \in Login!Clients
  PROVE  Login!Keys(c) \in Seq(Login!Numbers) /\ Len(Login!Keys(c)) + 1 \in Login!Numbers
<1>1. tn_line[c] \in [Login!Stages -> Seq(Login!Numbers)]
  BY DEF Login!TelnetTyped
<1>2. \A s \in Login!Stages : tn_line[c][s] \in Seq(Login!Numbers)
  BY <1>1
<1>3. \A s, t \in Seq(Login!Numbers) : s \o t \in Seq(Login!Numbers)
  BY ConcatProperties
<1>4. Login!Keys(c) \in Seq(Login!Numbers)
  BY <1>2, <1>3, Zenon DEF Login!Keys, Login!Whole, Login!Stages
<1> QED BY <1>4, LenProperties DEF Login!Numbers

\* A key that is typed.
LEMMA KeyAdded ==
  ASSUME Login!TelnetTyped, NEW c \in Login!Clients, Login!Type(c)
  PROVE  /\ tn_line' \in [Login!Clients -> [Login!Stages -> Seq(Login!Numbers)]]
         /\ tn_line'[c]["keys"] = Append(tn_line[c]["keys"], Len(Login!Keys(c)) + 1)
         /\ \A s \in Login!Stages : s # "keys" => tn_line'[c][s] = tn_line[c][s]
         /\ \A d \in Login!Clients : d # c => tn_line'[d] = tn_line[d]
<1>1. tn_line \in [Login!Clients -> [Login!Stages -> Seq(Login!Numbers)]]
  BY DEF Login!TelnetTyped
<1> DEFINE l == tn_line[c]
           n == Len(Login!Keys(c)) + 1
           m == [l EXCEPT !["keys"] = Append(l["keys"], n)]
<1>2. /\ l \in [Login!Stages -> Seq(Login!Numbers)]
      /\ Append(l["keys"], n) \in Seq(Login!Numbers)
      /\ "keys" \in Login!Stages
  <2>1. "keys" \in Login!Stages /\ l \in [Login!Stages -> Seq(Login!Numbers)]
    BY <1>1 DEF Login!Stages
  <2>2. n \in Login!Numbers
    BY KeysType
  <2> HIDE DEF n
  <2> QED BY <2>1, <2>2, AppendProperties
<1>3. tn_line' = [tn_line EXCEPT ![c] = m]
  BY <1>1 DEF Login!Type
<1> HIDE DEF l, n
<1>4. /\ m \in [Login!Stages -> Seq(Login!Numbers)] /\ m["keys"] = Append(l["keys"], n)
      /\ \A s \in Login!Stages : s # "keys" => m[s] = l[s]
  BY <1>2
<1> HIDE DEF m
<1> QED BY <1>1, <1>3, <1>4 DEF l, n

\* A SIGCHLD calls the handler once more at most.
LEMMA SigchldRaised ==
  ASSUME tn_pending \in Nat, Login!Sigchld
  PROVE  tn_pending' \in Nat /\ tn_pending' <= tn_pending + 1
BY DEF Login!Sigchld

\* What the end of a shell does to the server's child.
LEMMA ShellEnded ==
  ASSUME NEW c \in Login!Clients, Login!ShellSignal(c)
  PROVE  /\ UNCHANGED <<tn_spc, tn_backlog, tn_conn, tn_sessions, tn_cpc, tn_size, tn_snap,
                       tn_wire, tn_conf, tn_kevents, tn_ws, tn_term, tn_line>>
         /\ \/ tn_kpc' = tn_kpc /\ UNCHANGED <<tn_zombies, tn_pending, tn_stops>>
            \/ /\ tn_kpc[c] = "wait" /\ tn_kpc' = Login!Set(tn_kpc, c, "gone")
               /\ tn_zombies' = tn_zombies + 1 /\ Login!Sigchld /\ tn_stops' = tn_stops
<1>1. UNCHANGED <<tn_spc, tn_backlog, tn_conn, tn_sessions, tn_cpc, tn_size, tn_snap,
                  tn_wire, tn_conf, tn_kevents, tn_ws, tn_term, tn_line>>
  BY DEF Login!ShellSignal, Login!server, Login!client
<1>2. CASE tn_kpc[c] = "wait"
  BY <1>1, <1>2 DEF Login!ShellSignal, Login!EndChild
<1>3. CASE tn_kpc[c] # "wait"
  BY <1>1, <1>3 DEF Login!ShellSignal, Login!reaping
<1> QED BY <1>2, <1>3

\* A child that stops or goes on.
LEMMA ChildStopped ==
  ASSUME NEW c \in Login!Clients, Login!Stop(c)
  PROVE  /\ UNCHANGED <<tn_spc, tn_backlog, tn_conn, tn_sessions, tn_cpc, tn_size, tn_snap,
                       tn_wire, tn_conf, tn_kpc, tn_kevents, tn_ws, tn_term, tn_line,
                       tn_zombies>>
         /\ tn_stops' = tn_stops + 1 /\ Login!Sigchld
BY DEF Login!Stop, Login!server, Login!client, Login!child

\* Types.
LEMMA TelnetTypes ==
  ASSUME Login!TelnetTyped, [Login!Next]_Login!vars
  PROVE  Login!TelnetTyped'
<1>spc. tn_spc \in {"accept", "id", "crashed"}
  BY DEF Login!TelnetTyped
<1>backlog. tn_backlog \in Seq(Login!Clients \X {1, 2})
  BY DEF Login!TelnetTyped
<1>conn. (tn_spc = "id" => tn_conn \in Login!Clients \X {1, 2})
  BY DEF Login!TelnetTyped
<1>zombies. tn_zombies \in Nat
  BY DEF Login!TelnetTyped
<1>pending. tn_pending \in Nat /\ tn_stops \in Nat
  BY DEF Login!TelnetTyped
<1>sessions. tn_sessions \subseteq Login!Clients
  BY DEF Login!TelnetTyped
<1>cpc. tn_cpc \in
          [Login!Clients -> {"start", "id 1", "second", "id 2", "size", "row", "col",
                          "size again", "row again", "col again", "loop", "enter",
                          "poll", "handle", "done", "dead"}]
  BY DEF Login!TelnetTyped
<1>size. tn_size \in [Login!Clients -> Login!Numbers]
  BY DEF Login!TelnetTyped
<1>snap. tn_snap \in [Login!Clients -> Login!Numbers]
  BY DEF Login!TelnetTyped
<1>wire. tn_wire \in [Login!Clients -> Seq(Login!Numbers)]
  BY DEF Login!TelnetTyped
<1>conf. tn_conf \in [Login!Clients -> Int]
  BY DEF Login!TelnetTyped
<1>kpc. tn_kpc \in
          [Login!Clients -> {"none", "row", "col", "ioctl", "handle", "wait", "gone"}]
  BY DEF Login!TelnetTyped
<1>kevents. tn_kevents \in
              [Login!Clients -> SUBSET {"cl hup", "prio hup", "cl", "prio", "master"}]
  BY DEF Login!TelnetTyped
<1>ws. tn_ws \in [Login!Clients -> Login!Numbers \X Login!Numbers]
  BY DEF Login!TelnetTyped
<1>term. tn_term \in [Login!Clients -> Login!Numbers \X Login!Numbers]
  BY DEF Login!TelnetTyped
<1>line. tn_line \in [Login!Clients -> [Login!Stages -> Seq(Login!Numbers)]]
  BY DEF Login!TelnetTyped
<1>1. CASE Login!Accept
  <2>1. /\ Head(tn_backlog) \in Login!Clients \X {1, 2}
        /\ Tail(tn_backlog) \in Seq(Login!Clients \X {1, 2})
    BY <1>1, HeadTailProperties DEF Login!Accept, Login!TelnetTyped
  <2> QED BY <1>1, <2>1 DEF Login!Accept, Login!TelnetTyped, Login!client, Login!child,
    Login!reaping
<1>2. CASE Login!ReadId
  <2>1. UNCHANGED <<tn_backlog, tn_zombies, tn_pending, tn_stops, tn_cpc, tn_size, tn_snap, tn_wire,
                    tn_conf, tn_kevents, tn_ws, tn_term, tn_line>>
    BY <1>2 DEF Login!ReadId, Login!reaping, Login!client, Login!Set
  <2>2. tn_spc' \in {"accept", "id", "crashed"}
    BY <1>2, <1>spc DEF Login!ReadId, Login!reaping, Login!client, Login!Set
  <2>3. (tn_spc' = "id" => tn_conn' \in Login!Clients \X {1, 2})
    BY <1>2, <1>conn DEF Login!ReadId, Login!reaping, Login!client, Login!Set
  <2>4. tn_sessions' \subseteq Login!Clients
    BY <1>2, <1>sessions, <1>conn DEF Login!ReadId, Login!reaping, Login!client,
      Login!Set
  <2>5. tn_kpc' \in
          [Login!Clients -> {"none", "row", "col", "ioctl", "handle", "wait", "gone"}]
    BY <1>2, <1>kpc, <1>conn DEF Login!ReadId, Login!reaping, Login!client, Login!Set
  <2> QED BY <2>1, <2>2, <2>3, <2>4, <2>5 DEF Login!TelnetTyped
<1>3. CASE Login!SigchldHandler
  <2>1. UNCHANGED <<tn_spc, tn_backlog, tn_conn, tn_sessions, tn_cpc, tn_size, tn_snap,
                    tn_wire, tn_conf, tn_kpc, tn_kevents, tn_ws, tn_term, tn_line>>
    BY <1>3 DEF Login!SigchldHandler, Login!server, Login!client, Login!child
  <2>2. tn_zombies' \in Nat
    BY <1>3, <1>zombies DEF Login!SigchldHandler, Login!server, Login!client, Login!child
  <2>3. tn_pending' \in Nat /\ tn_stops' \in Nat
    BY <1>3, <1>pending DEF Login!SigchldHandler, Login!server, Login!client, Login!child
  <2> QED BY <2>1, <2>2, <2>3 DEF Login!TelnetTyped
<1>4. ASSUME NEW c \in Login!Clients, Login!WriteId(c) PROVE Login!TelnetTyped'
  BY <1>4 DEF Login!WriteId, Login!reaping, Login!child, Login!Set, Login!TelnetTyped
<1>5. ASSUME NEW c \in Login!Clients, Login!Connect(c, 1) PROVE Login!TelnetTyped'
  <2>1. Append(tn_backlog, <<c, 1>>) \in Seq(Login!Clients \X {1, 2})
    BY <1>5, AppendProperties DEF Login!TelnetTyped
  <2> QED BY <1>5, <2>1 DEF Login!Connect, Login!reaping, Login!child, Login!Set,
    Login!TelnetTyped
<1>6. ASSUME NEW c \in Login!Clients, Login!Connect(c, 2) PROVE Login!TelnetTyped'
  <2>1. Append(tn_backlog, <<c, 2>>) \in Seq(Login!Clients \X {1, 2})
    BY <1>6, AppendProperties DEF Login!TelnetTyped
  <2> QED BY <1>6, <2>1 DEF Login!Connect, Login!reaping, Login!child, Login!Set,
    Login!TelnetTyped
<1>7. ASSUME NEW c \in Login!Clients, Login!SendRow(c) PROVE Login!TelnetTyped'
  <2>1. UNCHANGED <<tn_spc, tn_backlog, tn_conn, tn_zombies, tn_pending, tn_stops, tn_sessions,
                    tn_size, tn_conf, tn_kpc, tn_kevents, tn_ws, tn_term, tn_line>>
    BY <1>7 DEF Login!SendRow, Login!server, Login!reaping, Login!child, Login!Set
  <2>2. tn_cpc' \in
          [Login!Clients -> {"start", "id 1", "second", "id 2", "size", "row", "col",
                                   "size again", "row again", "col again", "loop", "enter",
                                   "poll", "handle", "done", "dead"}]
    BY <1>7, <1>cpc DEF Login!SendRow, Login!server, Login!reaping, Login!child,
      Login!Set
  <2>3. tn_snap' \in [Login!Clients -> Login!Numbers]
    BY <1>7, <1>snap, <1>size DEF Login!SendRow, Login!server, Login!reaping,
      Login!child, Login!Set
  <2>4. tn_wire' \in [Login!Clients -> Seq(Login!Numbers)]
    BY <1>7, <1>wire, <1>size, AppendProperties DEF Login!SendRow, Login!server,
      Login!reaping, Login!child, Login!Set
  <2> QED BY <2>1, <2>2, <2>3, <2>4 DEF Login!TelnetTyped
<1>8. ASSUME NEW c \in Login!Clients, Login!Confirmed(c) PROVE Login!TelnetTyped'
  <2>1. UNCHANGED <<tn_spc, tn_backlog, tn_conn, tn_zombies, tn_pending, tn_stops, tn_sessions,
                    tn_size, tn_snap, tn_kpc, tn_kevents, tn_ws, tn_term, tn_line>>
    BY <1>8 DEF Login!Confirmed, Login!server, Login!reaping, Login!child, Login!Set
  <2>2. tn_cpc' \in
          [Login!Clients -> {"start", "id 1", "second", "id 2", "size", "row", "col",
                                   "size again", "row again", "col again", "loop", "enter",
                                   "poll", "handle", "done", "dead"}]
    BY <1>8, <1>cpc DEF Login!Confirmed, Login!server, Login!reaping, Login!child,
      Login!Set
  <2>3. tn_wire' \in [Login!Clients -> Seq(Login!Numbers)]
    <3>1. Append(tn_wire[c], tn_snap[c]) \in Seq(Login!Numbers)
      BY <1>wire, <1>snap, AppendProperties
    <3>2. \/ tn_wire' = tn_wire
          \/ tn_wire' = Login!Set(tn_wire, c, Append(tn_wire[c], tn_snap[c]))
      <4>1. CASE tn_cpc[c] \in {"row", "row again"}
        BY <1>8, <4>1, Zenon DEF Login!Confirmed
      <4>2. CASE tn_cpc[c] \notin {"row", "row again"}
        BY <1>8, <4>2, Zenon DEF Login!Confirmed
      <4> QED BY <4>1, <4>2
    <3>3. Login!Set(tn_wire, c, Append(tn_wire[c], tn_snap[c]))
            \in [Login!Clients -> Seq(Login!Numbers)]
      BY <1>wire, <3>1, TelnetSet
    <3> QED BY <1>wire, <3>2, <3>3
  <2>4. tn_conf' \in [Login!Clients -> Int]
    <3>1. tn_conf[c] - 1 \in Int
      BY <1>conf
    <3>2. tn_conf' = Login!Set(tn_conf, c, tn_conf[c] - 1)
      BY <1>8 DEF Login!Confirmed
    <3> QED BY <1>conf, <3>1, <3>2, TelnetSet
  <2> QED BY <2>1, <2>2, <2>3, <2>4 DEF Login!TelnetTyped
<1>9. ASSUME NEW c \in Login!Clients, Login!TestFlag(c) PROVE Login!TelnetTyped'
  BY <1>9 DEF Login!TestFlag, Login!server, Login!reaping, Login!child, Login!Set,
    Login!TelnetTyped
<1>10. ASSUME NEW c \in Login!Clients, Login!Enter(c) PROVE Login!TelnetTyped'
  BY <1>10 DEF Login!Enter, Login!server, Login!reaping, Login!child, Login!Set,
    Login!TelnetTyped
<1>11. ASSUME NEW c \in Login!Clients, Login!EpollWait(c) PROVE Login!TelnetTyped'
  BY <1>11 DEF Login!EpollWait, Login!server, Login!reaping, Login!child, Login!Set,
    Login!TelnetTyped
<1>12. ASSUME NEW c \in Login!Clients, Login!HandleEvent(c) PROVE Login!TelnetTyped'
  <2>1. UNCHANGED <<tn_spc, tn_backlog, tn_conn, tn_zombies, tn_pending, tn_stops, tn_sessions,
                    tn_size, tn_snap, tn_wire, tn_conf, tn_kpc, tn_kevents, tn_ws, tn_term>>
    BY <1>12 DEF Login!HandleEvent, Login!server, Login!reaping, Login!child, Login!Set,
      Login!Move
  <2>2. tn_cpc' \in
          [Login!Clients -> {"start", "id 1", "second", "id 2", "size", "row", "col",
                                   "size again", "row again", "col again", "loop", "enter",
                                   "poll", "handle", "done", "dead"}]
    BY <1>12, <1>cpc DEF Login!HandleEvent, Login!server, Login!reaping, Login!child,
      Login!Set, Login!Move
  <2>3. tn_line' \in [Login!Clients -> [Login!Stages -> Seq(Login!Numbers)]]
    <3>1. \/ tn_line' = tn_line
          \/ Login!Move(c, "down", "shown")
          \/ Login!Move(c, "keys", "up")
      BY <1>12 DEF Login!HandleEvent
    <3>2. /\ "down" \in Login!Stages
          /\ "shown" \in Login!Stages
          /\ "keys" \in Login!Stages
          /\ "up" \in Login!Stages
      BY DEF Login!Stages
    <3> QED BY <1>line, <3>1, <3>2, StageMoved
  <2> QED BY <2>1, <2>2, <2>3 DEF Login!TelnetTyped
<1>13. ASSUME NEW c \in Login!Clients, Login!Fail(c) PROVE Login!TelnetTyped'
  BY <1>13 DEF Login!Fail, Login!server, Login!reaping, Login!child, Login!Set,
    Login!TelnetTyped
<1>14. ASSUME NEW c \in Login!Clients, Login!Winch(c) PROVE Login!TelnetTyped'
  <2>1. UNCHANGED <<tn_spc, tn_backlog, tn_conn, tn_zombies, tn_pending, tn_stops, tn_sessions,
                    tn_snap, tn_wire, tn_conf, tn_kpc, tn_kevents, tn_ws, tn_term, tn_line>>
    BY <1>14 DEF Login!Winch, Login!server, Login!reaping, Login!child, Login!Set
  <2>2. tn_cpc' \in
          [Login!Clients -> {"start", "id 1", "second", "id 2", "size", "row", "col",
                                   "size again", "row again", "col again", "loop", "enter",
                                   "poll", "handle", "done", "dead"}]
    BY <1>14, <1>cpc DEF Login!Winch, Login!server, Login!reaping, Login!child, Login!Set
  <2>3. tn_size' \in [Login!Clients -> Login!Numbers]
    <3>1. tn_size[c] + 1 \in Login!Numbers
      BY <1>size DEF Login!Numbers
    <3> QED BY <1>14, <1>size, <3>1, TelnetSet DEF Login!Winch
  <2> QED BY <2>1, <2>2, <2>3 DEF Login!TelnetTyped
<1>15. ASSUME NEW c \in Login!Clients, Login!Type(c) PROVE Login!TelnetTyped'
  <2>1. UNCHANGED <<tn_spc, tn_backlog, tn_conn, tn_zombies, tn_pending, tn_stops, tn_sessions,
                    tn_cpc, tn_size, tn_snap, tn_wire, tn_conf, tn_kpc, tn_kevents, tn_ws,
                    tn_term>>
    BY <1>15 DEF Login!Type, Login!server, Login!reaping, Login!client, Login!child
  <2>2. tn_line' \in [Login!Clients -> [Login!Stages -> Seq(Login!Numbers)]]
    BY <1>15, KeyAdded
  <2> QED BY <2>1, <2>2 DEF Login!TelnetTyped
<1>16. ASSUME NEW c \in Login!Clients, Login!Kill(c) PROVE Login!TelnetTyped'
  BY <1>16 DEF Login!Kill, Login!server, Login!reaping, Login!child, Login!Set,
    Login!TelnetTyped
<1>17. ASSUME NEW c \in Login!Clients, Login!ReceiveNumber(c) PROVE Login!TelnetTyped'
  <2>1. UNCHANGED <<tn_spc, tn_backlog, tn_conn, tn_zombies, tn_pending, tn_stops, tn_sessions,
                    tn_cpc, tn_size, tn_snap, tn_kevents, tn_term, tn_line>>
    BY <1>17 DEF Login!ReceiveNumber, Login!server, Login!reaping, Login!client, Login!Set
  <2>2. tn_wire' \in [Login!Clients -> Seq(Login!Numbers)]
    BY <1>17, <1>wire, HeadTailProperties DEF Login!ReceiveNumber, Login!server,
      Login!reaping, Login!client, Login!Set
  <2>3. tn_conf' \in [Login!Clients -> Int]
    BY <1>17, <1>conf DEF Login!ReceiveNumber, Login!server, Login!reaping, Login!client,
      Login!Set
  <2>4. tn_kpc' \in
          [Login!Clients -> {"none", "row", "col", "ioctl", "handle", "wait", "gone"}]
    BY <1>17, <1>kpc DEF Login!ReceiveNumber, Login!server, Login!reaping, Login!client,
      Login!Set
  <2>5. tn_ws' \in [Login!Clients -> Login!Numbers \X Login!Numbers]
    <3>1. /\ Head(tn_wire[c]) \in Login!Numbers
          /\ tn_ws[c][1] \in Login!Numbers
          /\ tn_ws[c][2] \in Login!Numbers
      BY <1>17, <1>wire, <1>ws, HeadTailProperties DEF Login!ReceiveNumber
    <3>2. \/ tn_ws' = Login!Set(tn_ws, c, <<Head(tn_wire[c]), tn_ws[c][2]>>)
          \/ tn_ws' = Login!Set(tn_ws, c, <<tn_ws[c][1], Head(tn_wire[c])>>)
      BY <1>17 DEF Login!ReceiveNumber
    <3>3. /\ <<Head(tn_wire[c]), tn_ws[c][2]>> \in Login!Numbers \X Login!Numbers
          /\ <<tn_ws[c][1], Head(tn_wire[c])>> \in Login!Numbers \X Login!Numbers
      BY <3>1, PairOfNumbers
    <3>4. \A p \in Login!Numbers \X Login!Numbers :
            Login!Set(tn_ws, c, p) \in [Login!Clients -> Login!Numbers \X Login!Numbers]
      BY <1>ws, TelnetSet
    <3> QED BY <3>2, <3>3, <3>4
  <2> QED BY <2>1, <2>2, <2>3, <2>4, <2>5 DEF Login!TelnetTyped
<1>18. ASSUME NEW c \in Login!Clients, Login!ClientLeft(c) PROVE Login!TelnetTyped'
  <2>1. UNCHANGED <<tn_spc, tn_backlog, tn_conn, tn_sessions, tn_cpc, tn_size, tn_snap,
                    tn_wire, tn_conf, tn_kevents, tn_ws, tn_term, tn_line>>
    BY <1>18 DEF Login!ClientLeft, Login!server, Login!client, Login!EndChild, Login!Set
  <2>2. tn_zombies' \in Nat
    <3>1. tn_zombies' = tn_zombies + 1
      BY <1>18 DEF Login!ClientLeft, Login!EndChild
    <3> QED BY <1>zombies, <3>1
  <2>3. tn_pending' \in Nat /\ tn_stops' \in Nat
    BY <1>18, <1>pending, SigchldRaised DEF Login!ClientLeft, Login!EndChild
  <2>4. tn_kpc' \in
          [Login!Clients -> {"none", "row", "col", "ioctl", "handle", "wait", "gone"}]
    BY <1>18, <1>kpc DEF Login!ClientLeft, Login!server, Login!client, Login!EndChild,
      Login!Set
  <2> QED BY <2>1, <2>2, <2>3, <2>4 DEF Login!TelnetTyped
<1>19. ASSUME NEW c \in Login!Clients, Login!SetWinsize(c) PROVE Login!TelnetTyped'
  BY <1>19 DEF Login!SetWinsize, Login!server, Login!reaping, Login!client, Login!Set,
    Login!TelnetTyped
<1>20. ASSUME NEW c \in Login!Clients, Login!ChildWait(c) PROVE Login!TelnetTyped'
  <2>1. UNCHANGED <<tn_spc, tn_backlog, tn_conn, tn_zombies, tn_pending, tn_stops, tn_sessions,
                    tn_cpc, tn_size, tn_snap, tn_wire, tn_conf, tn_ws, tn_term, tn_line>>
    BY <1>20 DEF Login!ChildWait, Login!server, Login!reaping, Login!client, Login!Set
  <2>2. tn_kpc' \in
          [Login!Clients -> {"none", "row", "col", "ioctl", "handle", "wait", "gone"}]
    BY <1>20, <1>kpc DEF Login!ChildWait, Login!server, Login!reaping, Login!client,
      Login!Set, Login!KReady
  <2>3. tn_kevents' \in
          [Login!Clients -> SUBSET {"cl hup", "prio hup", "cl", "prio", "master"}]
    <3>1. PICK S \in SUBSET Login!KReady(c) : tn_kevents' = Login!Set(tn_kevents, c, S)
      BY <1>20 DEF Login!ChildWait
    <3>2. Login!KReady(c) \subseteq {"cl hup", "prio hup", "cl", "prio", "master"}
      BY DEF Login!KReady
    <3> QED BY <1>kevents, <3>1, <3>2, TelnetSet
  <2> QED BY <2>1, <2>2, <2>3 DEF Login!TelnetTyped
<1>21. ASSUME NEW c \in Login!Clients, Login!ChildEvent(c) PROVE Login!TelnetTyped'
  <2>1. UNCHANGED <<tn_spc, tn_backlog, tn_conn, tn_sessions, tn_cpc, tn_size, tn_snap,
                    tn_wire, tn_conf, tn_ws, tn_term>>
    BY <1>21 DEF Login!ChildEvent, Login!server, Login!reaping, Login!client, Login!Set,
      Login!EndChild, Login!Move
  <2>2. tn_zombies' \in Nat
    <3>1. tn_zombies' = tn_zombies \/ tn_zombies' = tn_zombies + 1
      BY <1>21 DEF Login!ChildEvent, Login!EndChild, Login!reaping
    <3> QED BY <1>zombies, <3>1
  <2>3. tn_pending' \in Nat /\ tn_stops' \in Nat
    <3>1. \/ tn_pending' = tn_pending /\ tn_stops' = tn_stops
          \/ Login!Sigchld /\ tn_stops' = tn_stops
      BY <1>21 DEF Login!ChildEvent, Login!EndChild, Login!reaping
    <3> QED BY <1>pending, <3>1, SigchldRaised
  <2>4. tn_kpc' \in
          [Login!Clients -> {"none", "row", "col", "ioctl", "handle", "wait", "gone"}]
    BY <1>21, <1>kpc DEF Login!ChildEvent, Login!server, Login!reaping, Login!client,
      Login!Set, Login!EndChild, Login!Move
  <2>5. tn_kevents' \in
          [Login!Clients -> SUBSET {"cl hup", "prio hup", "cl", "prio", "master"}]
    BY <1>21, <1>kevents DEF Login!ChildEvent, Login!server, Login!reaping, Login!client,
      Login!Set, Login!EndChild, Login!Move
  <2>6. tn_line' \in [Login!Clients -> [Login!Stages -> Seq(Login!Numbers)]]
    <3>1. tn_line' = tn_line \/ Login!Move(c, "up", "tty") \/ Login!Move(c, "out", "down")
      BY <1>21 DEF Login!ChildEvent
    <3>2. /\ "up" \in Login!Stages
          /\ "tty" \in Login!Stages
          /\ "out" \in Login!Stages
          /\ "down" \in Login!Stages
      BY DEF Login!Stages
    <3> QED BY <1>line, <3>1, <3>2, StageMoved
  <2> QED BY <2>1, <2>2, <2>3, <2>4, <2>5, <2>6 DEF Login!TelnetTyped
<1>22. ASSUME NEW c \in Login!Clients, Login!Shell(c) PROVE Login!TelnetTyped'
  <2>1. UNCHANGED <<tn_spc, tn_backlog, tn_conn, tn_zombies, tn_pending, tn_stops, tn_sessions,
                    tn_cpc, tn_size, tn_snap, tn_wire, tn_conf, tn_kpc, tn_kevents, tn_ws,
                    tn_term>>
    BY <1>22 DEF Login!Shell, Login!server, Login!reaping, Login!client, Login!Set,
      Login!Move
  <2>2. tn_line' \in [Login!Clients -> [Login!Stages -> Seq(Login!Numbers)]]
    <3>1. tn_line' = tn_line \/ Login!Move(c, "tty", "out")
      BY <1>22 DEF Login!Shell
    <3>2. "tty" \in Login!Stages /\ "out" \in Login!Stages
      BY DEF Login!Stages
    <3> QED BY <1>line, <3>1, <3>2, StageMoved
  <2> QED BY <2>1, <2>2 DEF Login!TelnetTyped
<1>24. ASSUME NEW c \in Login!Clients, Login!ShellSignal(c) PROVE Login!TelnetTyped'
  <2>1. CASE tn_kpc' = tn_kpc /\ UNCHANGED <<tn_zombies, tn_pending, tn_stops>>
    BY <1>24, <2>1, ShellEnded DEF Login!TelnetTyped
  <2>2. CASE /\ tn_kpc' = Login!Set(tn_kpc, c, "gone") /\ tn_zombies' = tn_zombies + 1
             /\ Login!Sigchld /\ tn_stops' = tn_stops
    <3>1. tn_zombies' \in Nat /\ tn_pending' \in Nat /\ tn_stops' \in Nat
      BY <1>zombies, <1>pending, <2>2, SigchldRaised
    <3>2. tn_kpc' \in
            [Login!Clients -> {"none", "row", "col", "ioctl", "handle", "wait", "gone"}]
      BY <1>kpc, <2>2, TelnetSet
    <3>3. UNCHANGED <<tn_spc, tn_backlog, tn_conn, tn_sessions, tn_cpc, tn_size, tn_snap,
                      tn_wire, tn_conf, tn_kevents, tn_ws, tn_term, tn_line>>
      BY <1>24, ShellEnded
    <3> QED BY <3>1, <3>2, <3>3 DEF Login!TelnetTyped
  <2> QED BY <1>24, <2>1, <2>2, ShellEnded
<1>25. ASSUME NEW c \in Login!Clients, Login!Stop(c) PROVE Login!TelnetTyped'
  <2>1. tn_pending' \in Nat /\ tn_stops' \in Nat
    BY <1>25, <1>pending, ChildStopped, SigchldRaised
  <2> QED BY <1>25, <2>1, ChildStopped DEF Login!TelnetTyped
<1>23. CASE UNCHANGED Login!vars
  BY <1>23 DEF Login!vars, Login!TelnetTyped
<1> QED
  BY <1>1, <1>2, <1>3, <1>4, <1>5, <1>6, <1>7, <1>8, <1>9, <1>10, <1>11, <1>12, <1>13,
    <1>14, <1>15, <1>16, <1>17, <1>18, <1>19, <1>20, <1>21, <1>22, <1>23,
    <1>24, <1>25
    DEF Login!Next, Login!Programs, Login!ClientStep, Login!ChildStep

\* Connections only come to be made, and to be read.
LEMMA SameQueue ==
  ASSUME Login!TelnetTyped, Login!QueueInv, UNCHANGED <<tn_backlog, tn_conn, tn_spc>>,
         \A d \in Login!Clients : tn_cpc'[d] = "start" => tn_cpc[d] = "start",
         \A d \in Login!Clients : tn_cpc'[d] \in {"id 1", "second"} =>
           tn_cpc[d] \in {"start", "id 1", "second"}
  PROVE  /\ Login!QueueInv'
         /\ \A d \in Login!Clients, k \in {1, 2} : Login!Comes(d, k)' => Login!Comes(d, k)
<1>1. \A d \in Login!Clients, k \in {1, 2} : Login!ToCome(d, k)' => Login!ToCome(d, k)
  BY DEF Login!ToCome
<1>2. \A d \in Login!Clients, k \in {1, 2} : Login!Waiting(d, k)' <=> Login!Waiting(d, k)
  BY DEF Login!Waiting
<1> QED BY <1>1, <1>2 DEF Login!QueueInv, Login!Comes

\* A connection made is one that was to come.
LEMMA ConnectionMade ==
  ASSUME Login!TelnetTyped, Login!QueueInv, NEW c \in Login!Clients, NEW k \in {1, 2},
         tn_backlog' = Append(tn_backlog, <<c, k>>), UNCHANGED <<tn_conn, tn_spc>>,
         Login!ToCome(c, k), ~Login!ToCome(c, k)',
         \A d \in Login!Clients, j \in {1, 2} : Login!ToCome(d, j)' => Login!ToCome(d, j)
  PROVE  /\ Login!QueueInv'
         /\ \A d \in Login!Clients, j \in {1, 2} : Login!Comes(d, j)' => Login!Comes(d, j)
<1> DEFINE q == <<c, k>>
<1>3. q \in Login!Clients \X {1, 2} /\ tn_backlog \in Seq(Login!Clients \X {1, 2})
  BY DEF Login!TelnetTyped
<1>4. /\ q \notin Login!In(tn_backlog)
      /\ ~(tn_spc = "id" /\ tn_conn = q)
      /\ Login!Once(tn_backlog)
  BY DEF Login!QueueInv, Login!Waiting
<1> HIDE DEF q
<1>5. Login!In(tn_backlog') = Login!In(tn_backlog) \cup {q} /\ Login!Once(tn_backlog')
  <2>1. tn_backlog' = Append(tn_backlog, q)
    BY DEF q
  <2> QED BY <1>3, <1>4, <2>1, TelnetEnters
<1>6. \A d \in Login!Clients, j \in {1, 2} : Login!Waiting(d, j)' =>
        Login!Waiting(d, j) \/ <<d, j>> = q
  BY <1>5 DEF Login!Waiting
<1>7. \A d \in Login!Clients, j \in {1, 2} : <<d, j>> = q => d = c /\ j = k
  BY DEF q
<1> QED BY <1>4, <1>5, <1>6, <1>7 DEF Login!QueueInv, Login!Comes

\* What the server has read of a connection does not come again.
LEMMA ConnectionRead ==
  ASSUME Login!TelnetTyped, Login!QueueInv, tn_spc = "id", tn_spc' # "id",
         UNCHANGED <<tn_backlog, tn_cpc>>
  PROVE  /\ Login!QueueInv' 
         /\ \A d \in Login!Clients, k \in {1, 2} : Login!Comes(d, k)' =>
              Login!Comes(d, k) /\ <<d, k>> # tn_conn
<1>1. \A d \in Login!Clients, k \in {1, 2} : Login!Waiting(d, k)' =>
        Login!Waiting(d, k) /\ <<d, k>> # tn_conn
  BY DEF Login!Waiting, Login!QueueInv
<1>2. \A d \in Login!Clients, k \in {1, 2} : Login!ToCome(d, k)' <=> Login!ToCome(d, k)
  BY DEF Login!ToCome
<1>3. \A d \in Login!Clients, k \in {1, 2} : <<d, k>> = tn_conn => ~Login!ToCome(d, k)
  BY DEF Login!QueueInv, Login!Waiting
<1> QED BY <1>1, <1>2, <1>3 DEF Login!QueueInv, Login!Comes

\* Who waits in the queue.
LEMMA TelnetQueue ==
  ASSUME Login!TelnetTyped, Login!QueueInv, [Login!Next]_Login!vars
  PROVE  /\ Login!QueueInv'
         /\ \A d \in Login!Clients, k \in {1, 2} : Login!Comes(d, k)' => Login!Comes(d, k)
<1> DEFINE Kept ==
       /\ Login!QueueInv'
       /\ \A d \in Login!Clients, k \in {1, 2} : Login!Comes(d, k)' => Login!Comes(d, k)
<1>1. CASE Login!Accept
  <2>1. /\ Tail(tn_backlog) \in Seq(Login!Clients \X {1, 2})
        /\ Head(tn_backlog) \in Login!In(tn_backlog)
        /\ Login!In(Tail(tn_backlog)) \subseteq Login!In(tn_backlog)
        /\ Head(tn_backlog) \notin Login!In(Tail(tn_backlog))
        /\ Login!Once(Tail(tn_backlog))
    <3>1. /\ tn_backlog \in Seq(Login!Clients \X {1, 2})
          /\ tn_backlog # <<>>
          /\ Login!Once(tn_backlog)
      BY <1>1 DEF Login!Accept, Login!TelnetTyped, Login!QueueInv
    <3> QED BY <3>1, TelnetLeaves
  <2>2. /\ tn_conn' = Head(tn_backlog)
        /\ tn_backlog' = Tail(tn_backlog)
        /\ tn_spc' = "id"
        /\ tn_cpc' = tn_cpc
    BY <1>1 DEF Login!Accept, Login!client
  <2>3. \A d \in Login!Clients, k \in {1, 2} : Login!Waiting(d, k)' => Login!Waiting(d, k)
    BY <2>1, <2>2 DEF Login!Waiting
  <2>4. \A d \in Login!Clients, k \in {1, 2} : Login!ToCome(d, k)' <=> Login!ToCome(d, k)
    BY <2>2 DEF Login!ToCome
  <2> QED BY <2>1, <2>2, <2>3, <2>4 DEF Login!QueueInv, Login!Comes
<1>2. CASE Login!ReadId
  <2>1. tn_spc = "id" /\ tn_spc' # "id" /\ UNCHANGED <<tn_backlog, tn_cpc>>
    BY <1>2 DEF Login!ReadId, Login!client
  <2> QED BY <2>1, ConnectionRead
<1>3. CASE Login!SigchldHandler
  BY <1>3, SameQueue DEF Login!SigchldHandler, Login!server, Login!client
<1>4. ASSUME NEW c \in Login!Clients, Login!WriteId(c)
      PROVE  Kept
  <2>1. UNCHANGED <<tn_backlog, tn_conn, tn_spc>>
    BY <1>4 DEF Login!WriteId
  <2>2. \A d \in Login!Clients : tn_cpc'[d] = "start" => tn_cpc[d] = "start"
    BY <1>4 DEF Login!WriteId, Login!Set, Login!TelnetTyped
  <2>3. \A d \in Login!Clients : tn_cpc'[d] \in {"id 1", "second"} =>
          tn_cpc[d] \in {"start", "id 1", "second"}
    BY <1>4 DEF Login!WriteId, Login!Set, Login!TelnetTyped
  <2> QED BY <2>1, <2>2, <2>3, SameQueue
<1>5. ASSUME NEW c \in Login!Clients, Login!Connect(c, 1)
      PROVE  Kept
  <2>0. 2 # 1
    OBVIOUS
  <2>1. /\ tn_backlog' = Append(tn_backlog, <<c, 1>>)
        /\ UNCHANGED <<tn_conn, tn_spc>>
        /\ tn_cpc[c] = "start"
    BY <1>5, <2>0, Zenon DEF Login!Connect
  <2>4. tn_cpc' = [tn_cpc EXCEPT ![c] = "id 1"]
    BY <1>5, <2>0, Zenon DEF Login!Connect, Login!Set
  <2>2. \A d \in Login!Clients : tn_cpc'[d] = IF d = c THEN "id 1" ELSE tn_cpc[d]
    BY <2>4 DEF Login!TelnetTyped
  <2>3. /\ Login!ToCome(c, 1) /\ ~Login!ToCome(c, 1)'
        /\ \A d \in Login!Clients, j \in {1, 2} : Login!ToCome(d, j)' => Login!ToCome(d, j)
    BY <2>0, <2>1, <2>2 DEF Login!ToCome
  <2> QED BY <2>1, <2>3, ConnectionMade
<1>6. ASSUME NEW c \in Login!Clients, Login!Connect(c, 2)
      PROVE  Kept
  <2>0. 2 # 1
    OBVIOUS
  <2>1. /\ tn_backlog' = Append(tn_backlog, <<c, 2>>)
        /\ UNCHANGED <<tn_conn, tn_spc>>
        /\ tn_cpc[c] = "second"
    BY <1>6, <2>0, Zenon DEF Login!Connect
  <2>4. tn_cpc' = [tn_cpc EXCEPT ![c] = "id 2"]
    BY <1>6, <2>0, Zenon DEF Login!Connect, Login!Set
  <2>2. \A d \in Login!Clients : tn_cpc'[d] = IF d = c THEN "id 2" ELSE tn_cpc[d]
    BY <2>4 DEF Login!TelnetTyped
  <2>3. /\ Login!ToCome(c, 2) /\ ~Login!ToCome(c, 2)'
        /\ \A d \in Login!Clients, j \in {1, 2} : Login!ToCome(d, j)' => Login!ToCome(d, j)
    BY <2>0, <2>1, <2>2 DEF Login!ToCome
  <2> QED BY <2>1, <2>3, ConnectionMade
<1>7. ASSUME NEW c \in Login!Clients, Login!SendRow(c)
      PROVE  Kept
  <2>1. UNCHANGED <<tn_backlog, tn_conn, tn_spc>>
    BY <1>7 DEF Login!SendRow, Login!server
  <2>2. \A d \in Login!Clients : tn_cpc'[d] = "start" => tn_cpc[d] = "start"
    BY <1>7 DEF Login!SendRow, Login!Set, Login!TelnetTyped
  <2>3. \A d \in Login!Clients : tn_cpc'[d] \in {"id 1", "second"} =>
          tn_cpc[d] \in {"start", "id 1", "second"}
    BY <1>7 DEF Login!SendRow, Login!Set, Login!TelnetTyped
  <2> QED BY <2>1, <2>2, <2>3, SameQueue
<1>8. ASSUME NEW c \in Login!Clients, Login!Confirmed(c)
      PROVE  Kept
  <2>1. UNCHANGED <<tn_backlog, tn_conn, tn_spc>>
    BY <1>8 DEF Login!Confirmed, Login!server
  <2>2. \A d \in Login!Clients : tn_cpc'[d] = "start" => tn_cpc[d] = "start"
    BY <1>8 DEF Login!Confirmed, Login!Set, Login!TelnetTyped
  <2>3. \A d \in Login!Clients : tn_cpc'[d] \in {"id 1", "second"} =>
          tn_cpc[d] \in {"start", "id 1", "second"}
    BY <1>8 DEF Login!Confirmed, Login!Set, Login!TelnetTyped
  <2> QED BY <2>1, <2>2, <2>3, SameQueue
<1>9. ASSUME NEW c \in Login!Clients, Login!TestFlag(c)
      PROVE  Kept
  <2>1. UNCHANGED <<tn_backlog, tn_conn, tn_spc>>
    BY <1>9 DEF Login!TestFlag, Login!server
  <2>2. \A d \in Login!Clients : tn_cpc'[d] = "start" => tn_cpc[d] = "start"
    BY <1>9 DEF Login!TestFlag, Login!Set, Login!TelnetTyped
  <2>3. \A d \in Login!Clients : tn_cpc'[d] \in {"id 1", "second"} =>
          tn_cpc[d] \in {"start", "id 1", "second"}
    BY <1>9 DEF Login!TestFlag, Login!Set, Login!TelnetTyped
  <2> QED BY <2>1, <2>2, <2>3, SameQueue
<1>10. ASSUME NEW c \in Login!Clients, Login!Enter(c)
       PROVE  Kept
  <2>1. UNCHANGED <<tn_backlog, tn_conn, tn_spc>>
    BY <1>10 DEF Login!Enter, Login!server
  <2>2. \A d \in Login!Clients : tn_cpc'[d] = "start" => tn_cpc[d] = "start"
    BY <1>10 DEF Login!Enter, Login!Set, Login!TelnetTyped
  <2>3. \A d \in Login!Clients : tn_cpc'[d] \in {"id 1", "second"} =>
          tn_cpc[d] \in {"start", "id 1", "second"}
    BY <1>10 DEF Login!Enter, Login!Set, Login!TelnetTyped
  <2> QED BY <2>1, <2>2, <2>3, SameQueue
<1>11. ASSUME NEW c \in Login!Clients, Login!EpollWait(c)
       PROVE  Kept
  <2>1. UNCHANGED <<tn_backlog, tn_conn, tn_spc>>
    BY <1>11 DEF Login!EpollWait, Login!server
  <2>2. \A d \in Login!Clients : tn_cpc'[d] = "start" => tn_cpc[d] = "start"
    BY <1>11 DEF Login!EpollWait, Login!Set, Login!TelnetTyped
  <2>3. \A d \in Login!Clients : tn_cpc'[d] \in {"id 1", "second"} =>
          tn_cpc[d] \in {"start", "id 1", "second"}
    BY <1>11 DEF Login!EpollWait, Login!Set, Login!TelnetTyped
  <2> QED BY <2>1, <2>2, <2>3, SameQueue
<1>12. ASSUME NEW c \in Login!Clients, Login!HandleEvent(c)
       PROVE  Kept
  <2>1. UNCHANGED <<tn_backlog, tn_conn, tn_spc>>
    BY <1>12 DEF Login!HandleEvent, Login!server
  <2>2. \A d \in Login!Clients : tn_cpc'[d] = "start" => tn_cpc[d] = "start"
    BY <1>12 DEF Login!HandleEvent, Login!Set, Login!TelnetTyped
  <2>3. \A d \in Login!Clients : tn_cpc'[d] \in {"id 1", "second"} =>
          tn_cpc[d] \in {"start", "id 1", "second"}
    BY <1>12 DEF Login!HandleEvent, Login!Set, Login!TelnetTyped
  <2> QED BY <2>1, <2>2, <2>3, SameQueue
<1>13. ASSUME NEW c \in Login!Clients, Login!Fail(c)
       PROVE  Kept
  <2>1. UNCHANGED <<tn_backlog, tn_conn, tn_spc>>
    BY <1>13 DEF Login!Fail, Login!server
  <2>2. \A d \in Login!Clients : tn_cpc'[d] = "start" => tn_cpc[d] = "start"
    BY <1>13 DEF Login!Fail, Login!Set, Login!TelnetTyped
  <2>3. \A d \in Login!Clients : tn_cpc'[d] \in {"id 1", "second"} =>
          tn_cpc[d] \in {"start", "id 1", "second"}
    BY <1>13 DEF Login!Fail, Login!Set, Login!TelnetTyped
  <2> QED BY <2>1, <2>2, <2>3, SameQueue
<1>14. ASSUME NEW c \in Login!Clients, Login!Winch(c)
       PROVE  Kept
  <2>1. UNCHANGED <<tn_backlog, tn_conn, tn_spc>>
    BY <1>14 DEF Login!Winch, Login!server
  <2>2. \A d \in Login!Clients : tn_cpc'[d] = "start" => tn_cpc[d] = "start"
    BY <1>14 DEF Login!Winch, Login!Set, Login!TelnetTyped
  <2>3. \A d \in Login!Clients : tn_cpc'[d] \in {"id 1", "second"} =>
          tn_cpc[d] \in {"start", "id 1", "second"}
    BY <1>14 DEF Login!Winch, Login!Set, Login!TelnetTyped
  <2> QED BY <2>1, <2>2, <2>3, SameQueue
<1>15. ASSUME NEW c \in Login!Clients, Login!Type(c)
       PROVE  Kept
  <2>1. UNCHANGED <<tn_backlog, tn_conn, tn_spc>>
    BY <1>15 DEF Login!Type, Login!server
  <2>2. \A d \in Login!Clients : tn_cpc'[d] = "start" => tn_cpc[d] = "start"
    BY <1>15 DEF Login!Type, Login!client, Login!TelnetTyped
  <2>3. \A d \in Login!Clients : tn_cpc'[d] \in {"id 1", "second"} =>
          tn_cpc[d] \in {"start", "id 1", "second"}
    BY <1>15 DEF Login!Type, Login!client, Login!TelnetTyped
  <2> QED BY <2>1, <2>2, <2>3, SameQueue
<1>16. ASSUME NEW c \in Login!Clients, Login!Kill(c)
       PROVE  Kept
  <2>1. UNCHANGED <<tn_backlog, tn_conn, tn_spc>>
    BY <1>16 DEF Login!Kill, Login!server
  <2>2. \A d \in Login!Clients : tn_cpc'[d] = "start" => tn_cpc[d] = "start"
    BY <1>16 DEF Login!Kill, Login!Set, Login!TelnetTyped
  <2>3. \A d \in Login!Clients : tn_cpc'[d] \in {"id 1", "second"} =>
          tn_cpc[d] \in {"start", "id 1", "second"}
    BY <1>16 DEF Login!Kill, Login!Set, Login!TelnetTyped
  <2> QED BY <2>1, <2>2, <2>3, SameQueue
<1>17. ASSUME NEW c \in Login!Clients, Login!ReceiveNumber(c)
       PROVE  Kept
  <2>1. UNCHANGED <<tn_backlog, tn_conn, tn_spc>>
    BY <1>17 DEF Login!ReceiveNumber, Login!server
  <2>2. \A d \in Login!Clients : tn_cpc'[d] = "start" => tn_cpc[d] = "start"
    BY <1>17 DEF Login!ReceiveNumber, Login!client, Login!TelnetTyped
  <2>3. \A d \in Login!Clients : tn_cpc'[d] \in {"id 1", "second"} =>
          tn_cpc[d] \in {"start", "id 1", "second"}
    BY <1>17 DEF Login!ReceiveNumber, Login!client, Login!TelnetTyped
  <2> QED BY <2>1, <2>2, <2>3, SameQueue
<1>18. ASSUME NEW c \in Login!Clients, Login!ClientLeft(c)
       PROVE  Kept
  <2>1. UNCHANGED <<tn_backlog, tn_conn, tn_spc>>
    BY <1>18 DEF Login!ClientLeft, Login!server
  <2>2. \A d \in Login!Clients : tn_cpc'[d] = "start" => tn_cpc[d] = "start"
    BY <1>18 DEF Login!ClientLeft, Login!client, Login!TelnetTyped
  <2>3. \A d \in Login!Clients : tn_cpc'[d] \in {"id 1", "second"} =>
          tn_cpc[d] \in {"start", "id 1", "second"}
    BY <1>18 DEF Login!ClientLeft, Login!client, Login!TelnetTyped
  <2> QED BY <2>1, <2>2, <2>3, SameQueue
<1>19. ASSUME NEW c \in Login!Clients, Login!SetWinsize(c)
       PROVE  Kept
  <2>1. UNCHANGED <<tn_backlog, tn_conn, tn_spc>>
    BY <1>19 DEF Login!SetWinsize, Login!server
  <2>2. \A d \in Login!Clients : tn_cpc'[d] = "start" => tn_cpc[d] = "start"
    BY <1>19 DEF Login!SetWinsize, Login!client, Login!TelnetTyped
  <2>3. \A d \in Login!Clients : tn_cpc'[d] \in {"id 1", "second"} =>
          tn_cpc[d] \in {"start", "id 1", "second"}
    BY <1>19 DEF Login!SetWinsize, Login!client, Login!TelnetTyped
  <2> QED BY <2>1, <2>2, <2>3, SameQueue
<1>20. ASSUME NEW c \in Login!Clients, Login!ChildWait(c)
       PROVE  Kept
  <2>1. UNCHANGED <<tn_backlog, tn_conn, tn_spc>>
    BY <1>20 DEF Login!ChildWait, Login!server
  <2>2. \A d \in Login!Clients : tn_cpc'[d] = "start" => tn_cpc[d] = "start"
    BY <1>20 DEF Login!ChildWait, Login!client, Login!TelnetTyped
  <2>3. \A d \in Login!Clients : tn_cpc'[d] \in {"id 1", "second"} =>
          tn_cpc[d] \in {"start", "id 1", "second"}
    BY <1>20 DEF Login!ChildWait, Login!client, Login!TelnetTyped
  <2> QED BY <2>1, <2>2, <2>3, SameQueue
<1>21. ASSUME NEW c \in Login!Clients, Login!ChildEvent(c)
       PROVE  Kept
  <2>1. UNCHANGED <<tn_backlog, tn_conn, tn_spc>>
    BY <1>21 DEF Login!ChildEvent, Login!server
  <2>2. \A d \in Login!Clients : tn_cpc'[d] = "start" => tn_cpc[d] = "start"
    BY <1>21 DEF Login!ChildEvent, Login!client, Login!TelnetTyped
  <2>3. \A d \in Login!Clients : tn_cpc'[d] \in {"id 1", "second"} =>
          tn_cpc[d] \in {"start", "id 1", "second"}
    BY <1>21 DEF Login!ChildEvent, Login!client, Login!TelnetTyped
  <2> QED BY <2>1, <2>2, <2>3, SameQueue
<1>22. ASSUME NEW c \in Login!Clients, Login!Shell(c)
       PROVE  Kept
  <2>1. UNCHANGED <<tn_backlog, tn_conn, tn_spc>>
    BY <1>22 DEF Login!Shell, Login!server
  <2>2. \A d \in Login!Clients : tn_cpc'[d] = "start" => tn_cpc[d] = "start"
    BY <1>22 DEF Login!Shell, Login!client, Login!TelnetTyped
  <2>3. \A d \in Login!Clients : tn_cpc'[d] \in {"id 1", "second"} =>
          tn_cpc[d] \in {"start", "id 1", "second"}
    BY <1>22 DEF Login!Shell, Login!client, Login!TelnetTyped
  <2> QED BY <2>1, <2>2, <2>3, SameQueue
<1>24. ASSUME NEW c \in Login!Clients, Login!ShellSignal(c)
       PROVE  Kept
  BY <1>24, ShellEnded, SameQueue
<1>25. ASSUME NEW c \in Login!Clients, Login!Stop(c)
       PROVE  Kept
  BY <1>25, ChildStopped, SameQueue
<1>23. CASE UNCHANGED Login!vars
  BY <1>23, SameQueue DEF Login!vars
<1> QED
  BY <1>1, <1>2, <1>3, <1>4, <1>5, <1>6, <1>7, <1>8, <1>9, <1>10, <1>11, <1>12, <1>13,
    <1>14, <1>15, <1>16, <1>17, <1>18, <1>19, <1>20, <1>21, <1>22, <1>23,
    <1>24, <1>25
    DEF Login!Next, Login!Programs, Login!ClientStep, Login!ChildStep

\* Where no child is forked and no client enters the tree.
LEMMA SameSessions ==
  ASSUME \A d \in Login!Clients : Login!ForkOnce(d), \A d, e \in tn_sessions : d = e,
         tn_sessions' = tn_sessions,
         \A d \in Login!Clients, k \in {1, 2} : Login!Comes(d, k)' => Login!Comes(d, k),
         \A d \in Login!Clients : tn_kpc'[d] = "none" <=> tn_kpc[d] = "none"
  PROVE  (\A d \in Login!Clients : Login!ForkOnce(d)') /\ (\A d, e \in tn_sessions : d = e)'
BY DEF Login!ForkOnce

\* Who is in the tree, and has a child.
LEMMA TelnetForks ==
  ASSUME Login!TelnetTyped, Login!QueueInv, \A d \in Login!Clients : Login!ForkOnce(d),
         \A d, e \in tn_sessions : d = e,
         \A d \in Login!Clients, k \in {1, 2} : Login!Comes(d, k)' => Login!Comes(d, k),
         [Login!Next]_Login!vars
  PROVE  /\ \A d \in Login!Clients : Login!ForkOnce(d)'
         /\ (\A d, e \in tn_sessions : d = e)'
<1> DEFINE Kept ==
       /\ \A d \in Login!Clients : Login!ForkOnce(d)'
       /\ (\A d, e \in tn_sessions : d = e)'
<1>1. CASE Login!Accept
  BY <1>1, SameSessions DEF Login!Accept, Login!server, Login!child
<1>2. CASE Login!ReadId
  <2>0. tn_conn \in Login!Clients \X {1, 2}
    BY <1>2 DEF Login!ReadId, Login!TelnetTyped
  <2>a. PICK c \in Login!Clients, k \in {1, 2} : tn_conn = <<c, k>>
    BY <2>0
  <2>1. /\ tn_spc = "id"
        /\ tn_spc' # "id"
        /\ tn_backlog' = tn_backlog
        /\ tn_cpc' = tn_cpc
        /\ tn_conn[1] = c
    BY <1>2, <2>a DEF Login!ReadId, Login!client
  <2>2. \A d \in Login!Clients, j \in {1, 2} : Login!Comes(d, j)' =>
          Login!Comes(d, j) /\ <<d, j>> # tn_conn
    BY <2>1, ConnectionRead
  <2>3. Login!Comes(c, k) /\ ~Login!Comes(c, k)'
    <3>1. Login!Waiting(c, k)
      BY <2>a, <2>1 DEF Login!Waiting
    <3> QED BY <3>1, <2>a, <2>2 DEF Login!Comes
  <2>4. \/ UNCHANGED <<tn_sessions, tn_kpc>>
        \/ /\ c \in tn_sessions /\ tn_sessions' = tn_sessions \ {c}
           /\ tn_kpc' = Login!Set(tn_kpc, c, "row")
        \/ tn_sessions = {} /\ tn_sessions' = {c} /\ tn_kpc' = tn_kpc
    BY <1>2, <2>1 DEF Login!ReadId
  <2>5. tn_kpc \in
          [Login!Clients -> {"none", "row", "col", "ioctl", "handle", "wait", "gone"}]
        /\ tn_sessions \subseteq Login!Clients
    BY DEF Login!TelnetTyped
  <2>6. tn_kpc[c] = "none"
    <3>1. k = 1 \/ k = 2
      OBVIOUS
    <3> QED BY <2>3, <3>1, Zenon DEF Login!ForkOnce
  <2>7. CASE UNCHANGED <<tn_sessions, tn_kpc>>
    BY <2>2, <2>7, SameSessions
  <2>8. CASE /\ c \in tn_sessions /\ tn_sessions' = tn_sessions \ {c}
             /\ tn_kpc' = Login!Set(tn_kpc, c, "row")
    <3>1. ~Login!Comes(c, 1)' /\ ~Login!Comes(c, 2)'
      <4>1. k = 1 \/ k = 2
        OBVIOUS
      <4>2. ~(Login!Comes(c, 1) /\ Login!Comes(c, 2))
        BY <2>8, Zenon DEF Login!ForkOnce
      <4>3. (Login!Comes(c, 1)' => Login!Comes(c, 1)) /\ (Login!Comes(c, 2)' =>
              Login!Comes(c, 2))
        BY <2>2
      <4> QED BY <2>3, <4>1, <4>2, <4>3, Zenon
    <3>2. \A d \in Login!Clients : tn_kpc'[d] = IF d = c THEN "row" ELSE tn_kpc[d]
      BY <2>5, <2>8 DEF Login!Set
    <3>3. \A d \in Login!Clients : Login!ForkOnce(d)'
      <4> SUFFICES ASSUME NEW d \in Login!Clients PROVE Login!ForkOnce(d)'
        OBVIOUS
      <4>1. (Login!Comes(d, 1)' => Login!Comes(d, 1)) /\ (Login!Comes(d, 2)' =>
              Login!Comes(d, 2))
        BY <2>2
      <4>2. CASE d = c
        BY <2>8, <3>1, <3>2, <4>2 DEF Login!ForkOnce
      <4>3. CASE d # c
        BY <2>8, <3>2, <4>1, <4>3 DEF Login!ForkOnce
      <4> QED BY <4>2, <4>3
    <3> QED BY <2>8, <3>3
  <2>9. CASE tn_sessions = {} /\ tn_sessions' = {c} /\ tn_kpc' = tn_kpc
    <3>1. \A d \in Login!Clients : Login!ForkOnce(d)'
      <4> SUFFICES ASSUME NEW d \in Login!Clients PROVE Login!ForkOnce(d)'
        OBVIOUS
      <4>1. (Login!Comes(d, 1)' => Login!Comes(d, 1)) /\ (Login!Comes(d, 2)' =>
              Login!Comes(d, 2))
        BY <2>2
      <4>2. CASE d = c
        <5>1. ~(Login!Comes(c, 1)' /\ Login!Comes(c, 2)')
          <6>1. k = 1 \/ k = 2
            OBVIOUS
          <6> QED BY <2>3, <6>1, Zenon
        <5> QED BY <2>6, <2>9, <4>2, <5>1 DEF Login!ForkOnce
      <4>3. CASE d # c
        BY <2>9, <4>1, <4>3 DEF Login!ForkOnce
      <4> QED BY <4>2, <4>3
    <3> QED BY <2>9, <3>1
  <2> QED BY <2>4, <2>7, <2>8, <2>9
<1>3. CASE Login!SigchldHandler
  BY <1>3, SameSessions DEF Login!SigchldHandler, Login!server, Login!child
<1>4. ASSUME NEW c \in Login!Clients, Login!WriteId(c)
      PROVE  Kept
  <2>1. UNCHANGED tn_sessions
    BY <1>4 DEF Login!WriteId
  <2>2. \A d \in Login!Clients : tn_kpc'[d] = "none" <=> tn_kpc[d] = "none"
    BY <1>4 DEF Login!WriteId, Login!child, Login!TelnetTyped
  <2> QED BY <2>1, <2>2, SameSessions
<1>5. ASSUME NEW c \in Login!Clients, Login!Connect(c, 1)
      PROVE  Kept
  <2>1. UNCHANGED tn_sessions
    BY <1>5 DEF Login!Connect
  <2>2. \A d \in Login!Clients : tn_kpc'[d] = "none" <=> tn_kpc[d] = "none"
    BY <1>5 DEF Login!Connect, Login!child, Login!TelnetTyped
  <2> QED BY <2>1, <2>2, SameSessions
<1>6. ASSUME NEW c \in Login!Clients, Login!Connect(c, 2)
      PROVE  Kept
  <2>1. UNCHANGED tn_sessions
    BY <1>6 DEF Login!Connect
  <2>2. \A d \in Login!Clients : tn_kpc'[d] = "none" <=> tn_kpc[d] = "none"
    BY <1>6 DEF Login!Connect, Login!child, Login!TelnetTyped
  <2> QED BY <2>1, <2>2, SameSessions
<1>7. ASSUME NEW c \in Login!Clients, Login!SendRow(c)
      PROVE  Kept
  <2>1. UNCHANGED tn_sessions
    BY <1>7 DEF Login!SendRow, Login!server
  <2>2. \A d \in Login!Clients : tn_kpc'[d] = "none" <=> tn_kpc[d] = "none"
    BY <1>7 DEF Login!SendRow, Login!child, Login!TelnetTyped
  <2> QED BY <2>1, <2>2, SameSessions
<1>8. ASSUME NEW c \in Login!Clients, Login!Confirmed(c)
      PROVE  Kept
  <2>1. UNCHANGED tn_sessions
    BY <1>8 DEF Login!Confirmed, Login!server
  <2>2. \A d \in Login!Clients : tn_kpc'[d] = "none" <=> tn_kpc[d] = "none"
    BY <1>8 DEF Login!Confirmed, Login!child, Login!TelnetTyped
  <2> QED BY <2>1, <2>2, SameSessions
<1>9. ASSUME NEW c \in Login!Clients, Login!TestFlag(c)
      PROVE  Kept
  <2>1. UNCHANGED tn_sessions
    BY <1>9 DEF Login!TestFlag, Login!server
  <2>2. \A d \in Login!Clients : tn_kpc'[d] = "none" <=> tn_kpc[d] = "none"
    BY <1>9 DEF Login!TestFlag, Login!child, Login!TelnetTyped
  <2> QED BY <2>1, <2>2, SameSessions
<1>10. ASSUME NEW c \in Login!Clients, Login!Enter(c)
       PROVE  Kept
  <2>1. UNCHANGED tn_sessions
    BY <1>10 DEF Login!Enter, Login!server
  <2>2. \A d \in Login!Clients : tn_kpc'[d] = "none" <=> tn_kpc[d] = "none"
    BY <1>10 DEF Login!Enter, Login!child, Login!TelnetTyped
  <2> QED BY <2>1, <2>2, SameSessions
<1>11. ASSUME NEW c \in Login!Clients, Login!EpollWait(c)
       PROVE  Kept
  <2>1. UNCHANGED tn_sessions
    BY <1>11 DEF Login!EpollWait, Login!server
  <2>2. \A d \in Login!Clients : tn_kpc'[d] = "none" <=> tn_kpc[d] = "none"
    BY <1>11 DEF Login!EpollWait, Login!child, Login!TelnetTyped
  <2> QED BY <2>1, <2>2, SameSessions
<1>12. ASSUME NEW c \in Login!Clients, Login!HandleEvent(c)
       PROVE  Kept
  <2>1. UNCHANGED tn_sessions
    BY <1>12 DEF Login!HandleEvent, Login!server
  <2>2. \A d \in Login!Clients : tn_kpc'[d] = "none" <=> tn_kpc[d] = "none"
    BY <1>12 DEF Login!HandleEvent, Login!child, Login!TelnetTyped
  <2> QED BY <2>1, <2>2, SameSessions
<1>13. ASSUME NEW c \in Login!Clients, Login!Fail(c)
       PROVE  Kept
  <2>1. UNCHANGED tn_sessions
    BY <1>13 DEF Login!Fail, Login!server
  <2>2. \A d \in Login!Clients : tn_kpc'[d] = "none" <=> tn_kpc[d] = "none"
    BY <1>13 DEF Login!Fail, Login!child, Login!TelnetTyped
  <2> QED BY <2>1, <2>2, SameSessions
<1>14. ASSUME NEW c \in Login!Clients, Login!Winch(c)
       PROVE  Kept
  <2>1. UNCHANGED tn_sessions
    BY <1>14 DEF Login!Winch, Login!server
  <2>2. \A d \in Login!Clients : tn_kpc'[d] = "none" <=> tn_kpc[d] = "none"
    BY <1>14 DEF Login!Winch, Login!child, Login!TelnetTyped
  <2> QED BY <2>1, <2>2, SameSessions
<1>15. ASSUME NEW c \in Login!Clients, Login!Type(c)
       PROVE  Kept
  <2>1. UNCHANGED tn_sessions
    BY <1>15 DEF Login!Type, Login!server
  <2>2. \A d \in Login!Clients : tn_kpc'[d] = "none" <=> tn_kpc[d] = "none"
    BY <1>15 DEF Login!Type, Login!child, Login!TelnetTyped
  <2> QED BY <2>1, <2>2, SameSessions
<1>16. ASSUME NEW c \in Login!Clients, Login!Kill(c)
       PROVE  Kept
  <2>1. UNCHANGED tn_sessions
    BY <1>16 DEF Login!Kill, Login!server
  <2>2. \A d \in Login!Clients : tn_kpc'[d] = "none" <=> tn_kpc[d] = "none"
    BY <1>16 DEF Login!Kill, Login!child, Login!TelnetTyped
  <2> QED BY <2>1, <2>2, SameSessions
<1>17. ASSUME NEW c \in Login!Clients, Login!ReceiveNumber(c)
       PROVE  Kept
  <2>1. UNCHANGED tn_sessions
    BY <1>17 DEF Login!ReceiveNumber, Login!server
  <2>2. \A d \in Login!Clients : tn_kpc'[d] = "none" <=> tn_kpc[d] = "none"
    BY <1>17 DEF Login!ReceiveNumber, Login!Set, Login!TelnetTyped
  <2> QED BY <2>1, <2>2, SameSessions
<1>18. ASSUME NEW c \in Login!Clients, Login!ClientLeft(c)
       PROVE  Kept
  <2>1. UNCHANGED tn_sessions
    BY <1>18 DEF Login!ClientLeft, Login!server
  <2>2. \A d \in Login!Clients : tn_kpc'[d] = "none" <=> tn_kpc[d] = "none"
    BY <1>18 DEF Login!ClientLeft, Login!EndChild, Login!Set, Login!TelnetTyped
  <2> QED BY <2>1, <2>2, SameSessions
<1>19. ASSUME NEW c \in Login!Clients, Login!SetWinsize(c)
       PROVE  Kept
  <2>1. UNCHANGED tn_sessions
    BY <1>19 DEF Login!SetWinsize, Login!server
  <2>2. \A d \in Login!Clients : tn_kpc'[d] = "none" <=> tn_kpc[d] = "none"
    BY <1>19 DEF Login!SetWinsize, Login!Set, Login!TelnetTyped
  <2> QED BY <2>1, <2>2, SameSessions
<1>20. ASSUME NEW c \in Login!Clients, Login!ChildWait(c)
       PROVE  Kept
  <2>1. UNCHANGED tn_sessions
    BY <1>20 DEF Login!ChildWait, Login!server
  <2>2. \A d \in Login!Clients : tn_kpc'[d] = "none" <=> tn_kpc[d] = "none"
    BY <1>20 DEF Login!ChildWait, Login!Set, Login!TelnetTyped
  <2> QED BY <2>1, <2>2, SameSessions
<1>21. ASSUME NEW c \in Login!Clients, Login!ChildEvent(c)
       PROVE  Kept
  <2>1. UNCHANGED tn_sessions
    BY <1>21 DEF Login!ChildEvent, Login!server
  <2>2. \A d \in Login!Clients : tn_kpc'[d] = "none" <=> tn_kpc[d] = "none"
    <3>1. /\ tn_kpc[c] = "handle"
          /\ \/ tn_kpc' = tn_kpc \/ tn_kpc' = Login!Set(tn_kpc, c, "wait")
             \/ tn_kpc' = Login!Set(tn_kpc, c, "gone")
             \/ tn_kpc' = Login!Set(tn_kpc, c, "row")
      BY <1>21, Zenon DEF Login!ChildEvent, Login!EndChild
    <3> QED BY <3>1 DEF Login!Set, Login!TelnetTyped
  <2> QED BY <2>1, <2>2, SameSessions
<1>22. ASSUME NEW c \in Login!Clients, Login!Shell(c)
       PROVE  Kept
  <2>1. UNCHANGED tn_sessions
    BY <1>22 DEF Login!Shell, Login!server
  <2>2. \A d \in Login!Clients : tn_kpc'[d] = "none" <=> tn_kpc[d] = "none"
    BY <1>22 DEF Login!Shell, Login!TelnetTyped
  <2> QED BY <2>1, <2>2, SameSessions
<1>24. ASSUME NEW c \in Login!Clients, Login!ShellSignal(c)
       PROVE  Kept
  <2>1. UNCHANGED tn_sessions
    BY <1>24, ShellEnded
  <2>2. \A d \in Login!Clients : tn_kpc'[d] = "none" <=> tn_kpc[d] = "none"
    <3>1. \/ tn_kpc' = tn_kpc
          \/ tn_kpc[c] = "wait" /\ tn_kpc' = Login!Set(tn_kpc, c, "gone")
      BY <1>24, ShellEnded
    <3> QED BY <3>1 DEF Login!Set, Login!TelnetTyped
  <2> QED BY <2>1, <2>2, SameSessions
<1>25. ASSUME NEW c \in Login!Clients, Login!Stop(c)
       PROVE  Kept
  BY <1>25, ChildStopped, SameSessions
<1>23. CASE UNCHANGED Login!vars
  BY <1>23, SameSessions DEF Login!vars
<1> QED
  BY <1>1, <1>2, <1>3, <1>4, <1>5, <1>6, <1>7, <1>8, <1>9, <1>10, <1>11, <1>12, <1>13,
    <1>14, <1>15, <1>16, <1>17, <1>18, <1>19, <1>20, <1>21, <1>22, <1>23,
    <1>24, <1>25
    DEF Login!Next, Login!Programs, Login!ClientStep, Login!ChildStep

\* Each call of the handler that is due has a child that ended, or one that stopped.
LEMMA TelnetReaps ==
  ASSUME Login!TelnetTyped, tn_pending <= tn_zombies + tn_stops, [Login!Next]_Login!vars
  PROVE  (tn_pending <= tn_zombies + tn_stops)'
<1>0. tn_pending \in Nat /\ tn_zombies \in Nat /\ tn_stops \in Nat
  BY DEF Login!TelnetTyped
<1>a. \A p, q, z, s \in Nat : p <= z + s /\ q <= p + 1 => q <= (z + 1) + s /\ q <= z + (s + 1)
  OBVIOUS
<1>1. CASE Login!Accept
  BY <1>1 DEF Login!Accept, Login!reaping
<1>2. CASE Login!ReadId
  BY <1>2 DEF Login!ReadId, Login!reaping
<1>3. CASE Login!SigchldHandler
  <2>1. /\ tn_pending > 0 /\ tn_zombies > 0 /\ tn_pending' = tn_pending - 1
        /\ tn_zombies' = tn_zombies - 1 /\ tn_stops' = tn_stops
    BY <1>3 DEF Login!SigchldHandler
  <2> QED BY <1>0, <2>1
<1>4. ASSUME NEW c \in Login!Clients, Login!WriteId(c) PROVE (tn_pending <= tn_zombies + tn_stops)'
  BY <1>4 DEF Login!WriteId, Login!reaping
<1>5. ASSUME NEW c \in Login!Clients, Login!Connect(c, 1)
      PROVE  (tn_pending <= tn_zombies + tn_stops)'
  BY <1>5 DEF Login!Connect, Login!reaping
<1>6. ASSUME NEW c \in Login!Clients, Login!Connect(c, 2)
      PROVE  (tn_pending <= tn_zombies + tn_stops)'
  BY <1>6 DEF Login!Connect, Login!reaping
<1>7. ASSUME NEW c \in Login!Clients, Login!SendRow(c) PROVE (tn_pending <= tn_zombies + tn_stops)'
  BY <1>7 DEF Login!SendRow, Login!reaping
<1>8. ASSUME NEW c \in Login!Clients, Login!Confirmed(c)
      PROVE  (tn_pending <= tn_zombies + tn_stops)'
  BY <1>8 DEF Login!Confirmed, Login!reaping
<1>9. ASSUME NEW c \in Login!Clients, Login!TestFlag(c)
      PROVE  (tn_pending <= tn_zombies + tn_stops)'
  BY <1>9 DEF Login!TestFlag, Login!reaping
<1>10. ASSUME NEW c \in Login!Clients, Login!Enter(c) PROVE (tn_pending <= tn_zombies + tn_stops)'
  BY <1>10 DEF Login!Enter, Login!reaping
<1>11. ASSUME NEW c \in Login!Clients, Login!EpollWait(c)
       PROVE  (tn_pending <= tn_zombies + tn_stops)'
  BY <1>11 DEF Login!EpollWait, Login!reaping
<1>12. ASSUME NEW c \in Login!Clients, Login!HandleEvent(c)
       PROVE  (tn_pending <= tn_zombies + tn_stops)'
  BY <1>12 DEF Login!HandleEvent, Login!reaping
<1>13. ASSUME NEW c \in Login!Clients, Login!Fail(c) PROVE (tn_pending <= tn_zombies + tn_stops)'
  BY <1>13 DEF Login!Fail, Login!reaping
<1>14. ASSUME NEW c \in Login!Clients, Login!Winch(c) PROVE (tn_pending <= tn_zombies + tn_stops)'
  BY <1>14 DEF Login!Winch, Login!reaping
<1>15. ASSUME NEW c \in Login!Clients, Login!Type(c) PROVE (tn_pending <= tn_zombies + tn_stops)'
  BY <1>15 DEF Login!Type, Login!reaping
<1>16. ASSUME NEW c \in Login!Clients, Login!Kill(c) PROVE (tn_pending <= tn_zombies + tn_stops)'
  BY <1>16 DEF Login!Kill, Login!reaping
<1>17. ASSUME NEW c \in Login!Clients, Login!ReceiveNumber(c)
       PROVE  (tn_pending <= tn_zombies + tn_stops)'
  BY <1>17 DEF Login!ReceiveNumber, Login!reaping
<1>18. ASSUME NEW c \in Login!Clients, Login!ClientLeft(c)
       PROVE  (tn_pending <= tn_zombies + tn_stops)'
  <2>1. \/ tn_pending' = tn_pending /\ tn_zombies' = tn_zombies /\ tn_stops' = tn_stops
        \/ Login!Sigchld /\ tn_zombies' = tn_zombies + 1 /\ tn_stops' = tn_stops
    BY <1>18 DEF Login!ClientLeft, Login!EndChild, Login!reaping
  <2>2. CASE tn_pending' = tn_pending /\ tn_zombies' = tn_zombies /\ tn_stops' = tn_stops
    BY <2>2
  <2>3. CASE Login!Sigchld /\ tn_zombies' = tn_zombies + 1 /\ tn_stops' = tn_stops
    BY <1>0, <1>a, <2>3, SigchldRaised
  <2> QED BY <2>1, <2>2, <2>3
<1>19. ASSUME NEW c \in Login!Clients, Login!SetWinsize(c)
       PROVE  (tn_pending <= tn_zombies + tn_stops)'
  BY <1>19 DEF Login!SetWinsize, Login!reaping
<1>20. ASSUME NEW c \in Login!Clients, Login!ChildWait(c)
       PROVE  (tn_pending <= tn_zombies + tn_stops)'
  BY <1>20 DEF Login!ChildWait, Login!reaping
<1>21. ASSUME NEW c \in Login!Clients, Login!ChildEvent(c)
       PROVE  (tn_pending <= tn_zombies + tn_stops)'
  <2>1. \/ tn_pending' = tn_pending /\ tn_zombies' = tn_zombies /\ tn_stops' = tn_stops
        \/ Login!Sigchld /\ tn_zombies' = tn_zombies + 1 /\ tn_stops' = tn_stops
    BY <1>21 DEF Login!ChildEvent, Login!EndChild, Login!reaping
  <2>2. CASE tn_pending' = tn_pending /\ tn_zombies' = tn_zombies /\ tn_stops' = tn_stops
    BY <2>2
  <2>3. CASE Login!Sigchld /\ tn_zombies' = tn_zombies + 1 /\ tn_stops' = tn_stops
    BY <1>0, <1>a, <2>3, SigchldRaised
  <2> QED BY <2>1, <2>2, <2>3
<1>22. ASSUME NEW c \in Login!Clients, Login!Shell(c) PROVE (tn_pending <= tn_zombies + tn_stops)'
  BY <1>22 DEF Login!Shell, Login!reaping
<1>24. ASSUME NEW c \in Login!Clients, Login!ShellSignal(c)
       PROVE  (tn_pending <= tn_zombies + tn_stops)'
  <2>1. CASE UNCHANGED <<tn_zombies, tn_pending, tn_stops>>
    BY <2>1
  <2>2. CASE Login!Sigchld /\ tn_zombies' = tn_zombies + 1 /\ tn_stops' = tn_stops
    BY <1>0, <1>a, <2>2, SigchldRaised
  <2> QED BY <1>24, <2>1, <2>2, ShellEnded
<1>25. ASSUME NEW c \in Login!Clients, Login!Stop(c)
       PROVE  (tn_pending <= tn_zombies + tn_stops)'
  <2>1. Login!Sigchld /\ tn_zombies' = tn_zombies /\ tn_stops' = tn_stops + 1
    BY <1>25, ChildStopped
  <2> QED BY <1>0, <1>a, <2>1, SigchldRaised
<1>23. CASE UNCHANGED Login!vars
  BY <1>23 DEF Login!vars
<1> QED
  BY <1>1, <1>2, <1>3, <1>4, <1>5, <1>6, <1>7, <1>8, <1>9, <1>10, <1>11, <1>12, <1>13,
    <1>14, <1>15, <1>16, <1>17, <1>18, <1>19, <1>20, <1>21, <1>22, <1>23,
    <1>24, <1>25
    DEF Login!Next, Login!Programs, Login!ClientStep, Login!ChildStep

\* A client whose size nothing happens to.
LEMMA SameSize ==
  ASSUME NEW d \in Login!Clients, Login!SizeInv(d), tn_cpc'[d] = tn_cpc[d],
         tn_snap'[d] = tn_snap[d],
         tn_wire'[d] = tn_wire[d], tn_conf'[d] = tn_conf[d], tn_kpc'[d] = tn_kpc[d],
         tn_kevents'[d] = tn_kevents[d],
         tn_ws'[d] = tn_ws[d], tn_term'[d] = tn_term[d]
  PROVE  Login!SizeInv(d)'
BY DEF Login!SizeInv, Login!Settled, Login!InLoop

\* A client that goes on, with no number of its own on the way, or leaves.
LEMMA ClientGoesOn ==
  ASSUME NEW c \in Login!Clients, Login!SizeInv(c), tn_snap'[c] = tn_snap[c],
         tn_wire'[c] = tn_wire[c],
         tn_conf'[c] = tn_conf[c], tn_kpc'[c] = tn_kpc[c], tn_kevents'[c] = tn_kevents[c],
         tn_ws'[c] = tn_ws[c],
         tn_term'[c] = tn_term[c],
         \/ /\ tn_cpc[c] \in {"start", "id 1", "second", "id 2", "size"}
            /\ tn_cpc'[c] \in {"start", "id 1", "second", "id 2", "size"}
         \/ /\ tn_cpc[c] \in {"loop", "enter", "poll", "handle", "size again"}
            /\ tn_cpc'[c] \in {"loop", "enter", "poll", "handle", "size again"}
         \/ tn_cpc'[c] \in {"done", "dead"}
         \/ tn_cpc'[c] = tn_cpc[c]
  PROVE  Login!SizeInv(c)'
BY DEF Login!SizeInv, Login!Settled, Login!InLoop

\* The row is sent: what was sent before has been read and set.
LEMMA RowSent ==
  ASSUME Login!TelnetTyped, NEW c \in Login!Clients, Login!SizeInv(c), Login!SendRow(c)
  PROVE  Login!SizeInv(c)'
<1>1. /\ UNCHANGED <<tn_conf, tn_kpc, tn_kevents, tn_ws, tn_term>>
      /\ tn_snap'[c] = tn_size[c] /\ tn_wire'[c] = Append(tn_wire[c], tn_size[c])
      /\ tn_size[c] \in Login!Numbers
      /\ \/ tn_cpc[c] = "size" /\ tn_cpc'[c] = "row"
         \/ tn_cpc[c] = "size again" /\ tn_cpc'[c] = "row again"
  BY DEF Login!SendRow, Login!child, Login!Set, Login!TelnetTyped
<1>2. tn_wire[c] = <<>> /\ tn_conf[c] = 0 /\ tn_kpc[c] # "col"
  BY <1>1 DEF Login!SizeInv, Login!Settled
<1>3. tn_wire'[c] = <<tn_snap'[c]>> /\ tn_wire'[c] # <<>>
  BY <1>1, <1>2, NumberSent
<1> QED BY <1>1, <1>2, <1>3 DEF Login!SizeInv, Login!InLoop

\* The row is confirmed, and the column sent.
LEMMA ColumnSent ==
  ASSUME Login!TelnetTyped, NEW c \in Login!Clients, Login!SizeInv(c), Login!Confirmed(c),
         tn_cpc[c] \in {"row", "row again"}
  PROVE  Login!SizeInv(c)'
<1>1. /\ UNCHANGED <<tn_snap, tn_kpc, tn_kevents, tn_ws, tn_term>>
      /\ tn_snap[c] \in Login!Numbers
      /\ tn_wire'[c] = Append(tn_wire[c], tn_snap[c]) /\ tn_conf[c] > 0
      /\ tn_conf'[c] = tn_conf[c] - 1 /\ tn_cpc'[c] \in {"col", "col again"}
  BY DEF Login!Confirmed, Login!child, Login!Set, Login!TelnetTyped
<1>2. tn_kpc[c] = "col" /\ tn_wire[c] = <<>> /\ tn_conf[c] = 1
  <2>1. IF tn_kpc[c] = "col" THEN tn_wire[c] = <<>> /\ tn_conf[c] = 1 ELSE tn_conf[c] = 0
    BY Zenon DEF Login!SizeInv
  <2>2. tn_conf[c] # 0
    <3>1. tn_conf[c] > 0
      BY <1>1, Zenon
    <3> QED BY <3>1, Confirmations, Zenon
  <2> QED BY <2>1, <2>2, Zenon
<1>3. tn_wire'[c] = <<tn_snap[c]>> /\ tn_wire'[c] # <<>> /\ tn_conf'[c] = 0
  <2>1. tn_conf'[c] = tn_conf[c] - 1 /\ tn_conf[c] = 1
    BY <1>1, <1>2, Zenon
  <2>2. tn_conf'[c] = 0
    <3> QED BY <2>1, Confirmations, Zenon
  <2> QED BY <1>1, <1>2, <2>2, NumberSent
<1>4. tn_snap'[c] = tn_snap[c]
  BY <1>1
<1> QED BY <1>1, <1>2, <1>3, <1>4 DEF Login!SizeInv, Login!InLoop

\* The column is confirmed.
LEMMA SizeConfirmed ==
  ASSUME Login!TelnetTyped, NEW c \in Login!Clients, Login!SizeInv(c), Login!Confirmed(c),
         tn_cpc[c] \notin {"row", "row again"}
  PROVE  Login!SizeInv(c)'
<1>1. /\ UNCHANGED <<tn_snap, tn_wire, tn_kpc, tn_kevents, tn_ws, tn_term>>
      /\ tn_conf[c] > 0
      /\ tn_conf'[c] = tn_conf[c] - 1 /\ tn_cpc'[c] = "loop"
      /\ tn_cpc[c] \in {"col", "col again"}
  BY DEF Login!Confirmed, Login!child, Login!Set, Login!TelnetTyped, Login!Sizing
<1>2. Login!Settled(c) /\ tn_wire[c] = <<>> /\ tn_conf[c] = 1
  <2>1. tn_conf[c] = 0 \/ (Login!Settled(c) /\ tn_wire[c] = <<>> /\ tn_conf[c] = 1)
    BY <1>1, Zenon DEF Login!SizeInv
  <2>2. tn_conf[c] # 0
    <3>1. tn_conf[c] > 0
      BY <1>1, Zenon
    <3> QED BY <3>1, Confirmations, Zenon
  <2> QED BY <2>1, <2>2, Zenon
<1>3. tn_conf'[c] = 0 /\ Login!Settled(c)'
  <2>1. tn_conf'[c] = tn_conf[c] - 1 /\ tn_conf[c] = 1
    BY <1>1, <1>2, Zenon
  <2>2. tn_conf'[c] = 0
    <3> QED BY <2>1, Confirmations, Zenon
  <2>3. /\ tn_snap'[c] = tn_snap[c] /\ tn_kpc'[c] = tn_kpc[c] /\ tn_ws'[c] = tn_ws[c]
        /\ tn_term'[c] = tn_term[c]
    BY <1>1
  <2> QED BY <1>2, <2>2, <2>3 DEF Login!Settled
<1> QED BY <1>1, <1>2, <1>3 DEF Login!SizeInv, Login!InLoop

\* The child reads the row, and confirms it.
LEMMA RowRead ==
  ASSUME Login!TelnetTyped, NEW c \in Login!Clients, Login!SizeInv(c),
         Login!ReceiveNumber(c), tn_kpc[c] = "row"
  PROVE  Login!SizeInv(c)'
<1>1. /\ UNCHANGED <<tn_cpc, tn_snap, tn_kevents, tn_term>> /\ tn_snap[c] \in Login!Numbers
      /\ tn_wire[c] # <<>>
      /\ tn_wire'[c] = Tail(tn_wire[c]) /\ tn_conf'[c] = tn_conf[c] + 1
      /\ tn_kpc'[c] = "col" /\ tn_ws'[c] = <<Head(tn_wire[c]), tn_ws[c][2]>>
  BY DEF Login!ReceiveNumber, Login!client, Login!Set, Login!TelnetTyped
<1>2. tn_wire[c] = <<tn_snap[c]>>
  BY <1>1 DEF Login!SizeInv
<1>3. /\ tn_wire'[c] = <<>>
      /\ tn_ws'[c] = <<tn_snap[c], tn_ws[c][2]>>
      /\ tn_ws[c][2] \in Login!Numbers
  BY <1>1, <1>2, NumberSent DEF Login!TelnetTyped
<1>4. tn_ws'[c][1] = tn_snap'[c] /\ tn_snap'[c] = tn_snap[c]
  BY <1>1, <1>3
<1>5. tn_cpc[c] \in {"row", "row again", "done", "dead"}
  BY <1>1, <1>2, NumberSent DEF Login!SizeInv, Login!Settled, Login!InLoop,
    Login!TelnetTyped
<1>6. tn_cpc[c] \in {"row", "row again"} => tn_conf'[c] = 1
  <2>1. tn_cpc[c] \in {"row", "row again"} => tn_conf[c] = 0
    BY <1>1, Zenon DEF Login!SizeInv
  <2>2. tn_conf'[c] = tn_conf[c] + 1
    BY <1>1
  <2>3. tn_conf[c] = 0 => tn_conf'[c] = 1
    BY <2>2, Confirmations, Zenon
  <2> QED BY <2>1, <2>3, Zenon
<1> QED BY <1>1, <1>3, <1>4, <1>5, <1>6 DEF Login!SizeInv, Login!InLoop

\* The child reads the column.
LEMMA ColumnRead ==
  ASSUME Login!TelnetTyped, NEW c \in Login!Clients, Login!SizeInv(c),
         Login!ReceiveNumber(c), tn_kpc[c] # "row"
  PROVE  Login!SizeInv(c)'
<1>1. /\ UNCHANGED <<tn_cpc, tn_snap, tn_kevents, tn_term>> /\ tn_snap[c] \in Login!Numbers
      /\ tn_wire[c] # <<>>
      /\ tn_wire'[c] = Tail(tn_wire[c]) /\ tn_conf'[c] = tn_conf[c] + 1
      /\ tn_kpc[c] = "col" /\ tn_kpc'[c] = "ioctl"
      /\ tn_ws'[c] = <<tn_ws[c][1], Head(tn_wire[c])>>
  BY DEF Login!ReceiveNumber, Login!client, Login!Set, Login!TelnetTyped
<1>2. tn_wire[c] = <<tn_snap[c]>> /\ tn_ws[c][1] = tn_snap[c]
  BY <1>1 DEF Login!SizeInv
<1>3. tn_wire'[c] = <<>> /\ tn_ws'[c] = <<tn_snap[c], tn_snap[c]>>
  BY <1>1, <1>2, NumberSent
<1>4. tn_ws'[c][1] = tn_ws'[c][2] /\ Login!Settled(c)'
  BY <1>1, <1>3 DEF Login!Settled
<1>5. tn_cpc[c] \in {"col", "col again", "done", "dead"}
  BY <1>1, <1>2, NumberSent DEF Login!SizeInv, Login!Settled, Login!InLoop,
    Login!TelnetTyped
<1>6. tn_cpc[c] \in {"col", "col again"} => tn_conf'[c] = 1
  <2>1. tn_cpc[c] \in {"col", "col again"} => tn_conf[c] = 0
    BY <1>1, Zenon DEF Login!SizeInv, Login!Settled
  <2>2. tn_conf'[c] = tn_conf[c] + 1
    BY <1>1
  <2>3. tn_conf[c] = 0 => tn_conf'[c] = 1
    BY <2>2, Confirmations, Zenon
  <2> QED BY <2>1, <2>3, Zenon
<1> QED BY <1>1, <1>3, <1>4, <1>5, <1>6 DEF Login!SizeInv, Login!InLoop

\* The child sets the size of the terminal.
LEMMA TerminalSet ==
  ASSUME Login!TelnetTyped, NEW c \in Login!Clients, Login!SizeInv(c), Login!SetWinsize(c)
  PROVE  Login!SizeInv(c)'
<1>1. /\ UNCHANGED <<tn_cpc, tn_snap, tn_wire, tn_conf, tn_kevents, tn_ws>>
      /\ tn_kpc[c] = "ioctl" /\ tn_kpc'[c] = "handle" /\ tn_term'[c] = tn_ws[c]
  BY DEF Login!SetWinsize, Login!client, Login!Set, Login!TelnetTyped
<1>2. tn_term'[c][1] = tn_term'[c][2]
  BY <1>1 DEF Login!SizeInv
<1>3. Login!Settled(c) => Login!Settled(c)'
  BY <1>1 DEF Login!Settled
<1> QED BY <1>1, <1>2, <1>3 DEF Login!SizeInv, Login!InLoop

\* The child goes on to other events, or comes to its end.
LEMMA ChildGoesOn ==
  ASSUME Login!TelnetTyped, NEW c \in Login!Clients, Login!SizeInv(c),
         UNCHANGED <<tn_cpc, tn_snap, tn_wire, tn_conf, tn_ws, tn_term>>,
         \/ /\ tn_kpc[c] \in {"handle", "wait"} /\ tn_kpc'[c] \in {"handle", "wait", "gone"}
            /\ "prio" \in tn_kevents'[c] =>
                 tn_kpc'[c] \in {"handle", "gone"} /\ tn_wire[c] # <<>>
         \/ /\ tn_kpc[c] = "handle" /\ tn_kpc'[c] = "row" /\ "prio" \notin tn_kevents'[c]
            /\ "prio" \in tn_kevents[c]
         \/ /\ tn_kpc[c] \in {"row", "col"} /\ tn_kpc'[c] = "gone"
            /\ tn_cpc[c] \in {"done", "dead"}
            /\ tn_kevents'[c] = tn_kevents[c]
  PROVE  Login!SizeInv(c)'
<1>1. CASE /\ tn_kpc[c] \in {"handle", "wait"} /\ tn_kpc'[c] \in {"handle", "wait", "gone"}
           /\ "prio" \in tn_kevents'[c] =>
                tn_kpc'[c] \in {"handle", "gone"} /\ tn_wire[c] # <<>>
  <2>1. Login!Settled(c) => Login!Settled(c)'
    BY <1>1 DEF Login!Settled
  <2> QED BY <1>1, <2>1 DEF Login!SizeInv, Login!InLoop
<1>2. CASE /\ tn_kpc[c] = "handle" /\ tn_kpc'[c] = "row" /\ "prio" \notin tn_kevents'[c]
           /\ "prio" \in tn_kevents[c]
  <2>1. tn_wire[c] = <<tn_snap[c]>> /\ tn_wire[c] # <<>>
    BY <1>2 DEF Login!SizeInv
  <2>2. tn_cpc[c] \in {"row", "row again", "done", "dead"}
    BY <1>2, <2>1 DEF Login!SizeInv, Login!Settled, Login!InLoop, Login!TelnetTyped
  <2> QED BY <1>2, <2>1, <2>2 DEF Login!SizeInv, Login!InLoop
<1>3. CASE /\ tn_kpc[c] \in {"row", "col"} /\ tn_kpc'[c] = "gone"
           /\ tn_cpc[c] \in {"done", "dead"}
           /\ tn_kevents'[c] = tn_kevents[c]
  BY <1>3 DEF Login!SizeInv, Login!InLoop
<1> QED BY <1>1, <1>2, <1>3

\* Sizes of windows.
LEMMA TelnetSizes ==
  ASSUME Login!TelnetTyped, \A d \in Login!Clients : Login!SizeInv(d),
         \A d \in Login!Clients : Login!ForkOnce(d), [Login!Next]_Login!vars
  PROVE  (\A d \in Login!Clients : Login!SizeInv(d)')
<1>1. CASE Login!Accept
  BY <1>1, SameSize DEF Login!Accept, Login!client, Login!child
<1>2. CASE Login!ReadId
  <2>1. UNCHANGED <<tn_cpc, tn_snap, tn_wire, tn_conf, tn_kevents, tn_ws, tn_term>>
    BY <1>2 DEF Login!ReadId, Login!client
  <2>2. \A d \in Login!Clients :
          \/ tn_kpc'[d] = tn_kpc[d]
          \/ tn_kpc[d] = "none" /\ tn_kpc'[d] = "row"
    <3>1. tn_conn[1] \in tn_sessions => tn_kpc[tn_conn[1]] = "none"
      BY <1>2 DEF Login!ReadId, Login!ForkOnce, Login!TelnetTyped
    <3> QED BY <1>2, <3>1 DEF Login!ReadId, Login!Set, Login!TelnetTyped
  <2>3. ASSUME NEW d \in Login!Clients
        PROVE  Login!SizeInv(d)'
    <3>1. CASE tn_kpc'[d] = tn_kpc[d]
      BY <2>1, <3>1, SameSize
    <3>2. CASE tn_kpc[d] = "none" /\ tn_kpc'[d] = "row"
      BY <2>1, <3>2 DEF Login!SizeInv, Login!Settled, Login!InLoop
    <3> QED BY <2>2, <3>1, <3>2
  <2> QED BY <2>3
<1>3. CASE Login!SigchldHandler
  BY <1>3, SameSize DEF Login!SigchldHandler, Login!client, Login!child
<1>4. ASSUME NEW c \in Login!Clients, Login!WriteId(c)
      PROVE  \A d \in Login!Clients : Login!SizeInv(d)'
  <2>1. UNCHANGED <<tn_snap, tn_wire, tn_conf, tn_kpc, tn_kevents, tn_ws, tn_term>>
    BY <1>4 DEF Login!WriteId, Login!child
  <2>2. ASSUME NEW d \in Login!Clients, d # c
        PROVE  Login!SizeInv(d)'
    <3>1. tn_cpc'[d] = tn_cpc[d]
      BY <1>4, <2>2 DEF Login!WriteId, Login!Set, Login!TelnetTyped
    <3> QED BY <2>1, <3>1, SameSize
  <2>3. Login!SizeInv(c)'
    <3>1. tn_cpc[c] \in {"id 1", "id 2"} /\ tn_cpc'[c] \in {"second", "size"}
      BY <1>4 DEF Login!WriteId, Login!Set, Login!TelnetTyped
    <3> QED BY <2>1, <3>1, ClientGoesOn
  <2> QED BY <2>2, <2>3
<1>5. ASSUME NEW c \in Login!Clients, Login!Connect(c, 1)
      PROVE  \A d \in Login!Clients : Login!SizeInv(d)'
  <2>1. UNCHANGED <<tn_snap, tn_wire, tn_conf, tn_kpc, tn_kevents, tn_ws, tn_term>>
    BY <1>5 DEF Login!Connect, Login!child
  <2>2. ASSUME NEW d \in Login!Clients, d # c
        PROVE  Login!SizeInv(d)'
    <3>1. tn_cpc'[d] = tn_cpc[d]
      BY <1>5, <2>2 DEF Login!Connect, Login!Set, Login!TelnetTyped
    <3> QED BY <2>1, <3>1, SameSize
  <2>3. Login!SizeInv(c)'
    <3>0. 2 # 1
      OBVIOUS
    <3>2. tn_cpc[c] = "start" /\ tn_cpc' = [tn_cpc EXCEPT ![c] = "id 1"]
      BY <1>5, <3>0, Zenon DEF Login!Connect, Login!Set
    <3>1. tn_cpc[c] = "start" /\ tn_cpc'[c] = "id 1"
      BY <3>2 DEF Login!TelnetTyped
    <3> QED BY <2>1, <3>1, ClientGoesOn
  <2> QED BY <2>2, <2>3
<1>6. ASSUME NEW c \in Login!Clients, Login!Connect(c, 2)
      PROVE  \A d \in Login!Clients : Login!SizeInv(d)'
  <2>1. UNCHANGED <<tn_snap, tn_wire, tn_conf, tn_kpc, tn_kevents, tn_ws, tn_term>>
    BY <1>6 DEF Login!Connect, Login!child
  <2>2. ASSUME NEW d \in Login!Clients, d # c
        PROVE  Login!SizeInv(d)'
    <3>1. tn_cpc'[d] = tn_cpc[d]
      BY <1>6, <2>2 DEF Login!Connect, Login!Set, Login!TelnetTyped
    <3> QED BY <2>1, <3>1, SameSize
  <2>3. Login!SizeInv(c)'
    <3>0. 2 # 1
      OBVIOUS
    <3>2. tn_cpc[c] = "second" /\ tn_cpc' = [tn_cpc EXCEPT ![c] = "id 2"]
      BY <1>6, <3>0, Zenon DEF Login!Connect, Login!Set
    <3>1. tn_cpc[c] = "second" /\ tn_cpc'[c] = "id 2"
      BY <3>2 DEF Login!TelnetTyped
    <3> QED BY <2>1, <3>1, ClientGoesOn
  <2> QED BY <2>2, <2>3
<1>7. ASSUME NEW c \in Login!Clients, Login!SendRow(c)
      PROVE  \A d \in Login!Clients : Login!SizeInv(d)'
  <2>1. UNCHANGED <<tn_conf, tn_kpc, tn_kevents, tn_ws, tn_term>>
    BY <1>7 DEF Login!SendRow, Login!child
  <2>2. ASSUME NEW d \in Login!Clients, d # c
        PROVE  Login!SizeInv(d)'
    <3>1. tn_cpc'[d] = tn_cpc[d] /\ tn_snap'[d] = tn_snap[d] /\ tn_wire'[d] = tn_wire[d]
      BY <1>7, <2>2 DEF Login!SendRow, Login!Set, Login!TelnetTyped
    <3> QED BY <2>1, <3>1, SameSize
  <2>3. Login!SizeInv(c)'
    BY <1>7, RowSent
  <2> QED BY <2>2, <2>3
<1>8. ASSUME NEW c \in Login!Clients, Login!Confirmed(c)
      PROVE  \A d \in Login!Clients : Login!SizeInv(d)'
  <2>1. UNCHANGED <<tn_snap, tn_kpc, tn_kevents, tn_ws, tn_term>>
    BY <1>8 DEF Login!Confirmed, Login!child
  <2>2. ASSUME NEW d \in Login!Clients, d # c
        PROVE  Login!SizeInv(d)'
    <3>1. tn_cpc'[d] = tn_cpc[d] /\ tn_wire'[d] = tn_wire[d] /\ tn_conf'[d] = tn_conf[d]
      BY <1>8, <2>2 DEF Login!Confirmed, Login!Set, Login!TelnetTyped
    <3> QED BY <2>1, <3>1, SameSize
  <2>3. Login!SizeInv(c)'
    BY <1>8, ColumnSent, SizeConfirmed
  <2> QED BY <2>2, <2>3
<1>9. ASSUME NEW c \in Login!Clients, Login!TestFlag(c)
      PROVE  \A d \in Login!Clients : Login!SizeInv(d)'
  <2>1. UNCHANGED <<tn_snap, tn_wire, tn_conf, tn_kpc, tn_kevents, tn_ws, tn_term>>
    BY <1>9 DEF Login!TestFlag, Login!child
  <2>2. ASSUME NEW d \in Login!Clients, d # c
        PROVE  Login!SizeInv(d)'
    <3>1. tn_cpc'[d] = tn_cpc[d]
      BY <1>9, <2>2 DEF Login!TestFlag, Login!Set, Login!TelnetTyped
    <3> QED BY <2>1, <3>1, SameSize
  <2>3. Login!SizeInv(c)'
    <3>1. tn_cpc[c] = "loop" /\ tn_cpc'[c] \in {"size again", "enter"}
      BY <1>9 DEF Login!TestFlag, Login!Set, Login!TelnetTyped
    <3> QED BY <2>1, <3>1, ClientGoesOn
  <2> QED BY <2>2, <2>3
<1>10. ASSUME NEW c \in Login!Clients, Login!Enter(c)
       PROVE  \A d \in Login!Clients : Login!SizeInv(d)'
  <2>1. UNCHANGED <<tn_snap, tn_wire, tn_conf, tn_kpc, tn_kevents, tn_ws, tn_term>>
    BY <1>10 DEF Login!Enter, Login!child
  <2>2. ASSUME NEW d \in Login!Clients, d # c
        PROVE  Login!SizeInv(d)'
    <3>1. tn_cpc'[d] = tn_cpc[d]
      BY <1>10, <2>2 DEF Login!Enter, Login!Set, Login!TelnetTyped
    <3> QED BY <2>1, <3>1, SameSize
  <2>3. Login!SizeInv(c)'
    <3>1. tn_cpc[c] = "enter" /\ tn_cpc'[c] = "poll"
      BY <1>10 DEF Login!Enter, Login!Set, Login!TelnetTyped
    <3> QED BY <2>1, <3>1, ClientGoesOn
  <2> QED BY <2>2, <2>3
<1>11. ASSUME NEW c \in Login!Clients, Login!EpollWait(c)
       PROVE  \A d \in Login!Clients : Login!SizeInv(d)'
  <2>1. UNCHANGED <<tn_snap, tn_wire, tn_conf, tn_kpc, tn_kevents, tn_ws, tn_term>>
    BY <1>11 DEF Login!EpollWait, Login!child
  <2>2. ASSUME NEW d \in Login!Clients, d # c
        PROVE  Login!SizeInv(d)'
    <3>1. tn_cpc'[d] = tn_cpc[d]
      BY <1>11, <2>2 DEF Login!EpollWait, Login!Set, Login!TelnetTyped
    <3> QED BY <2>1, <3>1, SameSize
  <2>3. Login!SizeInv(c)'
    <3>1. tn_cpc[c] = "poll" /\ tn_cpc'[c] = "handle"
      BY <1>11 DEF Login!EpollWait, Login!Set, Login!TelnetTyped
    <3> QED BY <2>1, <3>1, ClientGoesOn
  <2> QED BY <2>2, <2>3
<1>12. ASSUME NEW c \in Login!Clients, Login!HandleEvent(c)
       PROVE  \A d \in Login!Clients : Login!SizeInv(d)'
  <2>1. UNCHANGED <<tn_snap, tn_wire, tn_conf, tn_kpc, tn_kevents, tn_ws, tn_term>>
    BY <1>12 DEF Login!HandleEvent, Login!child
  <2>2. ASSUME NEW d \in Login!Clients, d # c
        PROVE  Login!SizeInv(d)'
    <3>1. tn_cpc'[d] = tn_cpc[d]
      BY <1>12, <2>2 DEF Login!HandleEvent, Login!Set, Login!TelnetTyped
    <3> QED BY <2>1, <3>1, SameSize
  <2>3. Login!SizeInv(c)'
    <3>1. tn_cpc[c] = "handle" /\ tn_cpc'[c] \in {"handle", "loop", "done"}
      BY <1>12 DEF Login!HandleEvent, Login!Set, Login!TelnetTyped
    <3> QED BY <2>1, <3>1, ClientGoesOn
  <2> QED BY <2>2, <2>3
<1>13. ASSUME NEW c \in Login!Clients, Login!Fail(c)
       PROVE  \A d \in Login!Clients : Login!SizeInv(d)'
  <2>1. UNCHANGED <<tn_snap, tn_wire, tn_conf, tn_kpc, tn_kevents, tn_ws, tn_term>>
    BY <1>13 DEF Login!Fail, Login!child
  <2>2. ASSUME NEW d \in Login!Clients, d # c
        PROVE  Login!SizeInv(d)'
    <3>1. tn_cpc'[d] = tn_cpc[d]
      BY <1>13, <2>2 DEF Login!Fail, Login!Set, Login!TelnetTyped
    <3> QED BY <2>1, <3>1, SameSize
  <2>3. Login!SizeInv(c)'
    <3>1. tn_cpc'[c] = "dead"
      BY <1>13 DEF Login!Fail, Login!Set, Login!TelnetTyped
    <3> QED BY <2>1, <3>1, ClientGoesOn
  <2> QED BY <2>2, <2>3
<1>14. ASSUME NEW c \in Login!Clients, Login!Winch(c)
       PROVE  \A d \in Login!Clients : Login!SizeInv(d)'
  <2>1. UNCHANGED <<tn_snap, tn_wire, tn_conf, tn_kpc, tn_kevents, tn_ws, tn_term>>
    BY <1>14 DEF Login!Winch, Login!child
  <2>2. ASSUME NEW d \in Login!Clients, d # c
        PROVE  Login!SizeInv(d)'
    <3>1. tn_cpc'[d] = tn_cpc[d]
      BY <1>14, <2>2 DEF Login!Winch, Login!Set, Login!TelnetTyped
    <3> QED BY <2>1, <3>1, SameSize
  <2>3. Login!SizeInv(c)'
    <3>1. (tn_cpc[c] = "poll" /\ tn_cpc'[c] = "loop") \/ tn_cpc'[c] \in {tn_cpc[c], "dead"}
      BY <1>14 DEF Login!Winch, Login!Set, Login!TelnetTyped
    <3> QED BY <2>1, <3>1, ClientGoesOn
  <2> QED BY <2>2, <2>3
<1>15. ASSUME NEW c \in Login!Clients, Login!Type(c)
       PROVE  \A d \in Login!Clients : Login!SizeInv(d)'
  <2>1. UNCHANGED <<tn_cpc, tn_snap, tn_wire, tn_conf, tn_kpc, tn_kevents, tn_ws, tn_term>>
    BY <1>15 DEF Login!Type, Login!client, Login!child
  <2> QED BY <2>1, SameSize
<1>16. ASSUME NEW c \in Login!Clients, Login!Kill(c)
       PROVE  \A d \in Login!Clients : Login!SizeInv(d)'
  <2>1. UNCHANGED <<tn_snap, tn_wire, tn_conf, tn_kpc, tn_kevents, tn_ws, tn_term>>
    BY <1>16 DEF Login!Kill, Login!child
  <2>2. ASSUME NEW d \in Login!Clients, d # c
        PROVE  Login!SizeInv(d)'
    <3>1. tn_cpc'[d] = tn_cpc[d]
      BY <1>16, <2>2 DEF Login!Kill, Login!Set, Login!TelnetTyped
    <3> QED BY <2>1, <3>1, SameSize
  <2>3. Login!SizeInv(c)'
    <3>1. tn_cpc'[c] = "dead"
      BY <1>16 DEF Login!Kill, Login!Set, Login!TelnetTyped
    <3> QED BY <2>1, <3>1, ClientGoesOn
  <2> QED BY <2>2, <2>3
<1>17. ASSUME NEW c \in Login!Clients, Login!ReceiveNumber(c)
       PROVE  \A d \in Login!Clients : Login!SizeInv(d)'
  <2>1. UNCHANGED <<tn_cpc, tn_snap, tn_kevents, tn_term>>
    BY <1>17 DEF Login!ReceiveNumber, Login!client
  <2>2. ASSUME NEW d \in Login!Clients, d # c
        PROVE  Login!SizeInv(d)'
    <3>1. /\ tn_wire'[d] = tn_wire[d]
          /\ tn_conf'[d] = tn_conf[d]
          /\ tn_kpc'[d] = tn_kpc[d]
          /\ tn_ws'[d] = tn_ws[d]
      BY <1>17, <2>2 DEF Login!ReceiveNumber, Login!Set, Login!TelnetTyped
    <3> QED BY <2>1, <3>1, SameSize
  <2>3. Login!SizeInv(c)'
    BY <1>17, RowRead, ColumnRead
  <2> QED BY <2>2, <2>3
<1>18. ASSUME NEW c \in Login!Clients, Login!ClientLeft(c)
       PROVE  \A d \in Login!Clients : Login!SizeInv(d)'
  <2>1. UNCHANGED <<tn_cpc, tn_snap, tn_wire, tn_conf, tn_kevents, tn_ws, tn_term>>
    BY <1>18 DEF Login!ClientLeft, Login!client
  <2>2. ASSUME NEW d \in Login!Clients, d # c
        PROVE  Login!SizeInv(d)'
    <3>1. tn_kpc'[d] = tn_kpc[d]
      BY <1>18, <2>2 DEF Login!ClientLeft, Login!EndChild, Login!Set, Login!TelnetTyped
    <3> QED BY <2>1, <3>1, SameSize
  <2>3. Login!SizeInv(c)'
    <3>1. /\ tn_kpc[c] \in {"row", "col"} /\ tn_kpc'[c] = "gone"
          /\ tn_cpc[c] \in {"done", "dead"}
          /\ tn_kevents' = tn_kevents
      BY <1>18 DEF Login!ClientLeft, Login!CGone, Login!EndChild, Login!Set,
        Login!TelnetTyped
    <3> QED BY <2>1, <3>1, ChildGoesOn
  <2> QED BY <2>2, <2>3
<1>19. ASSUME NEW c \in Login!Clients, Login!SetWinsize(c)
       PROVE  \A d \in Login!Clients : Login!SizeInv(d)'
  <2>1. UNCHANGED <<tn_cpc, tn_snap, tn_wire, tn_conf, tn_kevents, tn_ws>>
    BY <1>19 DEF Login!SetWinsize, Login!client
  <2>2. ASSUME NEW d \in Login!Clients, d # c
        PROVE  Login!SizeInv(d)'
    <3>1. tn_kpc'[d] = tn_kpc[d] /\ tn_term'[d] = tn_term[d]
      BY <1>19, <2>2 DEF Login!SetWinsize, Login!Set, Login!TelnetTyped
    <3> QED BY <2>1, <3>1, SameSize
  <2>3. Login!SizeInv(c)'
    BY <1>19, TerminalSet
  <2> QED BY <2>2, <2>3
<1>20. ASSUME NEW c \in Login!Clients, Login!ChildWait(c)
       PROVE  \A d \in Login!Clients : Login!SizeInv(d)'
  <2>1. UNCHANGED <<tn_cpc, tn_snap, tn_wire, tn_conf, tn_ws, tn_term>>
    BY <1>20 DEF Login!ChildWait, Login!client
  <2>2. ASSUME NEW d \in Login!Clients, d # c
        PROVE  Login!SizeInv(d)'
    <3>1. tn_kpc'[d] = tn_kpc[d] /\ tn_kevents'[d] = tn_kevents[d]
      BY <1>20, <2>2 DEF Login!ChildWait, Login!Set, Login!TelnetTyped
    <3> QED BY <2>1, <3>1, SameSize
  <2>3. Login!SizeInv(c)'
    <3>1. /\ tn_kpc[c] = "wait"
          /\ tn_kpc'[c] = "handle"
          /\ tn_kevents'[c] \subseteq Login!KReady(c)
      BY <1>20 DEF Login!ChildWait, Login!Set, Login!TelnetTyped
    <3>2. "prio" \in Login!KReady(c) => tn_wire[c] # <<>>
      BY DEF Login!KReady
    <3> QED BY <2>1, <3>1, <3>2, ChildGoesOn
  <2> QED BY <2>2, <2>3
<1>21. ASSUME NEW c \in Login!Clients, Login!ChildEvent(c)
       PROVE  \A d \in Login!Clients : Login!SizeInv(d)'
  <2>1. UNCHANGED <<tn_cpc, tn_snap, tn_wire, tn_conf, tn_ws, tn_term>>
    BY <1>21 DEF Login!ChildEvent, Login!client
  <2>2. ASSUME NEW d \in Login!Clients, d # c
        PROVE  Login!SizeInv(d)'
    <3>1. tn_kpc'[d] = tn_kpc[d] /\ tn_kevents'[d] = tn_kevents[d]
      BY <1>21, <2>2 DEF Login!ChildEvent, Login!Set, Login!EndChild, Login!TelnetTyped
    <3> QED BY <2>1, <3>1, SameSize
  <2>3. Login!SizeInv(c)'
    <3>1. tn_kpc[c] = "handle" /\ ("prio" \in tn_kevents[c] => tn_wire[c] # <<>>)
      BY <1>21 DEF Login!ChildEvent, Login!SizeInv
    <3>2. CASE /\ tn_kevents[c] = {} /\ tn_kpc' = Login!Set(tn_kpc, c, "wait")
               /\ tn_kevents' = tn_kevents
      <4>1. tn_kpc'[c] = "wait" /\ tn_kevents'[c] = {}
        BY <3>2 DEF Login!Set, Login!TelnetTyped
      <4> QED BY <2>1, <3>1, <4>1, ChildGoesOn
    <3>3. ASSUME NEW e \in tn_kevents[c],
                 tn_kevents' = Login!Set(tn_kevents, c, tn_kevents[c] \ {e}),
                 \/ tn_kpc' = tn_kpc \/ tn_kpc' = Login!Set(tn_kpc, c, "gone")
                 \/ e = "prio" /\ tn_kpc' = Login!Set(tn_kpc, c, "row")
          PROVE  Login!SizeInv(c)'
      <4>1. tn_kevents'[c] = tn_kevents[c] \ {e} /\ tn_kpc'[c] \in {"handle", "gone", "row"}
            /\ (tn_kpc'[c] = "row" => e = "prio")
        BY <3>1, <3>3 DEF Login!Set, Login!TelnetTyped
      <4>2. CASE tn_kpc'[c] = "row"
        BY <2>1, <3>1, <3>3, <4>1, <4>2, ChildGoesOn
      <4>3. CASE tn_kpc'[c] # "row"
        BY <2>1, <3>1, <4>1, <4>3, ChildGoesOn
      <4> QED BY <4>2, <4>3
    <3> QED BY <1>21, <3>2, <3>3, Zenon DEF Login!ChildEvent, Login!EndChild
  <2> QED BY <2>2, <2>3
<1>22. ASSUME NEW c \in Login!Clients, Login!Shell(c)
       PROVE  \A d \in Login!Clients : Login!SizeInv(d)'
  <2>1. UNCHANGED <<tn_cpc, tn_snap, tn_wire, tn_conf, tn_kpc, tn_kevents, tn_ws, tn_term>>
    BY <1>22 DEF Login!Shell, Login!client
  <2> QED BY <2>1, SameSize
<1>24. ASSUME NEW c \in Login!Clients, Login!ShellSignal(c)
       PROVE  \A d \in Login!Clients : Login!SizeInv(d)'
  <2>1. UNCHANGED <<tn_cpc, tn_snap, tn_wire, tn_conf, tn_kevents, tn_ws, tn_term>>
    BY <1>24, ShellEnded
  <2>2. CASE tn_kpc' = tn_kpc
    BY <2>1, <2>2, SameSize
  <2>3. CASE tn_kpc[c] = "wait" /\ tn_kpc' = Login!Set(tn_kpc, c, "gone")
    <3>1. tn_kpc'[c] = "gone" /\ \A d \in Login!Clients : d # c => tn_kpc'[d] = tn_kpc[d]
      BY <2>3 DEF Login!Set, Login!TelnetTyped
    <3>2. "prio" \notin tn_kevents'[c]
      BY <2>1, <2>3 DEF Login!SizeInv
    <3>3. Login!SizeInv(c)'
      BY <2>1, <2>3, <3>1, <3>2, ChildGoesOn
    <3>4. \A d \in Login!Clients : d # c => Login!SizeInv(d)'
      BY <2>1, <3>1, SameSize
    <3> QED BY <3>3, <3>4
  <2> QED BY <1>24, <2>2, <2>3, ShellEnded
<1>25. ASSUME NEW c \in Login!Clients, Login!Stop(c)
       PROVE  \A d \in Login!Clients : Login!SizeInv(d)'
  BY <1>25, ChildStopped, SameSize
<1>23. CASE UNCHANGED Login!vars
  BY <1>23, SameSize DEF Login!vars
<1> QED
  BY <1>1, <1>2, <1>3, <1>4, <1>5, <1>6, <1>7, <1>8, <1>9, <1>10, <1>11, <1>12, <1>13,
    <1>14, <1>15, <1>16, <1>17, <1>18, <1>19, <1>20, <1>21, <1>22, <1>23,
    <1>24, <1>25
    DEF Login!Next, Login!Programs, Login!ClientStep, Login!ChildStep

\* A key after others.
LEMMA TelnetAppend ==
  ASSUME NEW s \in Seq(Login!Numbers), NEW t \in Seq(Login!Numbers), NEW x \in Login!Numbers
  PROVE  s \o Append(t, x) = Append(s \o t, x)
<1>1. Append(t, x) = t \o <<x>> /\ <<x>> \in Seq(Login!Numbers)
  BY AppendIsConcat
<1>2. s \o t \in Seq(Login!Numbers)
  BY ConcatProperties
<1>3. Append(s \o t, x) = (s \o t) \o <<x>>
  BY <1>2, AppendIsConcat
<1> QED BY <1>1, <1>3, ConcatAssociative

\* Two neighbouring stages, when all that is in the second moves to the first.
LEMMA NextStage ==
  ASSUME NEW s \in Seq(Login!Numbers), NEW t \in Seq(Login!Numbers),
         NEW u \in Seq(Login!Numbers)
  PROVE  (s \o t) \o u = (s \o (t \o u)) \o <<>>
<1>1. t \o u \in Seq(Login!Numbers)
  BY ConcatProperties
<1>2. s \o (t \o u) \in Seq(Login!Numbers)
  BY <1>1, ConcatProperties
<1> QED BY <1>1, <1>2, ConcatAssociative, ConcatEmptySeq

\* The keys of a client of whose line nothing changes.
LEMMA SameKeys ==
  ASSUME NEW c \in Login!Clients, tn_line'[c] = tn_line[c]
  PROVE  Login!Keys(c)' = Login!Keys(c)
BY DEF Login!Keys

\* A line in six stages, when all that is in one moves to the next.
LEMMA SixStages ==
  ASSUME NEW l \in [Login!Stages -> Seq(Login!Numbers)]
  PROVE  LET a == l["shown"]
             b == a \o l["down"]
             e == b \o l["out"]
             f == e \o l["tty"]
         IN  /\ a \o l["down"] = (a \o l["down"]) \o <<>>
             /\ b \o l["out"] = (a \o (l["down"] \o l["out"])) \o <<>>
             /\ e \o l["tty"] = (b \o (l["out"] \o l["tty"])) \o <<>>
             /\ f \o l["up"] = (e \o (l["tty"] \o l["up"])) \o <<>>
             /\ (f \o l["up"]) \o l["keys"] = (f \o (l["up"] \o l["keys"])) \o <<>>
<1> DEFINE a == l["shown"]
           b == a \o l["down"]
           e == b \o l["out"]
           f == e \o l["tty"]
<1>1. /\ a \in Seq(Login!Numbers)
      /\ l["down"] \in Seq(Login!Numbers)
      /\ l["out"] \in Seq(Login!Numbers)
      /\ l["tty"] \in Seq(Login!Numbers)
      /\ l["up"] \in Seq(Login!Numbers)
      /\ l["keys"] \in Seq(Login!Numbers)
  BY DEF Login!Stages
<1> HIDE DEF a
<1>2. b \in Seq(Login!Numbers)
  BY <1>1, ConcatProperties
<1> HIDE DEF b
<1>3. e \in Seq(Login!Numbers)
  BY <1>1, <1>2, ConcatProperties
<1> HIDE DEF e
<1>4. f \in Seq(Login!Numbers)
  BY <1>1, <1>3, ConcatProperties
<1> HIDE DEF f
<1>5. a \o l["down"] = (a \o l["down"]) \o <<>>
  BY <1>1, ConcatProperties, ConcatEmptySeq
<1>6. (a \o l["down"]) \o l["out"] = (a \o (l["down"] \o l["out"])) \o <<>>
  <2>1. /\ a \in Seq(Login!Numbers)
        /\ l["down"] \in Seq(Login!Numbers)
        /\ l["out"] \in Seq(Login!Numbers)
    BY <1>1
  <2> QED BY <2>1, NextStage
<1>7. (b \o l["out"]) \o l["tty"] = (b \o (l["out"] \o l["tty"])) \o <<>>
  <2>1. /\ b \in Seq(Login!Numbers)
        /\ l["out"] \in Seq(Login!Numbers)
        /\ l["tty"] \in Seq(Login!Numbers)
    BY <1>1, <1>2
  <2> QED BY <2>1, NextStage
<1>8. (e \o l["tty"]) \o l["up"] = (e \o (l["tty"] \o l["up"])) \o <<>>
  <2>1. /\ e \in Seq(Login!Numbers)
        /\ l["tty"] \in Seq(Login!Numbers)
        /\ l["up"] \in Seq(Login!Numbers)
    BY <1>1, <1>3
  <2> QED BY <2>1, NextStage
<1>9. (f \o l["up"]) \o l["keys"] = (f \o (l["up"] \o l["keys"])) \o <<>>
  <2>1. /\ f \in Seq(Login!Numbers)
        /\ l["up"] \in Seq(Login!Numbers)
        /\ l["keys"] \in Seq(Login!Numbers)
    BY <1>1, <1>4
  <2> QED BY <2>1, NextStage
<1> QED BY <1>5, <1>6, <1>7, <1>8, <1>9 DEF a, b, e, f

\* A line is the same when all that is in one stage goes to the next.
LEMMA SameWhole ==
  ASSUME NEW l \in [Login!Stages -> Seq(Login!Numbers)],
         NEW m \in [Login!Stages -> Seq(Login!Numbers)],
         NEW from \in Login!Stages, NEW to \in Login!Stages,
         m[to] = l[to] \o l[from], m[from] = <<>>,
         \A s \in Login!Stages : s # from /\ s # to => m[s] = l[s],
         Login!Follows(to, from)
  PROVE  Login!Whole(m) = Login!Whole(l)
<1> DEFINE a == l["shown"]
           b == a \o l["down"]
           e == b \o l["out"]
           f == e \o l["tty"]
<1>1. /\ a \o l["down"] = (a \o l["down"]) \o <<>>
      /\ b \o l["out"] = (a \o (l["down"] \o l["out"])) \o <<>>
      /\ e \o l["tty"] = (b \o (l["out"] \o l["tty"])) \o <<>>
      /\ f \o l["up"] = (e \o (l["tty"] \o l["up"])) \o <<>>
      /\ (f \o l["up"]) \o l["keys"] = (f \o (l["up"] \o l["keys"])) \o <<>>
  BY SixStages
<1>2. CASE from = "down" /\ to = "shown"
  <2>1. /\ m["shown"] = l["shown"] \o l["down"] /\ m["down"] = <<>> /\ m["out"] = l["out"]
        /\ m["tty"] = l["tty"] /\ m["up"] = l["up"] /\ m["keys"] = l["keys"]
    BY <1>2 DEF Login!Stages
  <2> QED BY <1>1, <2>1 DEF Login!Whole
<1>3. CASE from = "out" /\ to = "down"
  <2>1. /\ m["shown"] = l["shown"] /\ m["down"] = l["down"] \o l["out"] /\ m["out"] = <<>>
        /\ m["tty"] = l["tty"] /\ m["up"] = l["up"] /\ m["keys"] = l["keys"]
    BY <1>3 DEF Login!Stages
  <2> QED BY <1>1, <2>1 DEF Login!Whole
<1>4. CASE from = "tty" /\ to = "out"
  <2>1. /\ m["shown"] = l["shown"] /\ m["down"] = l["down"]
        /\ m["out"] = l["out"] \o l["tty"]
        /\ m["tty"] = <<>> /\ m["up"] = l["up"] /\ m["keys"] = l["keys"]
    BY <1>4 DEF Login!Stages
  <2> QED BY <1>1, <2>1 DEF Login!Whole
<1>5. CASE from = "up" /\ to = "tty"
  <2>1. /\ m["shown"] = l["shown"] /\ m["down"] = l["down"] /\ m["out"] = l["out"]
        /\ m["tty"] = l["tty"] \o l["up"] /\ m["up"] = <<>> /\ m["keys"] = l["keys"]
    BY <1>5 DEF Login!Stages
  <2> QED BY <1>1, <2>1 DEF Login!Whole
<1>6. CASE from = "keys" /\ to = "up"
  <2>1. /\ m["shown"] = l["shown"] /\ m["down"] = l["down"] /\ m["out"] = l["out"]
        /\ m["tty"] = l["tty"] /\ m["up"] = l["up"] \o l["keys"] /\ m["keys"] = <<>>
    BY <1>6 DEF Login!Stages
  <2> QED BY <1>1, <2>1 DEF Login!Whole
<1> QED BY <1>2, <1>3, <1>4, <1>5, <1>6 DEF Login!Follows

\* Moving keys does not change what they are.
LEMMA KeysMoved ==
  ASSUME Login!TelnetTyped, NEW c \in Login!Clients, NEW from, NEW to,
         Login!Move(c, from, to),
         Login!Follows(to, from)
  PROVE  \A d \in Login!Clients : Login!Keys(d)' = Login!Keys(d)
<1>1. tn_line[c] \in [Login!Stages -> Seq(Login!Numbers)]
  BY DEF Login!TelnetTyped
<1>2. from \in Login!Stages /\ to \in Login!Stages /\ from # to
  BY DEF Login!Stages, Login!Follows
<1> DEFINE l == tn_line[c]
           m == tn_line'[c]
<1>3. /\ m[to] = l[to] \o l[from]
      /\ m[from] = <<>>
      /\ m \in [Login!Stages -> Seq(Login!Numbers)]
  BY <1>2, StageMoved
<1>7. \A s \in Login!Stages : s # from /\ s # to => m[s] = l[s]
  BY <1>2, StageMoved
<1>4. \A d \in Login!Clients : d # c => tn_line'[d] = tn_line[d]
  BY <1>2, StageMoved
<1>5. Login!Whole(m) = Login!Whole(l)
  <2>1. /\ l \in [Login!Stages -> Seq(Login!Numbers)]
        /\ m \in [Login!Stages -> Seq(Login!Numbers)]
    BY <1>1, <1>3
  <2> HIDE DEF l, m
  <2> QED BY <1>2, <1>3, <1>7, <2>1, SameWhole
<1>6. Login!Keys(c)' = Login!Keys(c)
  BY <1>5 DEF Login!Keys
<1> QED BY <1>4, <1>6, SameKeys

\* What is added to the last stage is the end of the line.
LEMMA LongerWhole ==
  ASSUME NEW l \in [Login!Stages -> Seq(Login!Numbers)], NEW m, NEW n \in Login!Numbers,
         m["keys"] = Append(l["keys"], n),
         \A s \in Login!Stages : s # "keys" => m[s] = l[s]
  PROVE  Login!Whole(m) = Append(Login!Whole(l), n)
<1> DEFINE p == (((l["shown"] \o l["down"]) \o l["out"]) \o l["tty"]) \o l["up"]
<1>1. p \in Seq(Login!Numbers) /\ l["keys"] \in Seq(Login!Numbers)
  <2>1. \A s \in Login!Stages : l[s] \in Seq(Login!Numbers)
    OBVIOUS
  <2>2. \A s, t \in Seq(Login!Numbers) : s \o t \in Seq(Login!Numbers)
    BY ConcatProperties
  <2> QED BY <2>1, <2>2, Zenon DEF Login!Stages
<1>2. /\ m["shown"] = l["shown"] /\ m["down"] = l["down"] /\ m["out"] = l["out"]
      /\ m["tty"] = l["tty"] /\ m["up"] = l["up"]
  BY DEF Login!Stages
<1>3. Login!Whole(m) = p \o Append(l["keys"], n)
  BY <1>2 DEF Login!Whole
<1>4. Login!Whole(l) = p \o l["keys"]
  BY DEF Login!Whole
<1> HIDE DEF p
<1> QED BY <1>1, <1>3, <1>4, TelnetAppend

\* A typed key is the next one.
LEMMA KeyTyped ==
  ASSUME Login!TelnetTyped, NEW c \in Login!Clients, Login!Type(c),
         \A d \in Login!Clients : Login!Counted(Login!Keys(d))
  PROVE  \A d \in Login!Clients : Login!Counted(Login!Keys(d))'
<1> DEFINE n == Len(Login!Keys(c)) + 1
<1>1. /\ tn_line'[c]["keys"] = Append(tn_line[c]["keys"], n)
      /\ \A s \in Login!Stages : s # "keys" => tn_line'[c][s] = tn_line[c][s]
      /\ \A d \in Login!Clients : d # c => tn_line'[d] = tn_line[d]
  BY KeyAdded
<1>2. Login!Keys(c) \in Seq(Login!Numbers) /\ n \in Login!Numbers
  BY KeysType
<1>3. tn_line[c] \in [Login!Stages -> Seq(Login!Numbers)]
  BY DEF Login!TelnetTyped
<1>4. Login!Whole(tn_line'[c]) = Append(Login!Whole(tn_line[c]), n)
  <2> HIDE DEF n
  <2> QED BY <1>1, <1>2, <1>3, LongerWhole
<1>6. Login!Keys(c)' = Append(Login!Keys(c), n)
  BY <1>4 DEF Login!Keys
<1>7. Login!Counted(Login!Keys(c))'
  <2> DEFINE q == Login!Keys(c)
  <2>1. /\ q \in Seq(Login!Numbers)
        /\ Len(q) + 1 \in Login!Numbers
        /\ \A k \in DOMAIN q : q[k] = k
    BY <1>2 DEF Login!Counted
  <2> HIDE DEF q
  <2>2. \A k \in DOMAIN Append(q, Len(q) + 1) : Append(q, Len(q) + 1)[k] = k
    <3>1. q \in Seq(Int) /\ Len(q) \in Nat /\ DOMAIN q = 1..Len(q)
      BY <2>1, LenProperties DEF Login!Numbers
    <3> QED BY <2>1, <3>1
  <2> QED BY <1>6, <2>2 DEF Login!Counted, q
<1>8. \A d \in Login!Clients : d # c => Login!Keys(d)' = Login!Keys(d)
  BY <1>1, SameKeys
<1> QED BY <1>7, <1>8 DEF Login!Counted

\* Keys stay in order.
LEMMA TelnetKeys ==
  ASSUME Login!TelnetTyped, \A d \in Login!Clients : Login!Counted(Login!Keys(d)),
         [Login!Next]_Login!vars
  PROVE  (\A d \in Login!Clients : Login!Counted(Login!Keys(d))')
<1>1. CASE Login!Accept
  <2>1. tn_line' = tn_line
    BY <1>1 DEF Login!Accept
  <2> QED BY <2>1, SameKeys DEF Login!Counted
<1>2. CASE Login!ReadId
  <2>1. tn_line' = tn_line
    BY <1>2 DEF Login!ReadId
  <2> QED BY <2>1, SameKeys DEF Login!Counted
<1>3. CASE Login!SigchldHandler
  <2>1. tn_line' = tn_line
    BY <1>3 DEF Login!SigchldHandler
  <2> QED BY <2>1, SameKeys DEF Login!Counted
<1>4. ASSUME NEW c \in Login!Clients, Login!WriteId(c)
      PROVE  \A d \in Login!Clients : Login!Counted(Login!Keys(d))'
  <2>1. tn_line' = tn_line
    BY <1>4 DEF Login!WriteId
  <2> QED BY <2>1, SameKeys DEF Login!Counted
<1>5. ASSUME NEW c \in Login!Clients, Login!Connect(c, 1)
      PROVE  \A d \in Login!Clients : Login!Counted(Login!Keys(d))'
  <2>1. tn_line' = tn_line
    BY <1>5 DEF Login!Connect
  <2> QED BY <2>1, SameKeys DEF Login!Counted
<1>6. ASSUME NEW c \in Login!Clients, Login!Connect(c, 2)
      PROVE  \A d \in Login!Clients : Login!Counted(Login!Keys(d))'
  <2>1. tn_line' = tn_line
    BY <1>6 DEF Login!Connect
  <2> QED BY <2>1, SameKeys DEF Login!Counted
<1>7. ASSUME NEW c \in Login!Clients, Login!SendRow(c)
      PROVE  \A d \in Login!Clients : Login!Counted(Login!Keys(d))'
  <2>1. tn_line' = tn_line
    BY <1>7 DEF Login!SendRow
  <2> QED BY <2>1, SameKeys DEF Login!Counted
<1>8. ASSUME NEW c \in Login!Clients, Login!Confirmed(c)
      PROVE  \A d \in Login!Clients : Login!Counted(Login!Keys(d))'
  <2>1. tn_line' = tn_line
    BY <1>8 DEF Login!Confirmed
  <2> QED BY <2>1, SameKeys DEF Login!Counted
<1>9. ASSUME NEW c \in Login!Clients, Login!TestFlag(c)
      PROVE  \A d \in Login!Clients : Login!Counted(Login!Keys(d))'
  <2>1. tn_line' = tn_line
    BY <1>9 DEF Login!TestFlag
  <2> QED BY <2>1, SameKeys DEF Login!Counted
<1>10. ASSUME NEW c \in Login!Clients, Login!Enter(c)
       PROVE  \A d \in Login!Clients : Login!Counted(Login!Keys(d))'
  <2>1. tn_line' = tn_line
    BY <1>10 DEF Login!Enter
  <2> QED BY <2>1, SameKeys DEF Login!Counted
<1>11. ASSUME NEW c \in Login!Clients, Login!EpollWait(c)
       PROVE  \A d \in Login!Clients : Login!Counted(Login!Keys(d))'
  <2>1. tn_line' = tn_line
    BY <1>11 DEF Login!EpollWait
  <2> QED BY <2>1, SameKeys DEF Login!Counted
<1>12. ASSUME NEW c \in Login!Clients, Login!HandleEvent(c)
       PROVE  \A d \in Login!Clients : Login!Counted(Login!Keys(d))'
  <2>1. tn_line' = tn_line \/ Login!Move(c, "down", "shown") \/ Login!Move(c, "keys", "up")
    BY <1>12 DEF Login!HandleEvent
  <2>2. CASE tn_line' = tn_line
    BY <2>2, SameKeys DEF Login!Counted
  <2>3. CASE Login!Move(c, "down", "shown")
    <3>1. \A d \in Login!Clients : Login!Keys(d)' = Login!Keys(d)
      BY <2>3, KeysMoved DEF Login!Follows
    <3> QED BY <3>1 DEF Login!Counted
  <2>4. CASE Login!Move(c, "keys", "up")
    <3>1. \A d \in Login!Clients : Login!Keys(d)' = Login!Keys(d)
      BY <2>4, KeysMoved DEF Login!Follows
    <3> QED BY <3>1 DEF Login!Counted
  <2> QED BY <2>1, <2>2, <2>3, <2>4
<1>13. ASSUME NEW c \in Login!Clients, Login!Fail(c)
       PROVE  \A d \in Login!Clients : Login!Counted(Login!Keys(d))'
  <2>1. tn_line' = tn_line
    BY <1>13 DEF Login!Fail
  <2> QED BY <2>1, SameKeys DEF Login!Counted
<1>14. ASSUME NEW c \in Login!Clients, Login!Winch(c)
       PROVE  \A d \in Login!Clients : Login!Counted(Login!Keys(d))'
  <2>1. tn_line' = tn_line
    BY <1>14 DEF Login!Winch
  <2> QED BY <2>1, SameKeys DEF Login!Counted
<1>15. ASSUME NEW c \in Login!Clients, Login!Type(c)
       PROVE  \A d \in Login!Clients : Login!Counted(Login!Keys(d))'
  BY <1>15, KeyTyped
<1>16. ASSUME NEW c \in Login!Clients, Login!Kill(c)
       PROVE  \A d \in Login!Clients : Login!Counted(Login!Keys(d))'
  <2>1. tn_line' = tn_line
    BY <1>16 DEF Login!Kill
  <2> QED BY <2>1, SameKeys DEF Login!Counted
<1>17. ASSUME NEW c \in Login!Clients, Login!ReceiveNumber(c)
       PROVE  \A d \in Login!Clients : Login!Counted(Login!Keys(d))'
  <2>1. tn_line' = tn_line
    BY <1>17 DEF Login!ReceiveNumber
  <2> QED BY <2>1, SameKeys DEF Login!Counted
<1>18. ASSUME NEW c \in Login!Clients, Login!ClientLeft(c)
       PROVE  \A d \in Login!Clients : Login!Counted(Login!Keys(d))'
  <2>1. tn_line' = tn_line
    BY <1>18 DEF Login!ClientLeft
  <2> QED BY <2>1, SameKeys DEF Login!Counted
<1>19. ASSUME NEW c \in Login!Clients, Login!SetWinsize(c)
       PROVE  \A d \in Login!Clients : Login!Counted(Login!Keys(d))'
  <2>1. tn_line' = tn_line
    BY <1>19 DEF Login!SetWinsize
  <2> QED BY <2>1, SameKeys DEF Login!Counted
<1>20. ASSUME NEW c \in Login!Clients, Login!ChildWait(c)
       PROVE  \A d \in Login!Clients : Login!Counted(Login!Keys(d))'
  <2>1. tn_line' = tn_line
    BY <1>20 DEF Login!ChildWait
  <2> QED BY <2>1, SameKeys DEF Login!Counted
<1>21. ASSUME NEW c \in Login!Clients, Login!ChildEvent(c)
       PROVE  \A d \in Login!Clients : Login!Counted(Login!Keys(d))'
  <2>1. tn_line' = tn_line \/ Login!Move(c, "up", "tty") \/ Login!Move(c, "out", "down")
    BY <1>21 DEF Login!ChildEvent
  <2>2. CASE tn_line' = tn_line
    BY <2>2, SameKeys DEF Login!Counted
  <2>3. CASE Login!Move(c, "up", "tty")
    <3>1. \A d \in Login!Clients : Login!Keys(d)' = Login!Keys(d)
      BY <2>3, KeysMoved DEF Login!Follows
    <3> QED BY <3>1 DEF Login!Counted
  <2>4. CASE Login!Move(c, "out", "down")
    <3>1. \A d \in Login!Clients : Login!Keys(d)' = Login!Keys(d)
      BY <2>4, KeysMoved DEF Login!Follows
    <3> QED BY <3>1 DEF Login!Counted
  <2> QED BY <2>1, <2>2, <2>3, <2>4
<1>22. ASSUME NEW c \in Login!Clients, Login!Shell(c)
       PROVE  \A d \in Login!Clients : Login!Counted(Login!Keys(d))'
  <2>1. tn_line' = tn_line \/ Login!Move(c, "tty", "out")
    BY <1>22 DEF Login!Shell
  <2>2. CASE tn_line' = tn_line
    BY <2>2, SameKeys DEF Login!Counted
  <2>3. CASE Login!Move(c, "tty", "out")
    <3>1. \A d \in Login!Clients : Login!Keys(d)' = Login!Keys(d)
      BY <2>3, KeysMoved DEF Login!Follows
    <3> QED BY <3>1 DEF Login!Counted
  <2> QED BY <2>1, <2>2, <2>3
<1>24. ASSUME NEW c \in Login!Clients, Login!ShellSignal(c)
       PROVE  \A d \in Login!Clients : Login!Counted(Login!Keys(d))'
  <2>1. tn_line' = tn_line
    BY <1>24, ShellEnded
  <2> QED BY <2>1, SameKeys DEF Login!Counted
<1>25. ASSUME NEW c \in Login!Clients, Login!Stop(c)
       PROVE  \A d \in Login!Clients : Login!Counted(Login!Keys(d))'
  <2>1. tn_line' = tn_line
    BY <1>25, ChildStopped
  <2> QED BY <2>1, SameKeys DEF Login!Counted
<1>23. CASE UNCHANGED Login!vars
  BY <1>23, SameKeys DEF Login!vars, Login!Counted
<1> QED
  BY <1>1, <1>2, <1>3, <1>4, <1>5, <1>6, <1>7, <1>8, <1>9, <1>10, <1>11, <1>12, <1>13,
    <1>14, <1>15, <1>16, <1>17, <1>18, <1>19, <1>20, <1>21, <1>22, <1>23,
    <1>24, <1>25
    DEF Login!Next, Login!Programs, Login!ClientStep, Login!ChildStep

\* Nobody has connected.
LEMMA TelnetStart == Login!Init => Login!TelnetInv
<1> SUFFICES ASSUME Login!Init PROVE Login!TelnetInv
  OBVIOUS
<1>0. /\ 0 \in Login!Numbers
      /\ <<0, 0>> \in Login!Numbers \X Login!Numbers
      /\ <<>> \in Seq(Login!Numbers)
  BY EmptySeq DEF Login!Numbers
<1>1. Login!TelnetTyped
  <2>1. /\ tn_spc = "accept" /\ tn_zombies = 0 /\ tn_pending = 0 /\ tn_stops = 0
        /\ tn_sessions = {}
    BY DEF Login!Init
  <2>8. tn_backlog \in Seq(Login!Clients \X {1, 2})
    <3>1. tn_backlog = <<>>
      BY DEF Login!Init
    <3> QED BY <3>1, EmptySeq
  <2>2. /\ tn_size \in [Login!Clients -> Login!Numbers]
        /\ tn_snap \in [Login!Clients -> Login!Numbers]
        /\ tn_conf \in [Login!Clients -> Int]
    BY <1>0 DEF Login!Init
  <2>3. tn_wire \in [Login!Clients -> Seq(Login!Numbers)]
    BY <1>0 DEF Login!Init
  <2>4. /\ tn_ws \in [Login!Clients -> Login!Numbers \X Login!Numbers]
        /\ tn_term \in [Login!Clients -> Login!Numbers \X Login!Numbers]
    BY <1>0 DEF Login!Init
  <2>5. tn_line \in [Login!Clients -> [Login!Stages -> Seq(Login!Numbers)]]
    BY <1>0 DEF Login!Init
  <2>6. \A c \in Login!Clients :
          tn_cpc[c] = "start" /\ tn_kpc[c] = "none" /\ tn_kevents[c] = {}
    BY DEF Login!Init
  <2>7. /\ tn_cpc = [c \in Login!Clients |-> "start"]
        /\ tn_kpc = [c \in Login!Clients |-> "none"]
        /\ tn_kevents = [c \in Login!Clients |-> {}]
    BY DEF Login!Init
  <2> QED BY <2>1, <2>2, <2>3, <2>4, <2>5, <2>7, <2>8 DEF Login!TelnetTyped
<1>2. Login!QueueInv
  <2>1. Login!In(tn_backlog) = {} /\ Login!Once(tn_backlog) /\ tn_spc = "accept"
    BY DEF Login!Init, Login!In, Login!Once
  <2> QED BY <2>1 DEF Login!QueueInv, Login!Waiting
<1>3. ASSUME NEW c \in Login!Clients
      PROVE  Login!ForkOnce(c) /\ Login!SizeInv(c) /\ Login!Counted(Login!Keys(c))
  <2>1. Login!ForkOnce(c)
    BY DEF Login!Init, Login!ForkOnce
  <2>2. Login!SizeInv(c)
    <3>1. /\ tn_cpc[c] = "start" /\ tn_kpc[c] = "none" /\ tn_kevents[c] = {}
          /\ tn_wire[c] = <<>>
          /\ tn_conf[c] = 0 /\ tn_term[c] = <<0, 0>>
      BY DEF Login!Init
    <3>2. tn_term[c][1] = tn_term[c][2]
      BY <3>1
    <3> QED BY <3>1, <3>2 DEF Login!SizeInv, Login!InLoop
  <2>3. Login!Keys(c) = <<>>
    <3>1. \A s \in Login!Stages : tn_line[c][s] = <<>>
      BY DEF Login!Init
    <3>2. /\ tn_line[c]["shown"] = <<>> /\ tn_line[c]["down"] = <<>>
          /\ tn_line[c]["out"] = <<>>
          /\ tn_line[c]["tty"] = <<>> /\ tn_line[c]["up"] = <<>>
          /\ tn_line[c]["keys"] = <<>>
      BY <3>1 DEF Login!Stages
    <3>3. <<>> \o <<>> = <<>>
      BY <1>0, ConcatEmptySeq
    <3> QED BY <3>2, <3>3, Zenon DEF Login!Keys, Login!Whole
  <2>4. Login!Counted(Login!Keys(c))
    BY <2>3 DEF Login!Counted
  <2> QED BY <2>1, <2>2, <2>4
<1>4. tn_pending <= tn_zombies + tn_stops /\ tn_sessions = {}
  BY DEF Login!Init
<1> QED BY <1>1, <1>2, <1>3, <1>4 DEF Login!TelnetInv

\* Every step of the server, its children and the clients preserves it.
LEMMA TelnetStep == Login!TelnetInv /\ [Login!Next]_Login!vars => Login!TelnetInv'
<1> SUFFICES ASSUME Login!TelnetInv, [Login!Next]_Login!vars PROVE Login!TelnetInv'
  OBVIOUS
<1>1. /\ Login!TelnetTyped /\ Login!QueueInv
      /\ tn_pending <= tn_zombies + tn_stops /\ \A c, d \in tn_sessions : c = d
      /\ \A c \in Login!Clients : Login!ForkOnce(c)
      /\ \A c \in Login!Clients : Login!SizeInv(c)
      /\ \A c \in Login!Clients : Login!Counted(Login!Keys(c))
  BY DEF Login!TelnetInv
<1>2. Login!TelnetTyped'
  BY <1>1, TelnetTypes
<1>3. /\ Login!QueueInv'
      /\ \A c \in Login!Clients, k \in {1, 2} : Login!Comes(c, k)' => Login!Comes(c, k)
  BY <1>1, TelnetQueue
<1>4. (tn_pending <= tn_zombies + tn_stops)'
  BY <1>1, TelnetReaps
<1>5. (\A c \in Login!Clients : Login!ForkOnce(c)') /\ (\A c, d \in tn_sessions : c = d)'
  BY <1>1, <1>3, TelnetForks
<1>6. \A c \in Login!Clients : Login!SizeInv(c)'
  BY <1>1, TelnetSizes
<1>7. \A c \in Login!Clients : Login!Counted(Login!Keys(c))'
  BY <1>1, TelnetKeys
<1> QED BY <1>2, <1>3, <1>4, <1>5, <1>6, <1>7 DEF Login!TelnetInv

\* What it says of terminals and sessions.
LEMMA TelnetMeans == Login!TelnetInv => Login!TelnetIsSound
<1> SUFFICES ASSUME Login!TelnetInv PROVE Login!TelnetIsSound
  OBVIOUS
<1>1. \A c \in tn_sessions : tn_kpc[c] = "none"
  BY DEF Login!TelnetInv, Login!TelnetTyped, Login!ForkOnce
<1>2. ASSUME NEW c \in Login!Clients
      PROVE  /\ tn_term[c][1] = tn_term[c][2]
             /\ (tn_kpc[c] = "ioctl" => tn_ws[c][1] = tn_ws[c][2])
             /\ Login!InLoop(c) /\ tn_kpc[c] = "wait" =>
                  /\ tn_wire[c] = <<>> /\ tn_conf[c] = 0
                  /\ tn_term[c] = <<tn_snap[c], tn_snap[c]>>
             /\ \A k \in DOMAIN Login!Keys(c) : Login!Keys(c)[k] = k
  <2>1. Login!SizeInv(c) /\ Login!Counted(Login!Keys(c))
    BY <1>2 DEF Login!TelnetInv
  <2>2. Login!Settled(c) /\ tn_kpc[c] = "wait" => tn_term[c] = <<tn_snap[c], tn_snap[c]>>
    BY DEF Login!Settled
  <2>3. /\ tn_term[c][1] = tn_term[c][2]
        /\ tn_kpc[c] = "ioctl" => tn_ws[c][1] = tn_ws[c][2]
        /\ Login!InLoop(c) => Login!Settled(c) /\ tn_wire[c] = <<>> /\ tn_conf[c] = 0
    BY <2>1, Zenon DEF Login!SizeInv
  <2>4. \A k \in DOMAIN Login!Keys(c) : Login!Keys(c)[k] = k
    BY <2>1, Zenon DEF Login!Counted
  <2> QED BY <2>2, <2>3, <2>4
<1>3. tn_pending <= tn_zombies + tn_stops
  BY DEF Login!TelnetInv
<1> QED BY <1>1, <1>2, <1>3, Zenon DEF Login!TelnetIsSound

-----------------------------------------------------------------------------
(***************************************************************************)
(* Proofs about the servers that fork, for any number of clients and any   *)
(* limit: children are counted, SIGCHLD is not lost on the way to waitpid, *)
(* and a client that is through has all that it sent.                      *)
(***************************************************************************)

Fork ==
  INSTANCE ForkServers WITH
    tool <- x1, backlog <- x2, spc <- x3, caught <- x4, pending <- x5,
    child_count <- x6, ints <- x7, kpc <- x8, cpc <- x9, sent <- x10,
    fin <- x11, cmd <- x12, got <- x13

fs_tool == x1
fs_backlog == x2
fs_spc == x3
fs_caught == x4
fs_pending == x5
fs_child_count == x6
fs_ints == x7
fs_kpc == x8
fs_cpc == x9
fs_sent == x10
fs_fin == x11
fs_cmd == x12
fs_got == x13

USE DEF fs_tool, fs_backlog, fs_spc, fs_caught, fs_pending, fs_child_count, fs_ints,
        fs_kpc, fs_cpc, fs_sent, fs_fin, fs_cmd, fs_got

\* The cardinality that ForkServers counts with.
LEMMA ForkCardinality == \A S : Fork!Cardinality(S) = Cardinality(S)
BY DEF Fork!Cardinality, Cardinality

\* Entering a queue.
LEMMA ForkEnters ==
  ASSUME NEW S, NEW q \in Seq(S), NEW x \in S
  PROVE  /\ Append(q, x) \in Seq(S) /\ Fork!In(Append(q, x)) = Fork!In(q) \cup {x}
         /\ Fork!In(q) \subseteq S
         /\ Fork!Once(q) /\ x \notin Fork!In(q) => Fork!Once(Append(q, x))
BY EntersQueue DEF Fork!In, Fork!Once, Members, NoneTwice

\* Leaving it.
LEMMA ForkLeaves ==
  ASSUME NEW S, NEW q \in Seq(S), q # <<>>
  PROVE  /\ Head(q) \in Fork!In(q) /\ Tail(q) \in Seq(S)
         /\ Fork!In(q) \subseteq S /\ Fork!In(Tail(q)) \subseteq Fork!In(q)
         /\ Fork!Once(q) => Head(q) \notin Fork!In(Tail(q)) /\ Fork!Once(Tail(q))
BY LeavesQueue DEF Fork!In, Fork!Once, Members, NoneTwice

\* Types.
LEMMA ForkTypes ==
  ASSUME Fork!ForkTyped, [Fork!Next]_Fork!vars
  PROVE  Fork!ForkTyped'
<1>1. CASE Fork!Top
  BY <1>1 DEF Fork!Top, Fork!ForkTyped, Fork!Living, Fork!server, Fork!client, Fork!Set,
    Fork!Child, Fork!Exit
<1>2. CASE Fork!Reap
  BY <1>2 DEF Fork!Reap, Fork!ForkTyped, Fork!Living, Fork!server, Fork!client, Fork!Set,
    Fork!Child, Fork!Exit, Fork!Zombies
<1>3. CASE Fork!Block
  BY <1>3 DEF Fork!Block, Fork!ForkTyped, Fork!Living, Fork!server, Fork!client, Fork!Set,
    Fork!Child, Fork!Exit
<1>4. CASE Fork!Accept
  <2>1. Head(fs_backlog) \in Fork!Clients /\ Tail(fs_backlog) \in Seq(Fork!Clients)
    BY <1>4, HeadTailProperties DEF Fork!Accept, Fork!ForkTyped
  <2> QED BY <1>4, <2>1 DEF Fork!Accept, Fork!ForkTyped, Fork!Living, Fork!Set, Fork!client
<1>5. CASE Fork!SigchldHandler
  BY <1>5 DEF Fork!SigchldHandler, Fork!ForkTyped, Fork!Living, Fork!server, Fork!client,
    Fork!Set, Fork!Child, Fork!Exit, Fork!Interrupted, Fork!Zombies
<1>6. CASE Fork!Sigint
  BY <1>6 DEF Fork!Sigint, Fork!ForkTyped, Fork!Living, Fork!server, Fork!client, Fork!Set,
    Fork!Child, Fork!Exit, Fork!Interrupted
<1>7. ASSUME NEW c \in Fork!Clients, Fork!Echo(c) PROVE Fork!ForkTyped'
  <2>1. /\ fs_tool' = fs_tool
        /\ UNCHANGED <<fs_backlog, fs_spc, fs_caught, fs_cpc, fs_sent, fs_fin>>
    BY <1>7 DEF Fork!Echo, Fork!Child, Fork!server, Fork!client
  <2>2. /\ fs_kpc' \in [Fork!Clients -> Fork!Living \cup {"none", "reaped", "leaked"}]
        /\ fs_pending' \in BOOLEAN
    BY <1>7 DEF Fork!Echo, Fork!Exit, Fork!ForkTyped, Fork!Living, Fork!Set
  <2>3. fs_cmd' \in [Fork!Clients -> Int] /\ fs_got' \in [Fork!Clients -> Int]
    BY <1>7 DEF Fork!Echo, Fork!ForkTyped, Fork!Set
  <2> QED BY <2>1, <2>2, <2>3 DEF Fork!ForkTyped
<1>8. ASSUME NEW c \in Fork!Clients, Fork!Collect(c) PROVE Fork!ForkTyped'
  BY <1>8 DEF Fork!Collect, Fork!ForkTyped, Fork!Living, Fork!server, Fork!client, Fork!Set,
    Fork!Child, Fork!Exit
<1>9. ASSUME NEW c \in Fork!Clients, Fork!EndOfInput(c) PROVE Fork!ForkTyped'
  BY <1>9 DEF Fork!EndOfInput, Fork!ForkTyped, Fork!Living, Fork!server, Fork!client,
    Fork!Set, Fork!Child, Fork!Exit
<1>10. ASSUME NEW c \in Fork!Clients, Fork!Run(c) PROVE Fork!ForkTyped'
  BY <1>10 DEF Fork!Run, Fork!ForkTyped, Fork!Living, Fork!server, Fork!client, Fork!Set,
    Fork!Child, Fork!Exit
<1>11. ASSUME NEW c \in Fork!Clients, Fork!Done(c) PROVE Fork!ForkTyped'
  BY <1>11 DEF Fork!Done, Fork!ForkTyped, Fork!Living, Fork!server, Fork!client, Fork!Set,
    Fork!Child, Fork!Exit
<1>12. ASSUME NEW c \in Fork!Clients, Fork!WriteCommand(c) PROVE Fork!ForkTyped'
  BY <1>12 DEF Fork!WriteCommand, Fork!ForkTyped, Fork!Living, Fork!server, Fork!client,
    Fork!Set, Fork!Child, Fork!Exit
<1>13. ASSUME NEW c \in Fork!Clients, Fork!WriteInput(c) PROVE Fork!ForkTyped'
  <2>1. UNCHANGED <<fs_tool, fs_backlog, fs_spc, fs_caught, fs_pending, fs_kpc, fs_cmd,
                    fs_got>>
    BY <1>13 DEF Fork!WriteInput, Fork!server
  <2>2. fs_cpc' \in [Fork!Clients -> {"start", "write", "read", "failed", "done", "killed"}]
    BY <1>13 DEF Fork!WriteInput, Fork!ForkTyped, Fork!Set
  <2>3. fs_fin' \in [Fork!Clients -> BOOLEAN]
    BY <1>13 DEF Fork!WriteInput, Fork!ForkTyped, Fork!Set
  <2>4. fs_sent' \in [Fork!Clients -> Int]
    BY <1>13 DEF Fork!WriteInput, Fork!ForkTyped, Fork!Set
  <2> QED BY <2>1, <2>2, <2>3, <2>4 DEF Fork!ForkTyped
<1>14. ASSUME NEW c \in Fork!Clients, Fork!EndOfFile(c) PROVE Fork!ForkTyped'
  BY <1>14 DEF Fork!EndOfFile, Fork!ForkTyped, Fork!Living, Fork!server, Fork!client,
    Fork!Set, Fork!Child, Fork!Exit
<1>15. ASSUME NEW c \in Fork!Clients, Fork!Connect(c) PROVE Fork!ForkTyped'
  <2>1. Append(fs_backlog, c) \in Seq(Fork!Clients)
    BY <1>15, AppendProperties DEF Fork!Connect, Fork!ForkTyped
  <2> QED BY <1>15, <2>1 DEF Fork!Connect, Fork!ForkTyped, Fork!Living, Fork!Set,
    Fork!client
<1>16. ASSUME NEW c \in Fork!Clients, Fork!Kill(c) PROVE Fork!ForkTyped'
  BY <1>16 DEF Fork!Kill, Fork!ForkTyped, Fork!Living, Fork!server, Fork!client, Fork!Set,
    Fork!Child, Fork!Exit
<1>17. CASE UNCHANGED Fork!vars
  BY <1>17 DEF Fork!vars, Fork!ForkTyped, Fork!Living, Fork!server, Fork!client, Fork!Set,
    Fork!Child, Fork!Exit
<1> QED
  BY <1>1, <1>2, <1>3, <1>4, <1>5, <1>6, <1>7, <1>8, <1>9, <1>10, <1>11, <1>12, <1>13,
    <1>14, <1>15, <1>16, <1>17
    DEF Fork!Next, Fork!Server, Fork!Children, Fork!Readers

\* What nothing happens to.
LEMMA SameClient ==
  ASSUME NEW d \in Fork!Clients, Fork!ClientInv(d), UNCHANGED <<fs_tool, fs_ints>>,
         fs_kpc'[d] = fs_kpc[d],
         fs_cpc'[d] = fs_cpc[d], fs_sent'[d] = fs_sent[d], fs_fin'[d] = fs_fin[d],
         fs_cmd'[d] = fs_cmd[d], fs_got'[d] = fs_got[d]
  PROVE  Fork!ClientInv(d)'
BY DEF Fork!ClientInv

\* What a client and its child know of each other.
LEMMA ForkClients ==
  ASSUME Fork!ForkTyped, Fork!BacklogInv, Fork!SignalInv,
         \A d \in Fork!Clients : Fork!ClientInv(d), [Fork!Next]_Fork!vars
  PROVE  \A d \in Fork!Clients : Fork!ClientInv(d)'
<1>1. CASE Fork!Top
  BY <1>1, SameClient DEF Fork!Top, Fork!server, Fork!client, Fork!Set, Fork!Child,
    Fork!Exit
<1>2. CASE Fork!Reap
  <2>1. UNCHANGED <<fs_tool, fs_ints, Fork!client, fs_cmd, fs_got>>
    BY <1>2 DEF Fork!Reap
  <2>2. \A d \in Fork!Clients :
          \/ fs_kpc'[d] = fs_kpc[d]
          \/ fs_kpc[d] = "zombie" /\ fs_kpc'[d] = "reaped"
    BY <1>2 DEF Fork!Reap, Fork!Zombies, Fork!ForkTyped, Fork!Set
  <2> QED BY <2>1, <2>2 DEF Fork!ClientInv, Fork!client
<1>3. CASE Fork!Block
  BY <1>3, SameClient DEF Fork!Block, Fork!server, Fork!client, Fork!Set, Fork!Child,
    Fork!Exit
<1>4. CASE Fork!Accept
  <2> DEFINE c == Head(fs_backlog)
  <2>1. c \in Fork!In(fs_backlog) /\ c \in Fork!Clients /\ fs_kpc[c] = "none"
    BY <1>4, ForkLeaves DEF Fork!Accept, Fork!ForkTyped, Fork!BacklogInv
  <2>2. /\ UNCHANGED <<fs_tool, fs_ints, Fork!client, fs_cmd, fs_got>>
        /\ \E l \in {"read", "leaked"} : fs_kpc' = [fs_kpc EXCEPT ![c] = l]
    BY <1>4 DEF Fork!Accept, Fork!Set
  <2> HIDE DEF c
  <2> QED BY <2>1, <2>2 DEF Fork!ClientInv, Fork!client, Fork!ForkTyped
<1>5. CASE Fork!SigchldHandler
  <2>1. UNCHANGED <<fs_tool, fs_ints, Fork!client, fs_cmd, fs_got>>
    BY <1>5 DEF Fork!SigchldHandler
  <2>2. \A d \in Fork!Clients :
          \/ fs_kpc'[d] = fs_kpc[d]
          \/ fs_kpc[d] = "zombie" /\ fs_kpc'[d] = "reaped"
    BY <1>5 DEF Fork!SigchldHandler, Fork!Zombies, Fork!ForkTyped
  <2> QED BY <2>1, <2>2 DEF Fork!ClientInv, Fork!client
<1>6. CASE Fork!Sigint
  <2>1. UNCHANGED <<fs_tool, Fork!client, fs_cmd, fs_got>> /\ fs_ints' = 1
    BY <1>6 DEF Fork!Sigint
  <2>2. \A d \in Fork!Clients :
          \/ fs_kpc'[d] = fs_kpc[d]
          \/ fs_kpc[d] = "read" /\ fs_kpc'[d] = "zombie"
    BY <1>6 DEF Fork!Sigint, Fork!ForkTyped
  <2> QED BY <2>1, <2>2 DEF Fork!ClientInv, Fork!client
<1>7. ASSUME NEW c \in Fork!Clients, Fork!Echo(c)
      PROVE  \A d \in Fork!Clients : Fork!ClientInv(d)'
  <2>1. ASSUME NEW d \in Fork!Clients PROVE Fork!ClientInv(d)'
    <3>1. CASE d # c
      BY <1>7, <3>1, SameClient DEF Fork!Echo, Fork!ForkTyped, Fork!server, Fork!client,
        Fork!Set, Fork!Child, Fork!Exit
    <3>2. CASE d = c
      BY <1>7, <3>2 DEF Fork!Echo, Fork!ClientInv, Fork!ForkTyped, Fork!Living, Fork!server,
        Fork!client, Fork!Set, Fork!Child, Fork!Exit
    <3> QED BY <3>1, <3>2
  <2> QED BY <2>1
<1>8. ASSUME NEW c \in Fork!Clients, Fork!Collect(c)
      PROVE  \A d \in Fork!Clients : Fork!ClientInv(d)'
  <2>1. ASSUME NEW d \in Fork!Clients PROVE Fork!ClientInv(d)'
    <3>1. CASE d # c
      BY <1>8, <3>1, SameClient DEF Fork!Collect, Fork!ForkTyped, Fork!server, Fork!client,
        Fork!Set, Fork!Child, Fork!Exit
    <3>2. CASE d = c
      <4>1. fs_cmd' = [fs_cmd EXCEPT ![c] = fs_cmd[c] + 1] /\ fs_cmd[c] < fs_sent[c]
        BY <1>8 DEF Fork!Collect, Fork!Set
      <4>2. /\ c \in Fork!Clients /\ fs_cmd \in [Fork!Clients -> Int]
            /\ fs_sent \in [Fork!Clients -> Int]
        BY <1>8 DEF Fork!ForkTyped
      <4>3. /\ fs_tool = "is_shell" /\ fs_kpc[c] = "read"
            /\ UNCHANGED <<fs_tool, fs_ints, fs_kpc, fs_cpc, fs_sent, fs_fin, fs_got>>
        BY <1>8 DEF Fork!Collect, Fork!Child, Fork!server, Fork!client, Fork!Set
      <4>4. fs_cmd'[c] <= fs_sent[c]
        BY <4>1, <4>2
      <4>5. Fork!ClientInv(c)'
        BY <4>3, <4>4, Zenon DEF Fork!ClientInv
      <4> QED BY <4>5, <3>2
    <3> QED BY <3>1, <3>2
  <2> QED BY <2>1
<1>9. ASSUME NEW c \in Fork!Clients, Fork!EndOfInput(c)
      PROVE  \A d \in Fork!Clients : Fork!ClientInv(d)'
  <2>1. ASSUME NEW d \in Fork!Clients PROVE Fork!ClientInv(d)'
    <3>1. CASE d # c
      BY <1>9, <3>1, SameClient DEF Fork!EndOfInput, Fork!ForkTyped, Fork!server,
        Fork!client, Fork!Set, Fork!Child, Fork!Exit
    <3>2. CASE d = c
      BY <1>9, <3>2 DEF Fork!EndOfInput, Fork!ClientInv, Fork!ForkTyped, Fork!Living,
        Fork!server, Fork!client, Fork!Set, Fork!Child, Fork!Exit
    <3> QED BY <3>1, <3>2
  <2> QED BY <2>1
<1>10. ASSUME NEW c \in Fork!Clients, Fork!Run(c)
       PROVE  \A d \in Fork!Clients : Fork!ClientInv(d)'
  <2>1. ASSUME NEW d \in Fork!Clients PROVE Fork!ClientInv(d)'
    <3>1. CASE d # c
      BY <1>10, <3>1, SameClient DEF Fork!Run, Fork!ForkTyped, Fork!server, Fork!client,
        Fork!Set, Fork!Child, Fork!Exit
    <3>2. CASE d = c
      BY <1>10, <3>2 DEF Fork!Run, Fork!ClientInv, Fork!ForkTyped, Fork!Living, Fork!server,
        Fork!client, Fork!Set, Fork!Child, Fork!Exit
    <3> QED BY <3>1, <3>2
  <2> QED BY <2>1
<1>11. ASSUME NEW c \in Fork!Clients, Fork!Done(c)
       PROVE  \A d \in Fork!Clients : Fork!ClientInv(d)'
  <2>1. ASSUME NEW d \in Fork!Clients PROVE Fork!ClientInv(d)'
    <3>1. CASE d # c
      BY <1>11, <3>1, SameClient DEF Fork!Done, Fork!ForkTyped, Fork!server, Fork!client,
        Fork!Set, Fork!Child, Fork!Exit
    <3>2. CASE d = c
      BY <1>11, <3>2 DEF Fork!Done, Fork!ClientInv, Fork!ForkTyped, Fork!Living,
        Fork!server, Fork!client, Fork!Set, Fork!Child, Fork!Exit
    <3> QED BY <3>1, <3>2
  <2> QED BY <2>1
<1>12. ASSUME NEW c \in Fork!Clients, Fork!WriteCommand(c)
       PROVE  \A d \in Fork!Clients : Fork!ClientInv(d)'
  <2>1. ASSUME NEW d \in Fork!Clients PROVE Fork!ClientInv(d)'
    <3>1. CASE d # c
      BY <1>12, <3>1, SameClient DEF Fork!WriteCommand, Fork!ForkTyped, Fork!server,
        Fork!client, Fork!Set, Fork!Child, Fork!Exit
    <3>2. CASE d = c
      BY <1>12, <3>2 DEF Fork!WriteCommand, Fork!ClientInv, Fork!ForkTyped, Fork!Living,
        Fork!server, Fork!client, Fork!Set, Fork!Child, Fork!Exit
    <3> QED BY <3>1, <3>2
  <2> QED BY <2>1
<1>13. ASSUME NEW c \in Fork!Clients, Fork!WriteInput(c)
       PROVE  \A d \in Fork!Clients : Fork!ClientInv(d)'
  <2>1. ASSUME NEW d \in Fork!Clients PROVE Fork!ClientInv(d)'
    <3>1. CASE d # c
      BY <1>13, <3>1, SameClient DEF Fork!WriteInput, Fork!ForkTyped, Fork!server,
        Fork!client, Fork!Set, Fork!Child, Fork!Exit
    <3>2. CASE d = c
      BY <1>13, <3>2 DEF Fork!WriteInput, Fork!ClientInv, Fork!ForkTyped, Fork!Living,
        Fork!server, Fork!client, Fork!Set, Fork!Child, Fork!Exit
    <3> QED BY <3>1, <3>2
  <2> QED BY <2>1
<1>14. ASSUME NEW c \in Fork!Clients, Fork!EndOfFile(c)
       PROVE  \A d \in Fork!Clients : Fork!ClientInv(d)'
  <2>1. ASSUME NEW d \in Fork!Clients PROVE Fork!ClientInv(d)'
    <3>1. CASE d # c
      BY <1>14, <3>1, SameClient DEF Fork!EndOfFile, Fork!ForkTyped, Fork!server,
        Fork!client, Fork!Set, Fork!Child, Fork!Exit
    <3>2. CASE d = c
      BY <1>14, <3>2 DEF Fork!EndOfFile, Fork!ClientInv, Fork!ForkTyped, Fork!Living,
        Fork!server, Fork!client, Fork!Set, Fork!Child, Fork!Exit, Fork!SignalInv
    <3> QED BY <3>1, <3>2
  <2> QED BY <2>1
<1>15. ASSUME NEW c \in Fork!Clients, Fork!Connect(c)
       PROVE  \A d \in Fork!Clients : Fork!ClientInv(d)'
  <2>1. ASSUME NEW d \in Fork!Clients PROVE Fork!ClientInv(d)'
    <3>1. CASE d # c
      BY <1>15, <3>1, SameClient DEF Fork!Connect, Fork!ForkTyped, Fork!server, Fork!client,
        Fork!Set, Fork!Child, Fork!Exit
    <3>2. CASE d = c
      BY <1>15, <3>2 DEF Fork!Connect, Fork!ClientInv, Fork!ForkTyped, Fork!Living,
        Fork!server, Fork!client, Fork!Set, Fork!Child, Fork!Exit
    <3> QED BY <3>1, <3>2
  <2> QED BY <2>1
<1>16. ASSUME NEW c \in Fork!Clients, Fork!Kill(c)
       PROVE  \A d \in Fork!Clients : Fork!ClientInv(d)'
  <2>1. ASSUME NEW d \in Fork!Clients PROVE Fork!ClientInv(d)'
    <3>1. CASE d # c
      BY <1>16, <3>1, SameClient DEF Fork!Kill, Fork!ForkTyped, Fork!server, Fork!client,
        Fork!Set, Fork!Child, Fork!Exit
    <3>2. CASE d = c
      BY <1>16, <3>2 DEF Fork!Kill, Fork!ClientInv, Fork!ForkTyped, Fork!Living,
        Fork!server, Fork!client, Fork!Set, Fork!Child, Fork!Exit
    <3> QED BY <3>1, <3>2
  <2> QED BY <2>1
<1>17. CASE UNCHANGED Fork!vars
  BY <1>17, SameClient DEF Fork!vars
<1> QED
  BY <1>1, <1>2, <1>3, <1>4, <1>5, <1>6, <1>7, <1>8, <1>9, <1>10, <1>11, <1>12, <1>13,
    <1>14, <1>15, <1>16, <1>17
    DEF Fork!Next, Fork!Server, Fork!Children, Fork!Readers

\* The queue of those who have connected, in steps that leave it as it is.
LEMMA SameBacklog ==
  ASSUME Fork!BacklogInv, Fork!ForkTyped, fs_backlog' = fs_backlog,
         \A d \in Fork!Clients : fs_kpc[d] = "none" => fs_kpc'[d] = "none",
         \A d \in Fork!Clients : fs_cpc'[d] = "start" <=> fs_cpc[d] = "start"
  PROVE  Fork!BacklogInv'
<1>1. Fork!In(fs_backlog) \subseteq Fork!Clients
  BY ElementOfSeq DEF Fork!ForkTyped, Fork!In
<1> QED BY <1>1 DEF Fork!BacklogInv

\* Who waits to be accepted.
LEMMA ForkBacklog ==
  ASSUME Fork!ForkTyped, Fork!BacklogInv, \A d \in Fork!Clients : Fork!ClientInv(d),
         [Fork!Next]_Fork!vars
  PROVE  Fork!BacklogInv'
<1>1. CASE Fork!Top
  BY <1>1, SameBacklog DEF Fork!Top, Fork!client
<1>2. CASE Fork!Reap
  <2>1. \A d \in Fork!Clients : fs_kpc[d] = "none" => fs_kpc'[d] = "none"
    BY <1>2 DEF Fork!Reap, Fork!Zombies, Fork!Set, Fork!ForkTyped
  <2> QED BY <1>2, <2>1, SameBacklog DEF Fork!Reap, Fork!client
<1>3. CASE Fork!Block
  BY <1>3, SameBacklog DEF Fork!Block, Fork!client
<1>4. CASE Fork!Accept
  <2> DEFINE c == Head(fs_backlog)
  <2>1. /\ c \in Fork!In(fs_backlog)
        /\ Tail(fs_backlog) \in Seq(Fork!Clients)
        /\ Fork!In(fs_backlog) \subseteq Fork!Clients
        /\ Fork!In(Tail(fs_backlog)) \subseteq Fork!In(fs_backlog)
        /\ c \notin Fork!In(Tail(fs_backlog)) /\ Fork!Once(Tail(fs_backlog))
    BY <1>4, ForkLeaves DEF Fork!Accept, Fork!ForkTyped, Fork!BacklogInv
  <2>2. /\ fs_cpc' = fs_cpc /\ fs_backlog' = Tail(fs_backlog)
        /\ \E l \in {"read", "leaked"} : fs_kpc' = [fs_kpc EXCEPT ![c] = l]
    BY <1>4 DEF Fork!Accept, Fork!Set, Fork!client
  <2> HIDE DEF c
  <2> QED BY <2>1, <2>2 DEF Fork!BacklogInv, Fork!ForkTyped
<1>5. CASE Fork!SigchldHandler
  <2>1. \A d \in Fork!Clients : fs_kpc[d] = "none" => fs_kpc'[d] = "none"
    BY <1>5 DEF Fork!SigchldHandler, Fork!Zombies, Fork!Set, Fork!ForkTyped
  <2> QED BY <1>5, <2>1, SameBacklog DEF Fork!SigchldHandler, Fork!client
<1>6. CASE Fork!Sigint
  <2>1. \A d \in Fork!Clients : fs_kpc[d] = "none" => fs_kpc'[d] = "none"
    BY <1>6 DEF Fork!Sigint, Fork!Zombies, Fork!Set, Fork!ForkTyped
  <2> QED BY <1>6, <2>1, SameBacklog DEF Fork!Sigint, Fork!client
<1>7. ASSUME NEW c \in Fork!Clients, Fork!Echo(c) PROVE Fork!BacklogInv'
  <2>1. UNCHANGED fs_backlog
    BY <1>7 DEF Fork!Echo, Fork!Child, Fork!server
  <2>2. \A d \in Fork!Clients : fs_kpc[d] = "none" => fs_kpc'[d] = "none"
    BY <1>7 DEF Fork!Echo, Fork!Child, Fork!Exit, Fork!Set, Fork!ForkTyped
  <2>3. \A d \in Fork!Clients : fs_cpc'[d] = "start" <=> fs_cpc[d] = "start"
    BY <1>7 DEF Fork!Echo, Fork!Child, Fork!client, Fork!Set, Fork!ForkTyped
  <2> QED BY <2>1, <2>2, <2>3, SameBacklog
<1>8. ASSUME NEW c \in Fork!Clients, Fork!Collect(c) PROVE Fork!BacklogInv'
  <2>1. UNCHANGED fs_backlog
    BY <1>8 DEF Fork!Collect, Fork!Child, Fork!server
  <2>2. \A d \in Fork!Clients : fs_kpc[d] = "none" => fs_kpc'[d] = "none"
    BY <1>8 DEF Fork!Collect, Fork!Child, Fork!Exit, Fork!Set, Fork!ForkTyped
  <2>3. \A d \in Fork!Clients : fs_cpc'[d] = "start" <=> fs_cpc[d] = "start"
    BY <1>8 DEF Fork!Collect, Fork!Child, Fork!client, Fork!Set, Fork!ForkTyped
  <2> QED BY <2>1, <2>2, <2>3, SameBacklog
<1>9. ASSUME NEW c \in Fork!Clients, Fork!EndOfInput(c) PROVE Fork!BacklogInv'
  <2>1. UNCHANGED fs_backlog
    BY <1>9 DEF Fork!EndOfInput, Fork!Child, Fork!server
  <2>2. \A d \in Fork!Clients : fs_kpc[d] = "none" => fs_kpc'[d] = "none"
    BY <1>9 DEF Fork!EndOfInput, Fork!Child, Fork!Exit, Fork!Set, Fork!ForkTyped
  <2>3. \A d \in Fork!Clients : fs_cpc'[d] = "start" <=> fs_cpc[d] = "start"
    BY <1>9 DEF Fork!EndOfInput, Fork!Child, Fork!client, Fork!Set, Fork!ForkTyped
  <2> QED BY <2>1, <2>2, <2>3, SameBacklog
<1>10. ASSUME NEW c \in Fork!Clients, Fork!Run(c) PROVE Fork!BacklogInv'
  <2>1. UNCHANGED fs_backlog
    BY <1>10 DEF Fork!Run, Fork!Child, Fork!server
  <2>2. \A d \in Fork!Clients : fs_kpc[d] = "none" => fs_kpc'[d] = "none"
    BY <1>10 DEF Fork!Run, Fork!Child, Fork!Exit, Fork!Set, Fork!ForkTyped
  <2>3. \A d \in Fork!Clients : fs_cpc'[d] = "start" <=> fs_cpc[d] = "start"
    BY <1>10 DEF Fork!Run, Fork!Child, Fork!client, Fork!Set, Fork!ForkTyped
  <2> QED BY <2>1, <2>2, <2>3, SameBacklog
<1>11. ASSUME NEW c \in Fork!Clients, Fork!Done(c) PROVE Fork!BacklogInv'
  <2>1. UNCHANGED fs_backlog
    BY <1>11 DEF Fork!Done, Fork!Child, Fork!server
  <2>2. \A d \in Fork!Clients : fs_kpc[d] = "none" => fs_kpc'[d] = "none"
    BY <1>11 DEF Fork!Done, Fork!Child, Fork!Exit, Fork!Set, Fork!ForkTyped
  <2>3. \A d \in Fork!Clients : fs_cpc'[d] = "start" <=> fs_cpc[d] = "start"
    BY <1>11 DEF Fork!Done, Fork!Child, Fork!client, Fork!Set, Fork!ForkTyped
  <2> QED BY <2>1, <2>2, <2>3, SameBacklog
<1>12. ASSUME NEW c \in Fork!Clients, Fork!WriteCommand(c) PROVE Fork!BacklogInv'
  <2>1. UNCHANGED fs_backlog
    BY <1>12 DEF Fork!WriteCommand, Fork!Child, Fork!server
  <2>2. \A d \in Fork!Clients : fs_kpc[d] = "none" => fs_kpc'[d] = "none"
    BY <1>12 DEF Fork!WriteCommand, Fork!Child, Fork!Exit, Fork!Set, Fork!ForkTyped
  <2>3. \A d \in Fork!Clients : fs_cpc'[d] = "start" <=> fs_cpc[d] = "start"
    BY <1>12 DEF Fork!WriteCommand, Fork!Child, Fork!client, Fork!Set, Fork!ForkTyped
  <2> QED BY <2>1, <2>2, <2>3, SameBacklog
<1>13. ASSUME NEW c \in Fork!Clients, Fork!WriteInput(c) PROVE Fork!BacklogInv'
  <2>1. UNCHANGED fs_backlog
    BY <1>13 DEF Fork!WriteInput, Fork!Child, Fork!server
  <2>2. \A d \in Fork!Clients : fs_kpc[d] = "none" => fs_kpc'[d] = "none"
    BY <1>13 DEF Fork!WriteInput, Fork!Child, Fork!Exit, Fork!Set, Fork!ForkTyped
  <2>3. \A d \in Fork!Clients : fs_cpc'[d] = "start" <=> fs_cpc[d] = "start"
    BY <1>13 DEF Fork!WriteInput, Fork!Child, Fork!client, Fork!Set, Fork!ForkTyped
  <2> QED BY <2>1, <2>2, <2>3, SameBacklog
<1>14. ASSUME NEW c \in Fork!Clients, Fork!EndOfFile(c) PROVE Fork!BacklogInv'
  <2>1. UNCHANGED fs_backlog
    BY <1>14 DEF Fork!EndOfFile, Fork!Child, Fork!server
  <2>2. \A d \in Fork!Clients : fs_kpc[d] = "none" => fs_kpc'[d] = "none"
    BY <1>14 DEF Fork!EndOfFile, Fork!Child, Fork!Exit, Fork!Set, Fork!ForkTyped
  <2>3. \A d \in Fork!Clients : fs_cpc'[d] = "start" <=> fs_cpc[d] = "start"
    BY <1>14 DEF Fork!EndOfFile, Fork!Child, Fork!client, Fork!Set, Fork!ForkTyped
  <2> QED BY <2>1, <2>2, <2>3, SameBacklog
<1>15. ASSUME NEW c \in Fork!Clients, Fork!Connect(c) PROVE Fork!BacklogInv'
  <2>1. /\ fs_kpc' = fs_kpc /\ fs_backlog' = Append(fs_backlog, c) /\ fs_cpc[c] = "start"
        /\ fs_cpc' = [fs_cpc EXCEPT ![c] = "write"]
    BY <1>15 DEF Fork!Connect, Fork!Set
  <2>2. /\ Fork!In(Append(fs_backlog, c)) = Fork!In(fs_backlog) \cup {c}
        /\ Fork!In(fs_backlog) \subseteq Fork!Clients
        /\ Fork!Once(fs_backlog)
        /\ c \notin Fork!In(fs_backlog) => Fork!Once(Append(fs_backlog, c))
    <3>1. fs_backlog \in Seq(Fork!Clients) /\ c \in Fork!Clients
      BY <1>15 DEF Fork!ForkTyped
    <3>2. Fork!Once(fs_backlog)
      BY DEF Fork!BacklogInv
    <3> QED BY <3>1, <3>2, ForkEnters
  <2>3. fs_kpc[c] = "none" /\ c \notin Fork!In(fs_backlog)
    BY <2>1 DEF Fork!BacklogInv
  <2>4. \A d \in Fork!Clients : fs_cpc'[d] = "start" => fs_cpc[d] = "start" /\ d # c
    BY <2>1 DEF Fork!ForkTyped
  <2>5. \A d \in Fork!Clients : fs_cpc[d] # "start" => fs_cpc'[d] # "start"
    BY <2>4
  <2> QED BY <2>1, <2>2, <2>3, <2>4, <2>5 DEF Fork!BacklogInv
<1>16. ASSUME NEW c \in Fork!Clients, Fork!Kill(c) PROVE Fork!BacklogInv'
  <2>1. UNCHANGED fs_backlog
    BY <1>16 DEF Fork!Kill, Fork!Child, Fork!server
  <2>2. \A d \in Fork!Clients : fs_kpc[d] = "none" => fs_kpc'[d] = "none"
    BY <1>16 DEF Fork!Kill, Fork!Child, Fork!Exit, Fork!Set, Fork!ForkTyped
  <2>3. \A d \in Fork!Clients : fs_cpc'[d] = "start" <=> fs_cpc[d] = "start"
    BY <1>16 DEF Fork!Kill, Fork!Child, Fork!client, Fork!Set, Fork!ForkTyped
  <2> QED BY <2>1, <2>2, <2>3, SameBacklog
<1>17. CASE UNCHANGED Fork!vars
  BY <1>17, SameBacklog DEF Fork!vars
<1> QED
  BY <1>1, <1>2, <1>3, <1>4, <1>5, <1>6, <1>7, <1>8, <1>9, <1>10, <1>11, <1>12, <1>13,
    <1>14, <1>15, <1>16, <1>17
    DEF Fork!Next, Fork!Server, Fork!Children, Fork!Readers

\* What a signal tells of is not lost.
LEMMA SameSignals ==
  ASSUME Fork!SignalInv, fs_tool' = fs_tool, fs_spc' = fs_spc, fs_caught' = fs_caught,
         fs_ints' = fs_ints, fs_pending => fs_pending',
         \A d \in Fork!Clients : fs_kpc'[d] = "zombie" =>
           fs_kpc[d] = "zombie" \/ fs_pending'
  PROVE  Fork!SignalInv'
BY DEF Fork!SignalInv, Fork!Zombies

\* Which signals are on their way.
LEMMA ForkSignals ==
  ASSUME Fork!ForkTyped, Fork!SignalInv, [Fork!Next]_Fork!vars
  PROVE  Fork!SignalInv'
<1>1. CASE Fork!Top
  BY <1>1 DEF Fork!Top, Fork!SignalInv, Fork!Zombies
<1>2. CASE Fork!Reap
  <2>1. CASE Fork!Zombies = {} /\ fs_spc' = "enter" /\ UNCHANGED <<fs_kpc, fs_child_count>>
    BY <1>2, <2>1 DEF Fork!Reap, Fork!SignalInv, Fork!Zombies
  <2>2. CASE fs_spc' = fs_spc
    BY <1>2, <2>2 DEF Fork!Reap, Fork!SignalInv
  <2> QED BY <1>2, <2>1, <2>2 DEF Fork!Reap
<1>3. CASE Fork!Block
  BY <1>3 DEF Fork!Block, Fork!SignalInv, Fork!Zombies
<1>4. CASE Fork!Accept
  <2>1. Head(fs_backlog) \in Fork!In(fs_backlog)
    BY <1>4, ForkLeaves DEF Fork!Accept, Fork!ForkTyped
  <2>2. \A d \in Fork!Clients : fs_kpc'[d] = "zombie" => fs_kpc[d] = "zombie"
    BY <1>4 DEF Fork!Accept, Fork!Set, Fork!ForkTyped
  <2>3. /\ UNCHANGED <<fs_tool, fs_caught, fs_pending, fs_ints>> /\ fs_spc' = "top"
        /\ fs_spc \notin {"reap", "exited"}
    BY <1>4 DEF Fork!Accept
  <2> QED BY <2>2, <2>3 DEF Fork!SignalInv, Fork!Zombies
<1>5. CASE Fork!SigchldHandler
  <2>1. fs_spc' = fs_spc \/ (fs_spc = "accept" /\ fs_spc' = "top")
          \/ (fs_spc = "accept" /\ fs_spc' = "exited" /\ fs_tool = "is_shell" /\ fs_caught)
    BY <1>5 DEF Fork!SigchldHandler, Fork!Interrupted
  <2>2. CASE fs_tool = "inetd_echo"
    BY <1>5, <2>1, <2>2 DEF Fork!SigchldHandler, Fork!SignalInv
  <2>3. CASE fs_tool = "is_shell"
    <3>1. Fork!Zombies' = {}
      BY <1>5, <2>3 DEF Fork!SigchldHandler, Fork!Zombies
    <3>2. UNCHANGED <<fs_tool, fs_caught, fs_ints>>
      BY <1>5, <2>3 DEF Fork!SigchldHandler
    <3> QED BY <2>1, <2>3, <3>1, <3>2 DEF Fork!SignalInv
  <2> QED BY <2>2, <2>3 DEF Fork!ForkTyped
<1>6. CASE Fork!Sigint
  <2>1. fs_spc' = fs_spc \/ (fs_spc = "accept" /\ fs_spc' \in {"top", "exited"})
    BY <1>6 DEF Fork!Sigint, Fork!Interrupted
  <2>2. /\ fs_tool' = fs_tool /\ fs_tool = "is_shell" /\ fs_ints' = 1 /\ fs_spc # "exited"
        /\ fs_pending => fs_pending'
    BY <1>6 DEF Fork!Sigint, Fork!ForkTyped
  <2>3. \A d \in Fork!Clients : fs_kpc'[d] = "zombie" => fs_kpc[d] = "zombie" \/ fs_pending'
    BY <1>6 DEF Fork!Sigint
  <2> QED BY <2>1, <2>2, <2>3 DEF Fork!SignalInv, Fork!Zombies
<1>7. ASSUME NEW c \in Fork!Clients, Fork!Echo(c) PROVE Fork!SignalInv'
  <2>1. /\ fs_tool' = fs_tool
        /\ fs_spc' = fs_spc
        /\ fs_caught' = fs_caught
        /\ fs_ints' = fs_ints
        /\ (fs_pending => fs_pending')
    BY <1>7 DEF Fork!Echo, Fork!Child, Fork!server, Fork!Exit, Fork!ForkTyped
  <2>2. \A d \in Fork!Clients : fs_kpc'[d] = "zombie" => fs_kpc[d] = "zombie" \/ fs_pending'
    BY <1>7 DEF Fork!Echo, Fork!Child, Fork!Exit, Fork!Set, Fork!ForkTyped
  <2> QED BY <2>1, <2>2, SameSignals
<1>8. ASSUME NEW c \in Fork!Clients, Fork!Collect(c) PROVE Fork!SignalInv'
  <2>1. /\ fs_tool' = fs_tool
        /\ fs_spc' = fs_spc
        /\ fs_caught' = fs_caught
        /\ fs_ints' = fs_ints
        /\ (fs_pending => fs_pending')
    BY <1>8 DEF Fork!Collect, Fork!Child, Fork!server, Fork!Exit, Fork!ForkTyped
  <2>2. \A d \in Fork!Clients : fs_kpc'[d] = "zombie" => fs_kpc[d] = "zombie" \/ fs_pending'
    BY <1>8 DEF Fork!Collect, Fork!Child, Fork!Exit, Fork!Set, Fork!ForkTyped
  <2> QED BY <2>1, <2>2, SameSignals
<1>9. ASSUME NEW c \in Fork!Clients, Fork!EndOfInput(c) PROVE Fork!SignalInv'
  <2>1. /\ fs_tool' = fs_tool
        /\ fs_spc' = fs_spc
        /\ fs_caught' = fs_caught
        /\ fs_ints' = fs_ints
        /\ (fs_pending => fs_pending')
    BY <1>9 DEF Fork!EndOfInput, Fork!Child, Fork!server, Fork!Exit, Fork!ForkTyped
  <2>2. \A d \in Fork!Clients : fs_kpc'[d] = "zombie" => fs_kpc[d] = "zombie" \/ fs_pending'
    BY <1>9 DEF Fork!EndOfInput, Fork!Child, Fork!Exit, Fork!Set, Fork!ForkTyped
  <2> QED BY <2>1, <2>2, SameSignals
<1>10. ASSUME NEW c \in Fork!Clients, Fork!Run(c) PROVE Fork!SignalInv'
  <2>1. /\ fs_tool' = fs_tool
        /\ fs_spc' = fs_spc
        /\ fs_caught' = fs_caught
        /\ fs_ints' = fs_ints
        /\ (fs_pending => fs_pending')
    BY <1>10 DEF Fork!Run, Fork!Child, Fork!server, Fork!Exit, Fork!ForkTyped
  <2>2. \A d \in Fork!Clients : fs_kpc'[d] = "zombie" => fs_kpc[d] = "zombie" \/ fs_pending'
    BY <1>10 DEF Fork!Run, Fork!Child, Fork!Exit, Fork!Set, Fork!ForkTyped
  <2> QED BY <2>1, <2>2, SameSignals
<1>11. ASSUME NEW c \in Fork!Clients, Fork!Done(c) PROVE Fork!SignalInv'
  <2>1. /\ fs_tool' = fs_tool
        /\ fs_spc' = fs_spc
        /\ fs_caught' = fs_caught
        /\ fs_ints' = fs_ints
        /\ (fs_pending => fs_pending')
    BY <1>11 DEF Fork!Done, Fork!Child, Fork!server, Fork!Exit, Fork!ForkTyped
  <2>2. \A d \in Fork!Clients : fs_kpc'[d] = "zombie" => fs_kpc[d] = "zombie" \/ fs_pending'
    BY <1>11 DEF Fork!Done, Fork!Child, Fork!Exit, Fork!Set, Fork!ForkTyped
  <2> QED BY <2>1, <2>2, SameSignals
<1>12. ASSUME NEW c \in Fork!Clients, Fork!WriteCommand(c) PROVE Fork!SignalInv'
  <2>1. /\ fs_tool' = fs_tool
        /\ fs_spc' = fs_spc
        /\ fs_caught' = fs_caught
        /\ fs_ints' = fs_ints
        /\ (fs_pending => fs_pending')
    BY <1>12 DEF Fork!WriteCommand, Fork!Child, Fork!server, Fork!Exit, Fork!ForkTyped
  <2>2. \A d \in Fork!Clients : fs_kpc'[d] = "zombie" => fs_kpc[d] = "zombie" \/ fs_pending'
    BY <1>12 DEF Fork!WriteCommand, Fork!Child, Fork!Exit, Fork!Set, Fork!ForkTyped
  <2> QED BY <2>1, <2>2, SameSignals
<1>13. ASSUME NEW c \in Fork!Clients, Fork!WriteInput(c) PROVE Fork!SignalInv'
  <2>1. /\ fs_tool' = fs_tool
        /\ fs_spc' = fs_spc
        /\ fs_caught' = fs_caught
        /\ fs_ints' = fs_ints
        /\ (fs_pending => fs_pending')
    BY <1>13 DEF Fork!WriteInput, Fork!Child, Fork!server, Fork!Exit, Fork!ForkTyped
  <2>2. \A d \in Fork!Clients : fs_kpc'[d] = "zombie" => fs_kpc[d] = "zombie" \/ fs_pending'
    BY <1>13 DEF Fork!WriteInput, Fork!Child, Fork!Exit, Fork!Set, Fork!ForkTyped
  <2> QED BY <2>1, <2>2, SameSignals
<1>14. ASSUME NEW c \in Fork!Clients, Fork!EndOfFile(c) PROVE Fork!SignalInv'
  <2>1. /\ fs_tool' = fs_tool
        /\ fs_spc' = fs_spc
        /\ fs_caught' = fs_caught
        /\ fs_ints' = fs_ints
        /\ (fs_pending => fs_pending')
    BY <1>14 DEF Fork!EndOfFile, Fork!Child, Fork!server, Fork!Exit, Fork!ForkTyped
  <2>2. \A d \in Fork!Clients : fs_kpc'[d] = "zombie" => fs_kpc[d] = "zombie" \/ fs_pending'
    BY <1>14 DEF Fork!EndOfFile, Fork!Child, Fork!Exit, Fork!Set, Fork!ForkTyped
  <2> QED BY <2>1, <2>2, SameSignals
<1>15. ASSUME NEW c \in Fork!Clients, Fork!Connect(c) PROVE Fork!SignalInv'
  <2>1. /\ fs_tool' = fs_tool
        /\ fs_spc' = fs_spc
        /\ fs_caught' = fs_caught
        /\ fs_ints' = fs_ints
        /\ (fs_pending => fs_pending')
    BY <1>15 DEF Fork!Connect, Fork!Child, Fork!server, Fork!Exit, Fork!ForkTyped
  <2>2. \A d \in Fork!Clients : fs_kpc'[d] = "zombie" => fs_kpc[d] = "zombie" \/ fs_pending'
    BY <1>15 DEF Fork!Connect, Fork!Child, Fork!Exit, Fork!Set, Fork!ForkTyped
  <2> QED BY <2>1, <2>2, SameSignals
<1>16. ASSUME NEW c \in Fork!Clients, Fork!Kill(c) PROVE Fork!SignalInv'
  <2>1. /\ fs_tool' = fs_tool
        /\ fs_spc' = fs_spc
        /\ fs_caught' = fs_caught
        /\ fs_ints' = fs_ints
        /\ (fs_pending => fs_pending')
    BY <1>16 DEF Fork!Kill, Fork!Child, Fork!server, Fork!Exit, Fork!ForkTyped
  <2>2. \A d \in Fork!Clients : fs_kpc'[d] = "zombie" => fs_kpc[d] = "zombie" \/ fs_pending'
    BY <1>16 DEF Fork!Kill, Fork!Child, Fork!Exit, Fork!Set, Fork!ForkTyped
  <2> QED BY <2>1, <2>2, SameSignals
<1>17. CASE UNCHANGED Fork!vars
  BY <1>17, SameSignals DEF Fork!vars
<1> QED
  BY <1>1, <1>2, <1>3, <1>4, <1>5, <1>6, <1>7, <1>8, <1>9, <1>10, <1>11, <1>12, <1>13,
    <1>14, <1>15, <1>16, <1>17
    DEF Fork!Next, Fork!Server, Fork!Children, Fork!Readers

\* The sets of children are finite.
LEMMA ForkedFinite ==
  /\ IsFiniteSet(Fork!Forked) /\ IsFiniteSet(Fork!Forked')
  /\ Cardinality(Fork!Forked) \in Nat /\ Cardinality(Fork!Forked') \in Nat
<1>1. IsFiniteSet(Fork!Clients)
  BY ServersAssumption, FS_Interval DEF Fork!Clients
<1>2. Fork!Forked \subseteq Fork!Clients /\ Fork!Forked' \subseteq Fork!Clients
  BY DEF Fork!Forked
<1> QED BY <1>1, <1>2, FS_Subset, FS_CardinalityType, ForkCardinality

\* The count, where no child begins and none is waited for.
LEMMA ForkedSame ==
  ASSUME Fork!CountInv, fs_tool' = fs_tool, fs_child_count' = fs_child_count,
         fs_tool = "inetd_echo" => \A d \in Fork!Clients : fs_kpc'[d] \in Fork!Living <=>
           fs_kpc[d] \in Fork!Living
  PROVE  Fork!CountInv'
<1>1. fs_tool = "inetd_echo" => Fork!Forked' = Fork!Forked
  BY DEF Fork!Forked, Fork!Living
<1> QED BY <1>1 DEF Fork!CountInv

\* The count of one child more.
LEMMA ForkedOneMore ==
  ASSUME Fork!CountInv, Fork!ForkTyped, fs_tool = "inetd_echo", fs_tool' = fs_tool,
         NEW c \in Fork!Clients,
         fs_kpc[c] \notin Fork!Living, fs_kpc' = [fs_kpc EXCEPT ![c] = "read"],
         fs_child_count < Limit, fs_child_count' = fs_child_count + 1
  PROVE  Fork!CountInv'
<1>1. Fork!Forked' = Fork!Forked \cup {c} /\ c \notin Fork!Forked
  BY DEF Fork!Forked, Fork!ForkTyped, Fork!Living
<1>2. Cardinality(Fork!Forked') = Cardinality(Fork!Forked) + 1
  BY <1>1, ForkedFinite, FS_AddElement
<1> QED BY <1>2, ForkedFinite, ForkCardinality, ServersAssumption DEF Fork!CountInv

\* And of one less.
LEMMA ForkedOneLess ==
  ASSUME Fork!CountInv, Fork!ForkTyped, fs_tool = "inetd_echo", fs_tool' = fs_tool,
         NEW c \in Fork!Clients,
         fs_kpc[c] \in Fork!Living, fs_kpc' = [fs_kpc EXCEPT ![c] = "reaped"],
         fs_child_count' = IF fs_child_count > 0 THEN fs_child_count - 1 ELSE fs_child_count
  PROVE  Fork!CountInv'
<1>1. Fork!Forked' = Fork!Forked \ {c} /\ c \in Fork!Forked
  BY DEF Fork!Forked, Fork!ForkTyped, Fork!Living
<1>2. Cardinality(Fork!Forked') = Cardinality(Fork!Forked) - 1
  BY <1>1, ForkedFinite, FS_RemoveElement
<1> QED BY <1>2, ForkedFinite, ForkCardinality, ServersAssumption DEF Fork!CountInv

\* The count of the children.
LEMMA ForkCounts ==
  ASSUME Fork!ForkTyped, Fork!BacklogInv, Fork!CountInv, Fork!SignalInv,
         [Fork!Next]_Fork!vars
  PROVE  Fork!CountInv'
<1>1. CASE Fork!Top
  BY <1>1, ForkedSame DEF Fork!Top
<1>2. CASE Fork!Reap
  <2>1. CASE Fork!Zombies = {} /\ fs_spc' = "enter" /\ UNCHANGED <<fs_kpc, fs_child_count>>
    BY <1>2, <2>1, ForkedSame DEF Fork!Reap
  <2>2. ASSUME NEW c \in Fork!Zombies, fs_kpc' = Fork!Set(fs_kpc, c, "reaped"),
               fs_child_count' =
                 IF fs_child_count > 0 THEN fs_child_count - 1 ELSE fs_child_count
        PROVE  Fork!CountInv'
    <3>1. /\ c \in Fork!Clients
          /\ fs_kpc[c] \in Fork!Living
          /\ fs_tool' = fs_tool
          /\ fs_spc = "reap"
      BY <1>2 DEF Fork!Reap, Fork!Zombies, Fork!Living
    <3>2. fs_tool = "inetd_echo"
      BY <3>1 DEF Fork!SignalInv, Fork!ForkTyped
    <3> QED BY <2>2, <3>1, <3>2, ForkedOneLess DEF Fork!Set
  <2> QED BY <1>2, <2>1, <2>2 DEF Fork!Reap
<1>3. CASE Fork!Block
  BY <1>3, ForkedSame DEF Fork!Block
<1>4. CASE Fork!Accept
  <2> DEFINE c == Head(fs_backlog)
  <2>1. /\ c \in Fork!Clients /\ fs_kpc[c] = "none"
    BY <1>4, ForkLeaves DEF Fork!Accept, Fork!ForkTyped, Fork!BacklogInv
  <2>2. CASE fs_tool = "inetd_echo" /\ fs_child_count < Limit
    <3>1. /\ fs_tool' = fs_tool /\ fs_kpc' = [fs_kpc EXCEPT ![c] = "read"]
          /\ fs_child_count' = fs_child_count + 1
      BY <1>4, <2>2 DEF Fork!Accept, Fork!Set
    <3> HIDE DEF c
    <3> QED BY <2>1, <2>2, <3>1, ForkedOneMore DEF Fork!Living
  <2>3. CASE fs_tool = "inetd_echo" /\ ~(fs_child_count < Limit)
    <3>1. /\ fs_tool' = fs_tool /\ fs_kpc' = [fs_kpc EXCEPT ![c] = "leaked"]
          /\ fs_child_count' = fs_child_count
      BY <1>4, <2>3 DEF Fork!Accept, Fork!Set
    <3> HIDE DEF c
    <3> QED BY <2>1, <3>1, ForkedSame DEF Fork!Living, Fork!ForkTyped
  <2>4. CASE fs_tool = "is_shell"
    <3>1. /\ fs_tool' = fs_tool /\ fs_child_count' = fs_child_count
      BY <1>4, <2>4 DEF Fork!Accept
    <3> QED BY <2>4, <3>1, ForkedSame
  <2> QED BY <2>2, <2>3, <2>4 DEF Fork!ForkTyped
<1>5. CASE Fork!SigchldHandler
  BY <1>5, ForkedSame DEF Fork!SigchldHandler
<1>6. CASE Fork!Sigint
  <2>1. fs_tool' = fs_tool /\ fs_tool = "is_shell" /\ fs_child_count' = fs_child_count
    BY <1>6 DEF Fork!Sigint
  <2> QED BY <2>1, ForkedSame
<1>7. ASSUME NEW c \in Fork!Clients, Fork!Echo(c) PROVE Fork!CountInv'
  <2>1. fs_tool' = fs_tool /\ fs_child_count' = fs_child_count
    BY <1>7 DEF Fork!Echo, Fork!Child, Fork!server
  <2>2. \A d \in Fork!Clients : fs_kpc'[d] \in Fork!Living <=> fs_kpc[d] \in Fork!Living
    BY <1>7 DEF Fork!Echo, Fork!Child, Fork!Exit, Fork!Set, Fork!ForkTyped, Fork!Living
  <2> QED BY <2>1, <2>2, ForkedSame
<1>8. ASSUME NEW c \in Fork!Clients, Fork!Collect(c) PROVE Fork!CountInv'
  <2>1. fs_tool' = fs_tool /\ fs_child_count' = fs_child_count
    BY <1>8 DEF Fork!Collect, Fork!Child, Fork!server
  <2>2. \A d \in Fork!Clients : fs_kpc'[d] \in Fork!Living <=> fs_kpc[d] \in Fork!Living
    BY <1>8 DEF Fork!Collect, Fork!Child, Fork!Exit, Fork!Set, Fork!ForkTyped, Fork!Living
  <2> QED BY <2>1, <2>2, ForkedSame
<1>9. ASSUME NEW c \in Fork!Clients, Fork!EndOfInput(c) PROVE Fork!CountInv'
  <2>1. fs_tool' = fs_tool /\ fs_child_count' = fs_child_count
    BY <1>9 DEF Fork!EndOfInput, Fork!Child, Fork!server
  <2>2. \A d \in Fork!Clients : fs_kpc'[d] \in Fork!Living <=> fs_kpc[d] \in Fork!Living
    BY <1>9 DEF Fork!EndOfInput, Fork!Child, Fork!Exit, Fork!Set, Fork!ForkTyped,
      Fork!Living
  <2> QED BY <2>1, <2>2, ForkedSame
<1>10. ASSUME NEW c \in Fork!Clients, Fork!Run(c) PROVE Fork!CountInv'
  <2>1. fs_tool' = fs_tool /\ fs_child_count' = fs_child_count
    BY <1>10 DEF Fork!Run, Fork!Child, Fork!server
  <2>2. \A d \in Fork!Clients : fs_kpc'[d] \in Fork!Living <=> fs_kpc[d] \in Fork!Living
    BY <1>10 DEF Fork!Run, Fork!Child, Fork!Exit, Fork!Set, Fork!ForkTyped, Fork!Living
  <2> QED BY <2>1, <2>2, ForkedSame
<1>11. ASSUME NEW c \in Fork!Clients, Fork!Done(c) PROVE Fork!CountInv'
  <2>1. fs_tool' = fs_tool /\ fs_child_count' = fs_child_count
    BY <1>11 DEF Fork!Done, Fork!Child, Fork!server
  <2>2. \A d \in Fork!Clients : fs_kpc'[d] \in Fork!Living <=> fs_kpc[d] \in Fork!Living
    BY <1>11 DEF Fork!Done, Fork!Child, Fork!Exit, Fork!Set, Fork!ForkTyped, Fork!Living
  <2> QED BY <2>1, <2>2, ForkedSame
<1>12. ASSUME NEW c \in Fork!Clients, Fork!WriteCommand(c) PROVE Fork!CountInv'
  <2>1. fs_tool' = fs_tool /\ fs_child_count' = fs_child_count
    BY <1>12 DEF Fork!WriteCommand, Fork!Child, Fork!server
  <2>2. \A d \in Fork!Clients : fs_kpc'[d] \in Fork!Living <=> fs_kpc[d] \in Fork!Living
    BY <1>12 DEF Fork!WriteCommand, Fork!Child, Fork!Exit, Fork!Set, Fork!ForkTyped,
      Fork!Living
  <2> QED BY <2>1, <2>2, ForkedSame
<1>13. ASSUME NEW c \in Fork!Clients, Fork!WriteInput(c) PROVE Fork!CountInv'
  <2>1. fs_tool' = fs_tool /\ fs_child_count' = fs_child_count
    BY <1>13 DEF Fork!WriteInput, Fork!Child, Fork!server
  <2>2. \A d \in Fork!Clients : fs_kpc'[d] \in Fork!Living <=> fs_kpc[d] \in Fork!Living
    BY <1>13 DEF Fork!WriteInput, Fork!Child, Fork!Exit, Fork!Set, Fork!ForkTyped,
      Fork!Living
  <2> QED BY <2>1, <2>2, ForkedSame
<1>14. ASSUME NEW c \in Fork!Clients, Fork!EndOfFile(c) PROVE Fork!CountInv'
  <2>1. fs_tool' = fs_tool /\ fs_child_count' = fs_child_count
    BY <1>14 DEF Fork!EndOfFile, Fork!Child, Fork!server
  <2>2. \A d \in Fork!Clients : fs_kpc'[d] \in Fork!Living <=> fs_kpc[d] \in Fork!Living
    BY <1>14 DEF Fork!EndOfFile, Fork!Child, Fork!Exit, Fork!Set, Fork!ForkTyped,
      Fork!Living
  <2> QED BY <2>1, <2>2, ForkedSame
<1>15. ASSUME NEW c \in Fork!Clients, Fork!Connect(c) PROVE Fork!CountInv'
  <2>1. fs_tool' = fs_tool /\ fs_child_count' = fs_child_count
    BY <1>15 DEF Fork!Connect, Fork!Child, Fork!server
  <2>2. \A d \in Fork!Clients : fs_kpc'[d] \in Fork!Living <=> fs_kpc[d] \in Fork!Living
    BY <1>15 DEF Fork!Connect, Fork!Child, Fork!Exit, Fork!Set, Fork!ForkTyped, Fork!Living
  <2> QED BY <2>1, <2>2, ForkedSame
<1>16. ASSUME NEW c \in Fork!Clients, Fork!Kill(c) PROVE Fork!CountInv'
  <2>1. fs_tool' = fs_tool /\ fs_child_count' = fs_child_count
    BY <1>16 DEF Fork!Kill, Fork!Child, Fork!server
  <2>2. \A d \in Fork!Clients : fs_kpc'[d] \in Fork!Living <=> fs_kpc[d] \in Fork!Living
    BY <1>16 DEF Fork!Kill, Fork!Child, Fork!Exit, Fork!Set, Fork!ForkTyped, Fork!Living
  <2> QED BY <2>1, <2>2, ForkedSame
<1>17. CASE UNCHANGED Fork!vars
  BY <1>17, ForkedSame DEF Fork!vars
<1> QED
  BY <1>1, <1>2, <1>3, <1>4, <1>5, <1>6, <1>7, <1>8, <1>9, <1>10, <1>11, <1>12, <1>13,
    <1>14, <1>15, <1>16, <1>17
    DEF Fork!Next, Fork!Server, Fork!Children, Fork!Readers

\* Nobody has connected.
LEMMA ForkStart == Fork!Init => Fork!ForkInv
<1> SUFFICES ASSUME Fork!Init PROVE Fork!ForkInv
  OBVIOUS
<1>1. Fork!ForkTyped
  <2>1. /\ fs_kpc \in [Fork!Clients -> Fork!Living \cup {"none", "reaped", "leaked"}]
        /\ fs_backlog \in Seq(Fork!Clients)
    BY DEF Fork!Init
  <2>2. /\ fs_sent \in [Fork!Clients -> Int]
        /\ fs_cmd \in [Fork!Clients -> Int]
        /\ fs_got \in [Fork!Clients -> Int]
    BY DEF Fork!Init
  <2>3. /\ fs_cpc \in
             [Fork!Clients -> {"start", "write", "read", "failed", "done", "killed"}]
        /\ fs_fin \in [Fork!Clients -> BOOLEAN]
    BY DEF Fork!Init
  <2>4. /\ fs_tool \in {"inetd_echo", "is_shell"} /\ fs_spc = "top"
        /\ fs_caught \in BOOLEAN /\ fs_pending \in BOOLEAN
    BY DEF Fork!Init
  <2> QED BY <2>1, <2>2, <2>3, <2>4 DEF Fork!ForkTyped
<1>5. Fork!SignalInv /\ Fork!Forked = {}
  BY DEF Fork!Init, Fork!SignalInv, Fork!Zombies, Fork!Forked
<1>2. Fork!In(fs_backlog) = {} /\ Fork!Once(fs_backlog)
  BY DEF Fork!Init, Fork!In, Fork!Once
<1>3. Fork!CountInv
  BY <1>5, FS_EmptySet, ForkCardinality, ServersAssumption DEF Fork!Init, Fork!CountInv
<1>4. \A c \in Fork!Clients : Fork!ClientInv(c)
  BY DEF Fork!Init, Fork!ClientInv
<1> QED BY <1>1, <1>2, <1>3, <1>4, <1>5 DEF Fork!Init, Fork!ForkInv, Fork!BacklogInv

\* Every step of the servers that fork, and of their clients, preserves it.
LEMMA ForkStep == Fork!ForkInv /\ [Fork!Next]_Fork!vars => Fork!ForkInv'
<1> SUFFICES ASSUME Fork!ForkInv, [Fork!Next]_Fork!vars PROVE Fork!ForkInv'
  OBVIOUS
<1>1. /\ Fork!ForkTyped
      /\ Fork!BacklogInv
      /\ Fork!CountInv
      /\ Fork!SignalInv
      /\ \A c \in Fork!Clients : Fork!ClientInv(c)
  BY DEF Fork!ForkInv
<1>2. Fork!ForkTyped'
  BY <1>1, ForkTypes
<1>3. Fork!BacklogInv'
  BY <1>1, ForkBacklog
<1>4. Fork!CountInv'
  BY <1>1, ForkCounts
<1>5. Fork!SignalInv'
  BY <1>1, ForkSignals
<1>6. \A c \in Fork!Clients : Fork!ClientInv(c)'
  BY <1>1, ForkClients
<1> QED BY <1>2, <1>3, <1>4, <1>5, <1>6 DEF Fork!ForkInv

\* What it says of the servers.
LEMMA ForkMeans == Fork!ForkInv => Fork!ServersAreSound
<1> SUFFICES ASSUME Fork!ForkInv PROVE Fork!ServersAreSound
  OBVIOUS
<1>1. ASSUME NEW c \in Fork!Clients
      PROVE  /\ fs_tool = "is_shell" /\ fs_kpc[c] = "run" =>
                  fs_cmd[c] = Pieces[fs_tool] \/ fs_cpc[c] \in {"failed", "killed"}
             /\ fs_cpc[c] = "done" /\ fs_ints = 0 => fs_got[c] = fs_sent[c]
  <2>1. /\ Fork!ClientInv(c)
        /\ fs_cpc[c] \in {"start", "write", "read", "failed", "done", "killed"}
    BY DEF Fork!ForkInv, Fork!ForkTyped
  <2> QED BY <2>1 DEF Fork!ClientInv
<1> QED BY <1>1 DEF Fork!ForkInv, Fork!CountInv, Fork!SignalInv, Fork!ServersAreSound

-----------------------------------------------------------------------------
(***************************************************************************)
(* Proofs about echo_sv.c, for any clients: nobody is sent the message of  *)
(* another, though there is one buffer for all.                            *)
(***************************************************************************)

Echo ==
  INSTANCE EchoServer WITH
    dgrams <- x1, backlog <- x2, data <- x3, events <- x4, i <- x5, pc <- x6,
    peer <- x7, buf <- x8, cpc <- x9, answer <- x10

ec_dgrams == x1
ec_backlog == x2
ec_data == x3
ec_events == x4
ec_i == x5
ec_pc == x6
ec_peer == x7
ec_buf == x8
ec_cpc == x9
ec_answer == x10

USE DEF ec_dgrams, ec_backlog, ec_data, ec_events, ec_i, ec_pc, ec_peer, ec_buf,
        ec_cpc, ec_answer

\* Entering a queue.
LEMMA EchoEnters ==
  ASSUME NEW S, NEW q \in Seq(S), NEW x \in S
  PROVE  /\ Append(q, x) \in Seq(S) /\ Echo!In(Append(q, x)) = Echo!In(q) \cup {x}
         /\ Echo!Once(q) /\ x \notin Echo!In(q) => Echo!Once(Append(q, x))
BY EntersQueue DEF Echo!In, Echo!Once, Members, NoneTwice

\* Leaving it.
LEMMA EchoLeaves ==
  ASSUME NEW S, NEW q \in Seq(S), q # <<>>
  PROVE  /\ Head(q) \in Echo!In(q) /\ Tail(q) \in Seq(S)
         /\ Echo!In(q) \subseteq S /\ Echo!In(Tail(q)) \subseteq Echo!In(q)
         /\ Echo!In(q) \subseteq Echo!In(Tail(q)) \cup {Head(q)}
         /\ Echo!Once(q) => Head(q) \notin Echo!In(Tail(q)) /\ Echo!Once(Tail(q))
BY LeavesQueue DEF Echo!In, Echo!Once, Members, NoneTwice

\* Nobody has asked.
LEMMA EchoStart == Echo!Init => Echo!EchoInv
<1> SUFFICES ASSUME Echo!Init PROVE Echo!EchoInv
  OBVIOUS
<1>1. Echo!EchoTyped
  BY DEF Echo!Init, Echo!EchoTyped
<1>2. /\ Echo!In(ec_dgrams) = {}
      /\ Echo!In(ec_backlog) = {}
      /\ Echo!Once(ec_dgrams)
      /\ Echo!Once(ec_backlog)
  BY DEF Echo!Init, Echo!In, Echo!Once
<1>3. /\ Echo!Queued = {} /\ ec_pc = "wait" /\ \A c \in Echo!Clients : ec_cpc[c] = "start"
      /\ ec_answer = [c \in Echo!Clients |-> IF ec_cpc[c] = "done" THEN c ELSE "none"]
      /\ \A c \in Echo!Clients : Echo!Unheard(c)
  BY <1>2 DEF Echo!Init, Echo!Queued, Echo!Unheard
<1> QED BY <1>1, <1>2, <1>3 DEF Echo!EchoInv

\* The answers of those who are not answered now.
LEMMA AnswersKept ==
  ASSUME Echo!EchoInv, NEW c \in Echo!Clients,
         NEW l \in {"silent", "wait", "lost", "killed"},
         ec_cpc[c] # "done", ec_cpc' = [ec_cpc EXCEPT ![c] = l], ec_answer' = ec_answer
  PROVE  /\ ec_answer' = [d \in Echo!Clients |-> IF ec_cpc'[d] = "done" THEN d ELSE "none"]
         /\ ec_cpc' \in
              [Echo!Clients -> {"start", "silent", "wait", "lost", "done", "killed"}]
BY DEF Echo!EchoInv, Echo!EchoTyped

\* A client's step leaves the server where it is, and may put the client in a queue.
LEMMA AskedKeeps ==
  ASSUME Echo!EchoInv, NEW c \in Echo!Clients,
         NEW l \in {"silent", "wait", "lost", "killed"},
         ec_cpc[c] \notin {"done", "killed"}, ec_cpc' = [ec_cpc EXCEPT ![c] = l],
         l \in {"silent", "wait"} /\ ec_cpc[c] # "silent" =>
           ec_dgrams' = Append(ec_dgrams, c) \/ ec_backlog' = Append(ec_backlog, c),
         l = "silent" => ec_cpc[c] = "start" /\ UNCHANGED ec_dgrams,
         ec_data' \in {ec_data, ec_data \cup {c}}, l # "wait" => UNCHANGED ec_data,
         UNCHANGED <<Echo!server, ec_answer>>,
         \/ UNCHANGED <<ec_dgrams, ec_backlog>>
         \/ ec_cpc[c] = "start" /\ ec_dgrams' = Append(ec_dgrams, c) /\ UNCHANGED ec_backlog
         \/ /\ ec_cpc[c] = "start" /\ ec_backlog' = Append(ec_backlog, c)
            /\ UNCHANGED ec_dgrams
  PROVE  Echo!EchoInv'
<1>1. /\ ec_dgrams \in Seq(Echo!Clients)
      /\ ec_backlog \in Seq(Echo!Clients)
      /\ Echo!Once(ec_dgrams)
      /\ Echo!Once(ec_backlog)
      /\ ec_cpc \in [Echo!Clients -> {"start", "silent", "wait", "lost", "done", "killed"}]
      /\ ec_cpc[c] = "start" => c \notin Echo!In(ec_dgrams) \cup Echo!In(ec_backlog)
  BY DEF Echo!EchoInv, Echo!EchoTyped, Echo!Queued
<1>2. /\ Append(ec_dgrams, c) \in Seq(Echo!Clients)
      /\ Echo!In(Append(ec_dgrams, c)) = Echo!In(ec_dgrams) \cup {c}
      /\ c \notin Echo!In(ec_dgrams) => Echo!Once(Append(ec_dgrams, c))
      /\ Append(ec_backlog, c) \in Seq(Echo!Clients)
      /\ Echo!In(Append(ec_backlog, c)) = Echo!In(ec_backlog) \cup {c}
      /\ c \notin Echo!In(ec_backlog) => Echo!Once(Append(ec_backlog, c))
  BY <1>1, EchoEnters
<1>3. /\ ec_dgrams' \in Seq(Echo!Clients)
      /\ ec_backlog' \in Seq(Echo!Clients)
      /\ Echo!Once(ec_dgrams')
      /\ Echo!Once(ec_backlog')
      /\ Echo!In(ec_dgrams') \cap Echo!In(ec_backlog') = {}
      /\ \A d \in Echo!In(ec_dgrams') \cup Echo!In(ec_backlog') :
           \/ d \in Echo!In(ec_dgrams) \cup Echo!In(ec_backlog)
           \/ d = c /\ ec_cpc[c] = "start"
      /\ Echo!Queued \subseteq Echo!Queued'
      /\ ec_dgrams' = Append(ec_dgrams, c) \/ ec_backlog' = Append(ec_backlog, c) =>
           c \in Echo!Queued'
  <2> USE DEF Echo!Queued
  <2>1. Echo!In(ec_dgrams) \cap Echo!In(ec_backlog) = {}
    BY DEF Echo!EchoInv
  <2>2. CASE UNCHANGED <<ec_dgrams, ec_backlog>>
    BY <1>1, <2>1, <2>2
  <2>3. CASE /\ ec_cpc[c] = "start" /\ ec_dgrams' = Append(ec_dgrams, c)
             /\ UNCHANGED ec_backlog
    <3>1. /\ ec_dgrams' \in Seq(Echo!Clients)
          /\ Echo!Once(ec_dgrams')
          /\ Echo!In(ec_dgrams') = Echo!In(ec_dgrams) \cup {c}
      BY <1>1, <1>2, <2>3, Zenon
    <3>2. Echo!In(ec_backlog') = Echo!In(ec_backlog)
      BY <2>3
    <3> QED BY <1>1, <2>1, <2>3, <3>1, <3>2
  <2>4. CASE /\ ec_cpc[c] = "start" /\ ec_backlog' = Append(ec_backlog, c)
             /\ UNCHANGED ec_dgrams
    <3>1. /\ ec_backlog' \in Seq(Echo!Clients)
          /\ Echo!Once(ec_backlog')
          /\ Echo!In(ec_backlog') = Echo!In(ec_backlog) \cup {c}
      BY <1>1, <1>2, <2>4, Zenon
    <3>2. Echo!In(ec_dgrams') = Echo!In(ec_dgrams)
      BY <2>4
    <3> QED BY <1>1, <2>1, <2>4, <3>1, <3>2
  <2> QED BY <2>2, <2>3, <2>4
<1>4. /\ ec_answer' = [d \in Echo!Clients |-> IF ec_cpc'[d] = "done" THEN d ELSE "none"]
      /\ ec_cpc' \in [Echo!Clients -> {"start", "silent", "wait", "lost", "done", "killed"}]
  BY AnswersKept DEF Echo!server
<1>5. Echo!EchoTyped'
  BY <1>3, <1>4 DEF Echo!EchoInv, Echo!EchoTyped, Echo!server
<1>6. \A d \in Echo!Clients : ec_cpc'[d] = IF d = c THEN l ELSE ec_cpc[d]
  BY <1>1
<1>7. \A d \in Echo!Queued' : ec_cpc'[d] \notin {"start", "done"}
  <2>1. Echo!In(ec_dgrams) \cup Echo!In(ec_backlog) \subseteq Echo!Clients
    BY <1>1, ElementOfSeq DEF Echo!In
  <2> QED BY <1>3, <1>6, <2>1 DEF Echo!EchoInv, Echo!Queued
<1>8. /\ ec_pc' \in {"read", "sendto", "write"} =>
           ec_peer' \in Echo!Clients \ Echo!Queued' /\ ec_cpc'[ec_peer'] \notin {"start", "done"}
      /\ ec_pc' \in {"sendto", "write"} => ec_buf' = ec_peer' \/ ec_cpc'[ec_peer'] = "killed"
  BY <1>3, <1>6 DEF Echo!EchoInv, Echo!server, Echo!Queued
<1>9. \A d \in Echo!Clients : ec_cpc'[d] \in {"silent", "wait"} =>
        d \in Echo!Queued' \/ Echo!Served(d)'
  <2>1. \A d \in Echo!Clients : Echo!Served(d)' <=> Echo!Served(d)
    BY DEF Echo!Served, Echo!server
  <2> QED BY <1>3, <1>6, <2>1 DEF Echo!EchoInv
<1>10. \A d \in Echo!Clients : ec_cpc'[d] \in {"start", "silent"} => Echo!Unheard(d)'
  <2> SUFFICES ASSUME NEW d \in Echo!Clients, ec_cpc'[d] \in {"start", "silent"}
               PROVE  Echo!Unheard(d)'
    OBVIOUS
  <2>1. ec_cpc[d] \in {"start", "silent"} /\ (d = c => l = "silent")
    BY <1>6
  <2>2. Echo!Unheard(d)
    BY <2>1 DEF Echo!EchoInv
  <2>3. d \notin ec_data'
    BY <2>1, <2>2 DEF Echo!Unheard
  <2>4. d \notin Echo!In(ec_dgrams')
    <3>1. d # c /\ d \in Echo!In(ec_dgrams') => d \in Echo!In(ec_dgrams)
      BY <1>2, EchoEnters
    <3> QED BY <2>1, <2>2, <3>1 DEF Echo!Unheard
  <2> QED BY <2>2, <2>3, <2>4 DEF Echo!Unheard, Echo!server
<1> QED BY <1>3, <1>4, <1>5, <1>7, <1>8, <1>9, <1>10 DEF Echo!EchoInv

\* The clients' steps.
LEMMA EchoClients ==
  ASSUME Echo!EchoInv, NEW c \in Echo!Clients,
         Echo!SendTo(c) \/ Echo!Connect(c) \/ Echo!Write(c) \/ Echo!Kill(c)
  PROVE  Echo!EchoInv'
<1> USE DEF Echo!Go
<1>1. CASE Echo!SendTo(c)
  BY <1>1, AskedKeeps DEF Echo!SendTo, Echo!server
<1>2. CASE Echo!Connect(c)
  BY <1>2, AskedKeeps DEF Echo!Connect, Echo!server
<1>3. CASE Echo!Write(c)
  BY <1>3, AskedKeeps DEF Echo!Write, Echo!server
<1>4. CASE Echo!Kill(c)
  BY <1>4, AskedKeeps DEF Echo!Kill, Echo!server
<1> QED BY <1>1, <1>2, <1>3, <1>4

\* The server's steps.
LEMMA EchoServes ==
  ASSUME Echo!EchoInv, Echo!Server
  PROVE  Echo!EchoInv'
<1>0. /\ ec_dgrams \in Seq(Echo!Clients)
      /\ ec_backlog \in Seq(Echo!Clients)
      /\ Echo!Once(ec_dgrams)
      /\ Echo!Once(ec_backlog)
      /\ Echo!In(ec_dgrams) \subseteq Echo!Clients
      /\ Echo!In(ec_backlog) \subseteq Echo!Clients
  BY ElementOfSeq DEF Echo!EchoInv, Echo!EchoTyped, Echo!In
<1>1. CASE Echo!EpollWait
  <2>1. ec_events' \in [1..Echo!MAX_EVENTS -> Echo!Sources \cup {"none"}]
    <3>1. PICK s \in Echo!Ready :
              ec_events' = IF Echo!Ready = {s} THEN [ec_events EXCEPT ![1] = s]
                                               ELSE <<s, CHOOSE t \in Echo!Ready : t # s>>
      BY <1>1 DEF Echo!EpollWait
    <3>2. Echo!Ready \subseteq Echo!Sources
      BY DEF Echo!Ready
    <3>3. Echo!Ready # {s} => (CHOOSE t \in Echo!Ready : t # s) \in Echo!Ready
      BY <3>1
    <3> QED BY <3>1, <3>2, <3>3 DEF Echo!EchoInv, Echo!EchoTyped, Echo!MAX_EVENTS
  <2>2. /\ ec_i' = 1
        /\ ec_pc' = "look"
        /\ UNCHANGED <<ec_dgrams, ec_backlog, ec_data, ec_peer, ec_buf, ec_cpc,
                       ec_answer>>
    BY <1>1 DEF Echo!EpollWait
  <2>3. Echo!EchoTyped'
    BY <2>1, <2>2 DEF Echo!EchoInv, Echo!EchoTyped
  <2> QED BY <2>2, <2>3, <1>1 DEF Echo!EchoInv, Echo!Queued, Echo!Served, Echo!EpollWait,
    Echo!Unheard
<1>2. CASE Echo!Look
  <2>1. /\ ec_i' \in {ec_i, ec_i + 1}
        /\ UNCHANGED <<ec_dgrams, ec_backlog, ec_data, ec_events, ec_peer, ec_buf,
                       ec_cpc, ec_answer>>
        /\ ec_i \in Nat /\ ec_i > 0
    BY <1>2 DEF Echo!Look, Echo!EchoInv, Echo!EchoTyped
  <2>2. ec_pc' \notin {"read", "sendto", "write"} /\ ec_pc = "look"
    <3>1. ec_i <= Echo!MAX_EVENTS => ec_events[ec_i] \in Echo!Sources \cup {"none"}
      BY <2>1 DEF Echo!EchoInv, Echo!EchoTyped, Echo!MAX_EVENTS
    <3> QED BY <1>2, <2>1, <3>1 DEF Echo!Look, Echo!Sources, Echo!MAX_EVENTS
  <2>3. Echo!EchoTyped'
    BY <2>1 DEF Echo!EchoInv, Echo!EchoTyped
  <2> QED BY <2>1, <2>2, <2>3 DEF Echo!EchoInv, Echo!Queued, Echo!Served, Echo!Unheard
<1>3. CASE Echo!RecvFrom
  <2> DEFINE c == Head(ec_dgrams)
  <2>1. /\ ec_dgrams # <<>> /\ ec_dgrams' = Tail(ec_dgrams) /\ ec_peer' = c /\ ec_buf' = c
        /\ ec_pc' = "sendto" /\ ec_pc = "dgram"
        /\ UNCHANGED <<ec_backlog, ec_data, ec_events, ec_i, ec_cpc, ec_answer>>
    BY <1>3 DEF Echo!RecvFrom
  <2>2. /\ c \in Echo!In(ec_dgrams) /\ Tail(ec_dgrams) \in Seq(Echo!Clients)
        /\ Echo!In(Tail(ec_dgrams)) \subseteq Echo!In(ec_dgrams)
        /\ Echo!In(ec_dgrams) \subseteq Echo!In(Tail(ec_dgrams)) \cup {c}
        /\ c \notin Echo!In(Tail(ec_dgrams)) /\ Echo!Once(Tail(ec_dgrams))
    BY <1>0, <2>1, EchoLeaves
  <2> HIDE DEF c
  <2>3. Echo!EchoTyped'
    BY <2>1, <2>2 DEF Echo!EchoInv, Echo!EchoTyped
  <2>4. \A d \in Echo!Queued' : ec_cpc'[d] \notin {"start", "done"}
    BY <2>1, <2>2 DEF Echo!EchoInv, Echo!Queued
  <2>5. /\ Echo!In(ec_dgrams') \cap Echo!In(ec_backlog') = {}
        /\ Echo!Once(ec_dgrams')
        /\ Echo!Once(ec_backlog')
    BY <2>1, <2>2 DEF Echo!EchoInv
  <2>6. ec_peer' \in Echo!Clients \ Echo!Queued' /\ ec_cpc'[ec_peer'] \notin {"start", "done"}
    BY <1>0, <2>1, <2>2 DEF Echo!EchoInv, Echo!Queued
  <2>7. \A d \in Echo!Clients : ec_cpc'[d] \in {"silent", "wait"} =>
          d \in Echo!Queued' \/ Echo!Served(d)'
    BY <2>1, <2>2 DEF Echo!EchoInv, Echo!Queued, Echo!Served
  <2>8. \A d \in Echo!Clients : ec_cpc'[d] \in {"start", "silent"} => Echo!Unheard(d)'
    BY <2>1, <2>2 DEF Echo!EchoInv, Echo!Unheard
  <2> QED BY <2>1, <2>3, <2>4, <2>5, <2>6, <2>7, <2>8 DEF Echo!EchoInv
<1>4. CASE Echo!Accept
  <2> DEFINE c == Head(ec_backlog)
  <2>1. /\ ec_backlog # <<>> /\ ec_backlog' = Tail(ec_backlog) /\ ec_peer' = c
        /\ ec_pc' = "read" /\ ec_pc = "stream"
        /\ UNCHANGED <<ec_dgrams, ec_data, ec_events, ec_i, ec_buf, ec_cpc, ec_answer>>
    BY <1>4 DEF Echo!Accept
  <2>2. /\ c \in Echo!In(ec_backlog) /\ Tail(ec_backlog) \in Seq(Echo!Clients)
        /\ Echo!In(Tail(ec_backlog)) \subseteq Echo!In(ec_backlog)
        /\ Echo!In(ec_backlog) \subseteq Echo!In(Tail(ec_backlog)) \cup {c}
        /\ c \notin Echo!In(Tail(ec_backlog)) /\ Echo!Once(Tail(ec_backlog))
    BY <1>0, <2>1, EchoLeaves
  <2> HIDE DEF c
  <2>3. Echo!EchoTyped'
    BY <2>1, <2>2 DEF Echo!EchoInv, Echo!EchoTyped
  <2>4. \A d \in Echo!Queued' : ec_cpc'[d] \notin {"start", "done"}
    BY <2>1, <2>2 DEF Echo!EchoInv, Echo!Queued
  <2>5. /\ Echo!In(ec_dgrams') \cap Echo!In(ec_backlog') = {}
        /\ Echo!Once(ec_dgrams')
        /\ Echo!Once(ec_backlog')
    BY <2>1, <2>2 DEF Echo!EchoInv
  <2>6. ec_peer' \in Echo!Clients \ Echo!Queued' /\ ec_cpc'[ec_peer'] \notin {"start", "done"}
    BY <1>0, <2>1, <2>2 DEF Echo!EchoInv, Echo!Queued
  <2>7. \A d \in Echo!Clients : ec_cpc'[d] \in {"silent", "wait"} =>
          d \in Echo!Queued' \/ Echo!Served(d)'
    BY <2>1, <2>2 DEF Echo!EchoInv, Echo!Queued, Echo!Served
  <2>8. \A d \in Echo!Clients : ec_cpc'[d] \in {"start", "silent"} => Echo!Unheard(d)'
    BY <2>1 DEF Echo!EchoInv, Echo!Unheard
  <2> QED BY <2>1, <2>3, <2>4, <2>5, <2>6, <2>7, <2>8 DEF Echo!EchoInv
<1>5. CASE Echo!Read
  <2>1. /\ ec_pc = "read" /\ ec_pc' = "write"
        /\ (ec_buf' = ec_peer \/ ec_cpc[ec_peer] = "killed")
        /\ (ec_peer \in ec_data \/ ec_cpc[ec_peer] = "killed") /\ ec_data' = ec_data \ {ec_peer}
        /\ UNCHANGED <<ec_dgrams, ec_backlog, ec_events, ec_i, ec_peer, ec_cpc, ec_answer>>
    BY <1>5 DEF Echo!Read
  <2>2. Echo!EchoTyped' /\ Echo!Queued' = Echo!Queued
    BY <2>1 DEF Echo!EchoInv, Echo!EchoTyped, Echo!Queued
  <2>3. \A d \in Echo!Clients : Echo!Served(d)' <=> Echo!Served(d)
    BY <2>1 DEF Echo!Served
  <2>4. \A d \in Echo!Clients : ec_cpc'[d] \in {"start", "silent"} => Echo!Unheard(d)'
    BY <2>1 DEF Echo!EchoInv, Echo!Unheard
  <2> QED BY <2>1, <2>2, <2>3, <2>4 DEF Echo!EchoInv
<1>6. CASE Echo!Reply
  <2>1. /\ ec_pc \in {"sendto", "write"} /\ ec_pc' = "look" /\ ec_i' = ec_i + 1
        /\ UNCHANGED <<ec_dgrams, ec_backlog, ec_data, ec_events, ec_peer, ec_buf>>
        /\ \/ /\ ec_cpc[ec_peer] = "wait" /\ ec_cpc' = [ec_cpc EXCEPT ![ec_peer] = "done"]
              /\ ec_answer' = [ec_answer EXCEPT ![ec_peer] = ec_buf]
           \/ /\ ec_cpc[ec_peer] = "wait" /\ ec_cpc' = [ec_cpc EXCEPT ![ec_peer] = "lost"]
              /\ ec_answer' = ec_answer
           \/ ec_cpc[ec_peer] # "wait" /\ ec_cpc' = ec_cpc /\ ec_answer' = ec_answer
    BY <1>6 DEF Echo!Reply, Echo!Go
  <2>2. /\ ec_peer \in Echo!Clients \ Echo!Queued
        /\ ec_cpc[ec_peer] = "wait" => ec_buf = ec_peer
    BY <2>1 DEF Echo!EchoInv
  <2>3. /\ ec_answer' = [d \in Echo!Clients |-> IF ec_cpc'[d] = "done" THEN d ELSE "none"]
        /\ ec_cpc' \in
             [Echo!Clients -> {"start", "silent", "wait", "lost", "done", "killed"}]
        /\ \A d \in Echo!Clients : d # ec_peer => ec_cpc'[d] = ec_cpc[d]
    BY <2>1, <2>2 DEF Echo!EchoInv, Echo!EchoTyped
  <2>4. Echo!EchoTyped' /\ Echo!Queued' = Echo!Queued
    BY <2>1, <2>3 DEF Echo!EchoInv, Echo!EchoTyped, Echo!Queued
  <2>5. \A d \in Echo!Queued' : ec_cpc'[d] \notin {"start", "done"}
    <3>1. Echo!Queued \subseteq Echo!Clients
      BY <1>0 DEF Echo!Queued
    <3> QED BY <2>2, <2>3, <2>4, <3>1 DEF Echo!EchoInv
  <2>6. \A d \in Echo!Clients : ec_cpc'[d] \in {"silent", "wait"} =>
          d \in Echo!Queued' \/ Echo!Served(d)'
    <3>1. ec_cpc'[ec_peer] \notin {"silent", "wait"}
      <4>1. ec_cpc[ec_peer] # "silent"
        BY <2>1, <2>2 DEF Echo!EchoInv, Echo!Unheard
      <4> QED BY <2>1, <2>2, <4>1 DEF Echo!EchoInv, Echo!EchoTyped
    <3>2. \A d \in Echo!Clients : d # ec_peer => ~Echo!Served(d)
      BY DEF Echo!Served
    <3> QED BY <2>3, <2>4, <3>1, <3>2 DEF Echo!EchoInv
  <2>7. \A d \in Echo!Clients : ec_cpc'[d] \in {"start", "silent"} => Echo!Unheard(d)'
    <3>1. ec_cpc'[ec_peer] \notin {"start", "silent"}
      <4>1. ec_cpc[ec_peer] \notin {"start", "silent"}
        BY <2>1, <2>2 DEF Echo!EchoInv, Echo!Unheard
      <4> QED BY <2>1, <2>2, <4>1 DEF Echo!EchoInv, Echo!EchoTyped
    <3> QED BY <2>1, <2>3, <3>1 DEF Echo!EchoInv, Echo!Unheard
  <2> QED BY <2>1, <2>3, <2>4, <2>5, <2>6, <2>7 DEF Echo!EchoInv
<1> QED BY <1>1, <1>2, <1>3, <1>4, <1>5, <1>6 DEF Echo!Server

\* The invariant is kept.
LEMMA EchoStep == Echo!EchoInv /\ [Echo!Next]_Echo!vars => Echo!EchoInv'
<1> SUFFICES ASSUME Echo!EchoInv, [Echo!Next]_Echo!vars PROVE Echo!EchoInv'
  OBVIOUS
<1>1. CASE UNCHANGED Echo!vars
  BY <1>1 DEF Echo!vars, Echo!EchoInv, Echo!EchoTyped, Echo!Queued, Echo!Served,
    Echo!Unheard
<1> QED BY <1>1, EchoClients, EchoServes DEF Echo!Next

\* The invariant is what the run checks, and more.
LEMMA EchoMeans == Echo!EchoInv => Echo!EchoIsOwn
BY DEF Echo!EchoInv, Echo!EchoIsOwn, Echo!Queued

-----------------------------------------------------------------------------
(***************************************************************************)
(* Proofs about the programs of chapter 44, for pipes of any size, writes  *)
(* split anywhere and any message: what comes out of a pipe is what went   *)
(* in.                                                                     *)
(***************************************************************************)

\* What the programs of chapter 44 send in the run.
FourBytes == <<1, 2, 3, 4>>

Pipe ==
  INSTANCE Pipes WITH
    tool <- x1, pipe <- x2, rd <- x3, wr <- x4, pc <- x5, msg <- x6, out <- x7,
    answer <- x8

pi_tool == x1
pi_pipe == x2
pi_rd == x3
pi_wr == x4
pi_pc == x5
pi_msg == x6
pi_out == x7
pi_answer == x8

USE DEF pi_tool, pi_pipe, pi_rd, pi_wr, pi_pc, pi_msg, pi_out, pi_answer

\* What was printed, then the pipe, then the message: before and after a is written.
Rewritten(o, p, a, b, m) == (o \o (p \o a)) \o b = (o \o p) \o m

\* A write moves the first bytes of the message to the end of the pipe.
LEMMA WriteKeeps ==
  ASSUME NEW o \in Seq(Pipe!Values), NEW p \in Seq(Pipe!Values), NEW m \in Seq(Pipe!Values),
         NEW n \in 1..Len(m)
  PROVE  /\ p \o SubSeq(m, 1, n) \in Seq(Pipe!Values)
         /\ SubSeq(m, n + 1, Len(m)) \in Seq(Pipe!Values)
         /\ Rewritten(o, p, SubSeq(m, 1, n), SubSeq(m, n + 1, Len(m)), m)
<1> DEFINE a == SubSeq(m, 1, n)
           b == SubSeq(m, n + 1, Len(m))
<1>1. n \in 0..Len(m)
  OBVIOUS
<1>2. a \in Seq(Pipe!Values) /\ b \in Seq(Pipe!Values) /\ a \o b = m
  BY <1>1, SplitAt
<1> HIDE DEF a, b
<1>3. p \o a \in Seq(Pipe!Values) /\ (o \o (p \o a)) \o b = (o \o p) \o (a \o b)
  <2>1. /\ p \o a \in Seq(Pipe!Values) /\ o \o p \in Seq(Pipe!Values)
        /\ Regrouped(o, p, a) /\ Regrouped(o \o p, a, b)
    <3>1. o \o p \in Seq(Pipe!Values)
      BY ConcatProperties
    <3> QED BY <1>2, <3>1, SplitFlow
  <2> QED BY <2>1 DEF Regrouped
<1>4. /\ p \o a \in Seq(Pipe!Values) /\ b \in Seq(Pipe!Values)
      /\ (o \o (p \o a)) \o b = (o \o p) \o m
  BY <1>2, <1>3
<1> QED BY <1>4 DEF a, b, Rewritten

\* A read moves the first bytes of the pipe to what has been printed.
LEMMA ReadKeeps ==
  ASSUME NEW o \in Seq(Pipe!Values), NEW p \in Seq(Pipe!Values), NEW n \in 1..Len(p)
  PROVE  /\ o \o SubSeq(p, 1, n) \in Seq(Pipe!Values)
         /\ SubSeq(p, n + 1, Len(p)) \in Seq(Pipe!Values)
         /\ (o \o SubSeq(p, 1, n)) \o SubSeq(p, n + 1, Len(p)) = o \o p
<1> DEFINE a == SubSeq(p, 1, n)
           b == SubSeq(p, n + 1, Len(p))
<1>1. n \in 0..Len(p)
  OBVIOUS
<1>2. a \in Seq(Pipe!Values) /\ b \in Seq(Pipe!Values) /\ a \o b = p
  BY <1>1, SplitAt
<1> HIDE DEF a, b
<1>3. o \o a \in Seq(Pipe!Values) /\ (o \o a) \o b = o \o (a \o b)
  <2>1. o \o a \in Seq(Pipe!Values) /\ Regrouped(o, a, b)
    BY <1>2, SplitFlow
  <2> QED BY <2>1 DEF Regrouped
<1>4. o \o a \in Seq(Pipe!Values) /\ b \in Seq(Pipe!Values) /\ (o \o a) \o b = o \o p
  BY <1>2, <1>3
<1> QED BY <1>4 DEF a, b

\* Reading one element.
LEMMA ReadOne ==
  ASSUME NEW o \in Seq(Pipe!Values), NEW p \in Seq(Pipe!Values), p # <<>>
  PROVE  /\ Append(o, Head(p)) = o \o SubSeq(p, 1, 1) /\ 1 \in 1..Len(p)
         /\ Head(p) \in Pipe!Values
         /\ Append(o, Head(p)) \in Seq(Pipe!Values)
<1>1. Len(p) \in Nat \ {0} /\ Head(p) = p[1] /\ Head(p) \in Pipe!Values
  BY EmptySeq, HeadTailProperties
<1>2. 1 \in 1..Len(p)
  BY <1>1
<1>3. SubSeq(p, 1, 1) = <<Head(p)>>
  <2>1. SubSeq(p, 1, 1) = <<p[1]>> \o SubSeq(p, 1 + 1, 1)
    BY <1>2, SubSeqRecursiveFirst
  <2>2. SubSeq(p, 1 + 1, 1) = <<>>
    BY SubSeqEmpty
  <2>3. <<p[1]>> \o <<>> = <<p[1]>>
    BY <1>1, ConcatEmptySeq
  <2> QED BY <1>1, <2>1, <2>2, <2>3
<1> QED BY <1>1, <1>2, <1>3, AppendIsConcat, AppendProperties

\* Neither loses or adds anything.
LEMMA FlowKept ==
  ASSUME Pipe!PipesTyped, Pipe!Flow,
         Pipe!Sends \/ Pipe!Takes \/ UNCHANGED <<pi_pipe["ptoc"], pi_msg, pi_out>>
  PROVE  Pipe!Flow'
<1> USE DEF Pipe!PipesTyped, Pipe!Flow, Pipe!PipeNames
<1>0. /\ pi_out \in Seq(Pipe!Values) /\ pi_pipe["ptoc"] \in Seq(Pipe!Values)
      /\ pi_msg \in Seq(Pipe!Values)
  OBVIOUS
<1>1. CASE Pipe!Sends
  <2>1. PICK n \in 1..Len(pi_msg) :
          /\ pi_pipe' = [pi_pipe EXCEPT !["ptoc"] = @ \o SubSeq(pi_msg, 1, n)]
          /\ pi_msg' = SubSeq(pi_msg, n + 1, Len(pi_msg))
    BY <1>1 DEF Pipe!Sends
  <2>2. pi_pipe'["ptoc"] = pi_pipe["ptoc"] \o SubSeq(pi_msg, 1, n) /\ pi_out' = pi_out
    BY <1>1, <2>1 DEF Pipe!Sends
  <2>3. Rewritten(pi_out, pi_pipe["ptoc"], SubSeq(pi_msg, 1, n),
                  SubSeq(pi_msg, n + 1, Len(pi_msg)), pi_msg)
    BY <1>0, WriteKeeps
  <2> QED BY <2>1, <2>2, <2>3 DEF Rewritten
<1>2. CASE Pipe!Takes
  <2>1. PICK n \in 1..Len(pi_pipe["ptoc"]) :
          /\ pi_pipe' = [pi_pipe EXCEPT !["ptoc"] = SubSeq(@, n + 1, Len(@))]
          /\ pi_out' = pi_out \o SubSeq(pi_pipe["ptoc"], 1, n)
    BY <1>2 DEF Pipe!Takes
  <2>2. /\ pi_pipe'["ptoc"] = SubSeq(pi_pipe["ptoc"], n + 1, Len(pi_pipe["ptoc"]))
        /\ pi_msg' = pi_msg
    BY <1>2, <2>1 DEF Pipe!Takes
  <2>3. /\ pi_out \o SubSeq(pi_pipe["ptoc"], 1, n) \in Seq(Pipe!Values)
        /\ (pi_out \o SubSeq(pi_pipe["ptoc"], 1, n))
               \o SubSeq(pi_pipe["ptoc"], n + 1, Len(pi_pipe["ptoc"]))
             = pi_out \o pi_pipe["ptoc"]
    BY <1>0, ReadKeeps
  <2> QED BY <2>1, <2>2, <2>3
<1>3. CASE UNCHANGED <<pi_pipe["ptoc"], pi_msg, pi_out>>
  BY <1>3
<1> QED BY <1>1, <1>2, <1>3

\* What a process that ends leaves open.
LEMMA EndsFacts ==
  ASSUME Pipe!PipesTyped, NEW p \in Pipe!Procs, Pipe!Ends(p)
  PROVE  /\ pi_pc' = [pi_pc EXCEPT ![p] = "exited"] /\ pi_pc'[p] = "exited"
         /\ \A q \in Pipe!Procs \ {p} : pi_pc'[q] = pi_pc[q]
         /\ \A q \in Pipe!PipeNames, h \in Pipe!Holders \ {p} :
              /\ h \in pi_rd'[q] <=> h \in pi_rd[q]
              /\ h \in pi_wr'[q] <=> h \in pi_wr[q]
         /\ pi_rd' \in [Pipe!PipeNames -> SUBSET Pipe!Holders]
         /\ pi_wr' \in [Pipe!PipeNames -> SUBSET Pipe!Holders]
BY DEF Pipe!Ends, Pipe!Go, Pipe!PipesTyped

\* A process that closes an end leaves the others'.
LEMMA CloseFacts ==
  ASSUME Pipe!PipesTyped, NEW p \in Pipe!Holders, NEW r \in Pipe!PipeNames
  PROVE  /\ Pipe!CloseRead(p, r) =>
              /\ pi_rd' \in [Pipe!PipeNames -> SUBSET Pipe!Holders]
              /\ \A q \in Pipe!PipeNames, h \in Pipe!Holders \ {p} :
                   h \in pi_rd'[q] <=> h \in pi_rd[q]
         /\ Pipe!CloseWrite(p, r) =>
              /\ pi_wr' \in [Pipe!PipeNames -> SUBSET Pipe!Holders]
              /\ \A q \in Pipe!PipeNames, h \in Pipe!Holders \ {p} :
                   h \in pi_wr'[q] <=> h \in pi_wr[q]
BY DEF Pipe!CloseRead, Pipe!CloseWrite, Pipe!PipesTyped

-----------------------------------------------------------------------------
\* A fork passes on what the parent holds of the pipes that were there before.
LEMMA ForkFacts ==
  ASSUME Pipe!PipesTyped, NEW p \in {"child", "other"}, NEW l \in Pipe!Places,
         Pipe!Fork(p, l)
  PROVE  /\ pi_pc["parent"] = "fork" /\ pi_pc[p] = "none"
         /\ p = "other" => pi_pc["child"] # "none"
         /\ pi_pc' = [pi_pc EXCEPT ![p] = "start", !["parent"] = l]
         /\ pi_pc' \in [Pipe!Procs -> Pipe!Places]
         /\ UNCHANGED <<pi_tool, pi_pipe, pi_msg, pi_out, pi_answer>>
         /\ pi_rd' \in [Pipe!PipeNames -> SUBSET Pipe!Holders]
         /\ pi_wr' \in [Pipe!PipeNames -> SUBSET Pipe!Holders]
         /\ "ptoc" \in Pipe!Made(p) =>
              pi_rd'["ptoc"] = {"parent", p} /\ pi_wr'["ptoc"] = {"parent", p}
         /\ "ptoc" \notin Pipe!Made(p) =>
              /\ "parent" \in pi_rd["ptoc"] => pi_rd'["ptoc"] = pi_rd["ptoc"] \cup {p}
              /\ "parent" \in pi_wr["ptoc"] => pi_wr'["ptoc"] = pi_wr["ptoc"] \cup {p}
<1> USE DEF Pipe!PipesTyped, Pipe!PipeNames, Pipe!Procs, Pipe!Holders
<1>1. /\ pi_pc["parent"] = "fork" /\ pi_pc[p] = "none"
      /\ p = "other" => pi_pc["child"] # "none"
      /\ pi_pc' = [pi_pc EXCEPT ![p] = "start", !["parent"] = l]
      /\ UNCHANGED <<pi_tool, pi_pipe, pi_msg, pi_out, pi_answer>>
      /\ pi_rd' = Pipe!Inherited(pi_rd, p) /\ pi_wr' = Pipe!Inherited(pi_wr, p)
  BY DEF Pipe!Fork
<1>2. pi_pc' \in [Pipe!Procs -> Pipe!Places]
  BY <1>1 DEF Pipe!Places
<1>3. /\ pi_rd' \in [Pipe!PipeNames -> SUBSET Pipe!Holders]
      /\ pi_wr' \in [Pipe!PipeNames -> SUBSET Pipe!Holders]
  BY <1>1 DEF Pipe!Inherited
<1>4. /\ "ptoc" \in Pipe!Made(p) =>
           pi_rd'["ptoc"] = {"parent", p} /\ pi_wr'["ptoc"] = {"parent", p}
      /\ "ptoc" \notin Pipe!Made(p) =>
           /\ "parent" \in pi_rd["ptoc"] => pi_rd'["ptoc"] = pi_rd["ptoc"] \cup {p}
           /\ "parent" \in pi_wr["ptoc"] => pi_wr'["ptoc"] = pi_wr["ptoc"] \cup {p}
  BY <1>1 DEF Pipe!Inherited
<1> QED BY <1>1, <1>2, <1>3, <1>4

\* A write with someone to read it.
LEMMA WriteFacts ==
  ASSUME Pipe!PipesTyped, NEW p \in Pipe!Procs, NEW l \in Pipe!Places,
         Pipe!Write(p, "ptoc", l), pi_out' = pi_out
  PROVE  /\ pi_pipe' \in [Pipe!PipeNames -> Seq(Pipe!Values)]
         /\ pi_msg' \in Seq(Pipe!Values)
         /\ pi_pc' \in [Pipe!Procs -> Pipe!Places]
         /\ pi_rd' \in [Pipe!PipeNames -> SUBSET Pipe!Holders]
         /\ pi_wr' \in [Pipe!PipeNames -> SUBSET Pipe!Holders]
         /\ pi_rd["ptoc"] # {} => /\ Pipe!Sends /\ UNCHANGED <<pi_rd, pi_wr>>
                                  /\ pi_pc' = [pi_pc EXCEPT ![p] = l]
<1> USE DEF Pipe!PipesTyped
<1>0. "ptoc" \in Pipe!PipeNames /\ pi_pipe["ptoc"] \in Seq(Pipe!Values)
  BY DEF Pipe!PipeNames
<1>1. CASE pi_rd["ptoc"] = {}
  <2>1. Pipe!Ends(p) /\ UNCHANGED <<pi_pipe, pi_msg>>
    BY <1>1 DEF Pipe!Write
  <2>2. pi_pc' \in [Pipe!Procs -> Pipe!Places]
    BY <2>1 DEF Pipe!Ends, Pipe!Go, Pipe!Places
  <2> QED BY <1>1, <2>1, <2>2, EndsFacts
<1>2. CASE pi_rd["ptoc"] # {}
  <2>1. PICK n \in 1..Len(pi_msg) :
          /\ pi_pipe' = [pi_pipe EXCEPT !["ptoc"] = @ \o SubSeq(pi_msg, 1, n)]
          /\ pi_msg' = SubSeq(pi_msg, n + 1, Len(pi_msg))
          /\ Pipe!Go(p, l) /\ UNCHANGED <<pi_rd, pi_wr>>
    BY <1>2 DEF Pipe!Write
  <2>2. /\ pi_pipe["ptoc"] \o SubSeq(pi_msg, 1, n) \in Seq(Pipe!Values)
        /\ pi_msg' \in Seq(Pipe!Values)
    BY <1>0, <2>1, WriteKeeps, EmptySeq
  <2>3. pi_pipe' \in [Pipe!PipeNames -> Seq(Pipe!Values)]
    BY <1>0, <2>1, <2>2
  <2>4. pi_pc' = [pi_pc EXCEPT ![p] = l] /\ pi_pc' \in [Pipe!Procs -> Pipe!Places]
    BY <2>1 DEF Pipe!Go
  <2> QED BY <2>1, <2>2, <2>3, <2>4 DEF Pipe!Sends
<1> QED BY <1>1, <1>2

\* What has been read is no longer in the pipe.
LEMMA ReceivedFacts ==
  ASSUME Pipe!PipesTyped, NEW q \in Pipe!PipeNames, NEW n, Pipe!Received(q, n)
  PROVE  /\ pi_pipe' \in [Pipe!PipeNames -> Seq(Pipe!Values)] /\ pi_pipe[q] # <<>>
         /\ \A r \in Pipe!PipeNames \ {q} : pi_pipe'[r] = pi_pipe[r]
<1> USE DEF Pipe!PipesTyped, Pipe!Received
<1>1. pi_pipe[q] \in Seq(Pipe!Values) /\ n \in 1..Len(pi_pipe[q])
  OBVIOUS
<1>2. SubSeq(pi_pipe[q], n + 1, Len(pi_pipe[q])) \in Seq(Pipe!Values)
  BY <1>1, ReadKeeps, EmptySeq
<1>3. pi_pipe[q] # <<>>
  BY <1>1, EmptySeq
<1> QED BY <1>2, <1>3

\* Every step keeps the types.
LEMMA PipesTypes == Pipe!PipesTyped /\ [Pipe!Next]_Pipe!vars => Pipe!PipesTyped'
<1> SUFFICES ASSUME Pipe!PipesTyped, [Pipe!Next]_Pipe!vars PROVE Pipe!PipesTyped'
  OBVIOUS
<1>0. /\ pi_tool \in Pipe!Tools /\ pi_pipe \in [Pipe!PipeNames -> Seq(Pipe!Values)]
      /\ pi_rd \in [Pipe!PipeNames -> SUBSET Pipe!Holders]
      /\ pi_wr \in [Pipe!PipeNames -> SUBSET Pipe!Holders]
      /\ pi_pc \in [Pipe!Procs -> Pipe!Places] /\ pi_msg \in Seq(Pipe!Values)
      /\ "ptoc" \in Pipe!PipeNames /\ "ctop" \in Pipe!PipeNames
      /\ pi_pipe["ptoc"] \in Seq(Pipe!Values) /\ pi_pipe["ctop"] \in Seq(Pipe!Values)
  BY DEF Pipe!PipesTyped, Pipe!PipeNames
<1>p. /\ "parent" \in Pipe!Procs /\ "child" \in Pipe!Procs /\ "other" \in Pipe!Procs
      /\ \A p \in Pipe!Procs \cup {"main_fd", "dummy_fd"} : p \in Pipe!Holders
      /\ "write" \in Pipe!Places /\ "close" \in Pipe!Places /\ "fork" \in Pipe!Places
  BY DEF Pipe!Procs, Pipe!Holders, Pipe!Places
<1>g. ASSUME NEW p \in Pipe!Procs, NEW l \in Pipe!Places, Pipe!Go(p, l)
      PROVE  pi_pc' \in [Pipe!Procs -> Pipe!Places]
  BY <1>0, <1>g DEF Pipe!Go
<1>1. CASE \/ /\ pi_tool \in {"simple_pipe", "bidir_pipe", "popen"}
              /\ Pipe!Fork("child", "close")
           \/ pi_tool \in {"shell_hookup", "pipe_sync"} /\ Pipe!Fork("child", "fork")
           \/ /\ pi_tool \in {"shell_hookup", "pipe_sync", "popen"}
              /\ Pipe!Fork("other", "close")
  <2>1. PICK p \in {"child", "other"}, l \in {"close", "fork"} : Pipe!Fork(p, l)
    BY <1>1
  <2> QED BY <1>0, <1>p, <2>1, ForkFacts DEF Pipe!PipesTyped
<1>2. CASE Pipe!WaitChildren
  BY <1>2, <1>p, <1>0, EndsFacts, <1>g DEF Pipe!WaitChildren, Pipe!PipesTyped, Pipe!Ends,
    Pipe!Places
<1>3. CASE Pipe!SimpleParent
  <2>1. CASE /\ Pipe!CloseRead("parent", "ptoc") /\ Pipe!Go("parent", "write")
             /\ UNCHANGED <<pi_pipe, pi_wr, pi_msg>>
    BY <1>0, <1>p, <1>g, <1>3, <2>1, CloseFacts DEF Pipe!PipesTyped, Pipe!SimpleParent
  <2>2. CASE Pipe!Write("parent", "ptoc", "write") /\ pi_out' = pi_out
    BY <1>0, <1>p, <1>3, <2>2, WriteFacts DEF Pipe!PipesTyped, Pipe!SimpleParent
  <2>3. CASE /\ Pipe!CloseWrite("parent", "ptoc") /\ Pipe!Go("parent", "wait")
             /\ UNCHANGED <<pi_pipe, pi_rd, pi_msg>>
    BY <1>0, <1>p, <1>g, <1>3, <2>3, CloseFacts DEF Pipe!PipesTyped, Pipe!SimpleParent,
      Pipe!Places
  <2> QED BY <1>3, <2>1, <2>2, <2>3 DEF Pipe!SimpleParent
<1>4. CASE Pipe!SimpleChild
  <2>1. CASE /\ Pipe!CloseWrite("child", "ptoc") /\ Pipe!Go("child", "read")
             /\ UNCHANGED <<pi_pipe, pi_rd, pi_out>>
    BY <1>0, <1>p, <1>g, <1>4, <2>1, CloseFacts DEF Pipe!PipesTyped, Pipe!SimpleChild,
      Pipe!Places
  <2>2. CASE /\ \E n \in 1..BufSize : Pipe!Received("ptoc", n)
             /\ UNCHANGED <<pi_rd, pi_wr, pi_pc>>
    BY <1>0, <1>4, <2>2, ReceivedFacts DEF Pipe!PipesTyped, Pipe!SimpleChild
  <2>3. CASE Pipe!Ends("child") /\ UNCHANGED <<pi_pipe, pi_out>>
    BY <1>0, <1>p, <1>g, <1>4, <2>3, EndsFacts DEF Pipe!PipesTyped, Pipe!SimpleChild,
      Pipe!Ends, Pipe!Places
  <2> QED BY <1>4, <2>1, <2>2, <2>3 DEF Pipe!SimpleChild
<1>5. CASE Pipe!BidirParent
  <2>1. CASE /\ Pipe!CloseRead("parent", "ptoc") /\ Pipe!CloseWrite("parent", "ctop")
             /\ Pipe!Go("parent", "fgets") /\ UNCHANGED <<pi_pipe, pi_msg, pi_out>>
    BY <1>0, <1>p, <1>g, <1>5, <2>1, CloseFacts DEF Pipe!PipesTyped, Pipe!BidirParent,
      Pipe!Places
  <2>2. CASE /\ pi_msg # <<>>
             /\ pi_pipe' = [pi_pipe EXCEPT !["ptoc"] = Append(@, Head(pi_msg))]
             /\ pi_msg' = Tail(pi_msg) /\ Pipe!Go("parent", "read")
             /\ UNCHANGED <<pi_rd, pi_wr, pi_out>>
    <3>1. /\ Append(pi_pipe["ptoc"], Head(pi_msg)) \in Seq(Pipe!Values)
          /\ Tail(pi_msg) \in Seq(Pipe!Values)
      BY <1>0, <2>2, HeadTailProperties, AppendProperties
    <3>2. pi_pipe' \in [Pipe!PipeNames -> Seq(Pipe!Values)]
      BY <1>0, <2>2, <3>1
    <3> QED BY <1>0, <1>p, <1>g, <1>5, <2>2, <3>1, <3>2 DEF Pipe!PipesTyped,
      Pipe!BidirParent, Pipe!Places
  <2>3. CASE /\ Pipe!Received("ctop", 1) /\ Pipe!Go("parent", "fgets")
             /\ UNCHANGED <<pi_rd, pi_wr, pi_msg>>
    BY <1>0, <1>p, <1>g, <1>5, <2>3, ReceivedFacts DEF Pipe!PipesTyped, Pipe!BidirParent,
      Pipe!Places
  <2>4. CASE /\ Pipe!CloseWrite("parent", "ptoc") /\ Pipe!CloseRead("parent", "ctop")
             /\ Pipe!Go("parent", "wait") /\ UNCHANGED <<pi_pipe, pi_msg, pi_out>>
    BY <1>0, <1>p, <1>g, <1>5, <2>4, CloseFacts DEF Pipe!PipesTyped, Pipe!BidirParent,
      Pipe!Places
  <2> QED BY <1>5, <2>1, <2>2, <2>3, <2>4 DEF Pipe!BidirParent
<1>6. CASE Pipe!BidirChild
  <2>1. CASE /\ Pipe!CloseWrite("child", "ptoc") /\ Pipe!CloseRead("child", "ctop")
             /\ Pipe!Go("child", "read") /\ UNCHANGED pi_pipe
    BY <1>0, <1>p, <1>g, <1>6, <2>1, CloseFacts DEF Pipe!PipesTyped, Pipe!BidirChild,
      Pipe!Places
  <2>2. CASE /\ pi_pipe["ptoc"] # <<>>
             /\ pi_pipe' = [pi_pipe EXCEPT
                           !["ptoc"] = Tail(@),
                           !["ctop"] = Append(@, Pipe!Upper(Head(pi_pipe["ptoc"])))]
             /\ UNCHANGED <<pi_rd, pi_wr, pi_pc>>
    <3>1. /\ Head(pi_pipe["ptoc"]) \in Pipe!Values
          /\ Tail(pi_pipe["ptoc"]) \in Seq(Pipe!Values)
      BY <1>0, <2>2, HeadTailProperties
    <3>2. Pipe!Upper(Head(pi_pipe["ptoc"])) \in Pipe!Values
      BY <3>1 DEF Pipe!Values, Pipe!Upper
    <3>3. Append(pi_pipe["ctop"], Pipe!Upper(Head(pi_pipe["ptoc"]))) \in Seq(Pipe!Values)
      BY <1>0, <3>2, AppendProperties
    <3>4. pi_pipe' \in [Pipe!PipeNames -> Seq(Pipe!Values)]
      BY <1>0, <2>2, <3>1, <3>3
    <3> QED BY <1>0, <1>6, <2>2, <3>4 DEF Pipe!PipesTyped, Pipe!BidirChild
  <2>3. CASE Pipe!Ends("child") /\ UNCHANGED pi_pipe
    BY <1>0, <1>p, <1>g, <1>6, <2>3, EndsFacts DEF Pipe!PipesTyped, Pipe!BidirChild,
      Pipe!Ends, Pipe!Places
  <2> QED BY <1>6, <2>1, <2>2, <2>3 DEF Pipe!BidirChild
<1>7. CASE Pipe!HookupParent
  BY <1>0, <1>p, <1>g, <1>7, CloseFacts DEF Pipe!PipesTyped, Pipe!HookupParent, Pipe!Places
<1>8. CASE Pipe!HookupChildren
  <2>1. CASE \/ /\ Pipe!Go("child", "write") /\ Pipe!CloseRead("child", "ptoc")
                /\ UNCHANGED <<pi_pipe, pi_wr, pi_msg, pi_out>>
             \/ /\ Pipe!Go("other", "read") /\ Pipe!CloseWrite("other", "ptoc")
                /\ UNCHANGED <<pi_pipe, pi_rd, pi_msg, pi_out>>
    BY <1>0, <1>p, <1>g, <1>8, <2>1, CloseFacts DEF Pipe!PipesTyped, Pipe!HookupChildren,
      Pipe!Places
  <2>2. CASE Pipe!Write("child", "ptoc", "write") /\ pi_out' = pi_out
    BY <1>0, <1>p, <1>8, <2>2, WriteFacts DEF Pipe!PipesTyped, Pipe!HookupChildren
  <2>3. CASE /\ Pipe!Ends("child") \/ Pipe!Ends("other")
             /\ UNCHANGED <<pi_pipe, pi_msg, pi_out>>
    BY <1>0, <1>p, <1>g, <1>8, <2>3, EndsFacts DEF Pipe!PipesTyped, Pipe!HookupChildren,
      Pipe!Ends, Pipe!Places
  <2>4. CASE Pipe!Received("ptoc", 1) /\ UNCHANGED <<pi_rd, pi_wr, pi_pc, pi_msg>>
    BY <1>0, <1>8, <2>4, ReceivedFacts DEF Pipe!PipesTyped, Pipe!HookupChildren
  <2> QED BY <1>8, <2>1, <2>2, <2>3, <2>4 DEF Pipe!HookupChildren
<1>9. CASE Pipe!SyncParent
  BY <1>0, <1>p, <1>g, <1>9, CloseFacts DEF Pipe!PipesTyped, Pipe!SyncParent, Pipe!Places
<1>10. CASE Pipe!SyncChild("child") \/ Pipe!SyncChild("other")
  <2>1. PICK p \in {"child", "other"} : Pipe!SyncChild(p)
    BY <1>10
  <2>2. p \in Pipe!Procs /\ p \in Pipe!Holders
    BY <1>p
  <2> QED BY <1>0, <1>p, <1>g, <2>1, <2>2, CloseFacts, EndsFacts DEF Pipe!PipesTyped,
    Pipe!SyncChild, Pipe!Ends, Pipe!Places
<1>11. CASE Pipe!PopenImp("child") \/ Pipe!PopenImp("other")
  BY <1>0, <1>p, <1>g, <1>11, CloseFacts DEF Pipe!PipesTyped, Pipe!PopenImp, Pipe!Places
<1>12. CASE Pipe!Ls
  <2>1. CASE Pipe!Ends("child") /\ UNCHANGED <<pi_pipe, pi_answer>>
    BY <1>0, <1>p, <1>g, <1>12, <2>1, EndsFacts DEF Pipe!PipesTyped, Pipe!Ls, Pipe!Ends,
      Pipe!Places
  <2>2. CASE /\ pi_pipe' = [pi_pipe EXCEPT !["ctop"] = Append(@, 0)]
             /\ UNCHANGED <<pi_rd, pi_wr, pi_pc>>
    <3>1. Append(pi_pipe["ctop"], 0) \in Seq(Pipe!Values)
      BY <1>0, AppendProperties DEF Pipe!Values
    <3> QED BY <1>0, <1>12, <2>2, <3>1 DEF Pipe!PipesTyped, Pipe!Ls
  <2> QED BY <1>12, <2>1, <2>2 DEF Pipe!Ls
<1>13. CASE Pipe!Tee
  <2>1. CASE Pipe!Received("ptoc", 1) /\ UNCHANGED <<pi_rd, pi_wr, pi_pc>>
    BY <1>0, <1>13, <2>1, ReceivedFacts DEF Pipe!PipesTyped, Pipe!Tee
  <2>2. CASE Pipe!Ends("other") /\ UNCHANGED <<pi_pipe, pi_out>>
    BY <1>0, <1>p, <1>g, <1>13, <2>2, EndsFacts DEF Pipe!PipesTyped, Pipe!Tee, Pipe!Ends,
      Pipe!Places
  <2> QED BY <1>13, <2>1, <2>2 DEF Pipe!Tee
<1>14. CASE Pipe!PopenMain
  <2>1. CASE \/ /\ Pipe!Go("parent", "read") /\ Pipe!CloseWrite("parent", "ctop")
                /\ UNCHANGED <<pi_pipe, pi_rd, pi_msg>>
             \/ /\ Pipe!Go("parent", "write") /\ Pipe!CloseRead("parent", "ptoc")
                /\ UNCHANGED <<pi_pipe, pi_wr, pi_msg>>
    BY <1>0, <1>p, <1>g, <1>14, <2>1, CloseFacts DEF Pipe!PipesTyped, Pipe!PopenMain,
      Pipe!Places
  <2>2. CASE /\ \/ Pipe!Received("ctop", Len(pi_pipe["ctop"]))
                \/ Pipe!EOF("ctop") /\ UNCHANGED pi_pipe
             /\ Pipe!Go("parent", "fork") /\ UNCHANGED <<pi_rd, pi_wr, pi_msg>>
    BY <1>0, <1>p, <1>g, <1>14, <2>2, ReceivedFacts DEF Pipe!PipesTyped, Pipe!PopenMain
  <2>3. CASE Pipe!Write("parent", "ptoc", "write") /\ pi_out' = pi_out
    BY <1>0, <1>p, <1>14, <2>3, WriteFacts DEF Pipe!PipesTyped, Pipe!PopenMain
  <2>4. CASE Pipe!Ends("parent") /\ UNCHANGED <<pi_pipe, pi_msg>>
    BY <1>0, <1>p, <1>g, <1>14, <2>4, EndsFacts DEF Pipe!PipesTyped, Pipe!PopenMain,
      Pipe!Ends, Pipe!Places
  <2> QED BY <1>14, <2>1, <2>2, <2>3, <2>4 DEF Pipe!PopenMain
<1>15. CASE Pipe!OpenNonblock
  <2>1. /\ pi_rd' \in [Pipe!PipeNames -> SUBSET Pipe!Holders]
        /\ pi_wr' \in [Pipe!PipeNames -> SUBSET Pipe!Holders]
    <3>1. PICK x \in SUBSET {"main_fd", "dummy_fd"}, y \in SUBSET {"main_fd", "dummy_fd"} :
            \/ pi_rd' = pi_rd /\ pi_wr' = pi_wr
            \/ /\ pi_rd' = [pi_rd EXCEPT !["ptoc"] = x]
               /\ pi_wr' = [pi_wr EXCEPT !["ptoc"] = y]
      <4>1. CASE pi_rd' = pi_rd /\ pi_wr' = pi_wr
        BY <4>1
      <4>2. CASE ~(pi_rd' = pi_rd /\ pi_wr' = pi_wr)
        <5>1. PICK mode \in {"r", "w"}, o \in BOOLEAN :
                /\ pi_rd' = [pi_rd EXCEPT !["ptoc"] =
                     (IF mode = "r" THEN {"main_fd"} ELSE {})
                       \union (IF o THEN {"dummy_fd"} ELSE {})]
                /\ pi_wr' = [pi_wr EXCEPT !["ptoc"] =
                     (IF mode = "w" THEN {"main_fd"} ELSE {})
                       \union (IF o /\ mode = "r" THEN {"dummy_fd"} ELSE {})]
          BY <1>15, <4>2 DEF Pipe!OpenNonblock
        <5> QED BY <5>1
      <4> QED BY <4>1, <4>2
    <3> QED BY <1>0, <3>1 DEF Pipe!Holders
  <2>2. pi_pc' \in [Pipe!Procs -> Pipe!Places]
    BY <1>0, <1>p, <1>g, <1>15 DEF Pipe!OpenNonblock, Pipe!Places
  <2> QED BY <1>0, <1>15, <2>1, <2>2 DEF Pipe!PipesTyped, Pipe!OpenNonblock
<1>16. CASE Pipe!KeepOther
  BY <1>0, <1>p, <1>g, <1>16, CloseFacts DEF Pipe!PipesTyped, Pipe!KeepOther, Pipe!Places
<1>17. CASE Pipe!FillPipe
  <2>1. PICK n \in 0..PipeSize : pi_pipe' = [pi_pipe EXCEPT !["ptoc"] = [i \in 1..n |-> 1]]
    BY <1>17 DEF Pipe!FillPipe
  <2>2. [i \in 1..n |-> 1] \in Seq(Pipe!Values)
    BY PipesAssumption, SMT DEF Pipe!Values
  <2> QED BY <1>0, <1>p, <1>g, <1>17, <2>1, <2>2 DEF Pipe!PipesTyped, Pipe!FillPipe,
    Pipe!Places
<1>18. CASE Pipe!Attempt
  BY <1>0, <1>p, <1>g, <1>18 DEF Pipe!PipesTyped, Pipe!Attempt, Pipe!Places
<1>19. CASE UNCHANGED Pipe!vars
  BY <1>0, <1>19 DEF Pipe!vars, Pipe!PipesTyped
<1> QED BY <1>1, <1>2, <1>3, <1>4, <1>5, <1>6, <1>7, <1>8, <1>9, <1>10, <1>11, <1>12,
  <1>13, <1>14, <1>15, <1>16, <1>17, <1>18, <1>19 DEF Pipe!Next, Pipe!ParentStep,
  Pipe!ChildStep, Pipe!OtherStep

-----------------------------------------------------------------------------
\* simple_pipe.c: both close an end, the child reads until the parent has closed its own.
LEMMA SimpleSteps ==
  ASSUME Pipe!PipesTyped, Pipe!SimpleInv, pi_tool = "simple_pipe", Pipe!Next
  PROVE  Pipe!SimpleInv' /\ pi_tool' = pi_tool
<1> USE DEF Pipe!SimpleInv
<1>0. /\ pi_pc \in [Pipe!Procs -> Pipe!Places] /\ "parent" \in Pipe!Procs
      /\ "child" \in Pipe!Procs /\ "other" \in Pipe!Procs
      /\ pi_pipe["ptoc"] \in Seq(Pipe!Values) /\ pi_msg \in Seq(Pipe!Values)
      /\ "ptoc" \in Pipe!PipeNames
      /\ pi_pipe \in [Pipe!PipeNames -> Seq(Pipe!Values)]
      /\ pi_rd \in [Pipe!PipeNames -> SUBSET Pipe!Holders]
      /\ pi_wr \in [Pipe!PipeNames -> SUBSET Pipe!Holders]
      /\ "parent" \in Pipe!Holders /\ "child" \in Pipe!Holders
  BY DEF Pipe!PipesTyped, Pipe!Procs, Pipe!PipeNames, Pipe!Holders
<1>1. CASE Pipe!Fork("child", "close")
  <2>1. "ptoc" \in Pipe!Made("child") /\ "close" \in Pipe!Places
    BY DEF Pipe!Made, Pipe!PipeNames, Pipe!Places
  <2>2. /\ pi_pc["parent"] = "fork" /\ pi_pc["child"] = "none"
        /\ pi_pc' = [pi_pc EXCEPT !["child"] = "start", !["parent"] = "close"]
        /\ UNCHANGED <<pi_tool, pi_pipe, pi_msg, pi_out>>
        /\ pi_rd'["ptoc"] = {"parent", "child"} /\ pi_wr'["ptoc"] = {"parent", "child"}
    BY <1>1, <2>1, ForkFacts
  <2>3. Pipe!Flow'
    BY <2>2, FlowKept
  <2> QED BY <1>0, <2>2, <2>3
<1>2. CASE Pipe!WaitChildren
  <2>1. /\ pi_pc["parent"] = "wait" /\ pi_pc["child"] \in {"none", "exited"}
        /\ Pipe!Ends("parent")
        /\ UNCHANGED <<pi_tool, pi_pipe, pi_msg, pi_out>>
    BY <1>0, <1>2 DEF Pipe!WaitChildren, Pipe!Procs
  <2>2. Pipe!Flow'
    BY <2>1, FlowKept
  <2>3. /\ pi_pc'["parent"] = "exited" /\ pi_pc'["child"] = pi_pc["child"]
        /\ pi_pc'["other"] = pi_pc["other"]
        /\ pi_pipe' = pi_pipe /\ pi_msg' = pi_msg
    BY <2>1, EndsFacts, <1>0 DEF Pipe!Procs
  <2> QED BY <2>1, <2>2, <2>3
<1>3. CASE Pipe!SimpleParent
  <2>1. CASE /\ pi_pc["parent"] = "close" /\ Pipe!Go("parent", "write")
             /\ Pipe!CloseRead("parent", "ptoc") /\ UNCHANGED <<pi_pipe, pi_wr, pi_msg>>
    <3>1. /\ pi_pc' = [pi_pc EXCEPT !["parent"] = "write"]
          /\ UNCHANGED <<pi_tool, pi_pipe, pi_wr, pi_msg, pi_out>>
      BY <1>3, <2>1 DEF Pipe!SimpleParent, Pipe!Go
    <3>2. Pipe!Flow'
      BY <3>1, FlowKept
    <3>3. "child" \in pi_rd["ptoc"] => "child" \in pi_rd'["ptoc"]
      BY <1>0, <2>1, CloseFacts
    <3> QED BY <1>0, <2>1, <3>1, <3>2, <3>3
  <2>2. CASE /\ pi_pc["parent"] = "write" /\ pi_msg # <<>>
             /\ Pipe!Write("parent", "ptoc", "write")
    <3>1. /\ pi_rd["ptoc"] # {} /\ pi_tool' = pi_tool /\ pi_out' = pi_out
          /\ "write" \in Pipe!Places
      BY <1>0, <1>3, <2>2 DEF Pipe!SimpleParent, Pipe!Places
    <3>2. /\ Pipe!Sends /\ UNCHANGED <<pi_rd, pi_wr>>
          /\ pi_pc' = [pi_pc EXCEPT !["parent"] = "write"]
      BY <1>0, <2>2, <3>1, WriteFacts
    <3>3. Pipe!Flow'
      BY <3>2, FlowKept
    <3> QED BY <1>0, <2>2, <3>1, <3>2, <3>3
  <2>3. CASE /\ pi_pc["parent"] = "write" /\ pi_msg = <<>> /\ Pipe!Go("parent", "wait")
             /\ Pipe!CloseWrite("parent", "ptoc") /\ UNCHANGED <<pi_pipe, pi_rd, pi_msg>>
    <3>1. /\ pi_pc' = [pi_pc EXCEPT !["parent"] = "wait"]
          /\ UNCHANGED <<pi_tool, pi_pipe, pi_rd, pi_msg, pi_out>>
      BY <1>3, <2>3 DEF Pipe!SimpleParent, Pipe!Go
    <3>2. Pipe!Flow'
      BY <3>1, FlowKept
    <3> QED BY <1>0, <2>3, <3>1, <3>2
  <2> QED BY <1>3, <2>1, <2>2, <2>3 DEF Pipe!SimpleParent
<1>4. CASE Pipe!SimpleChild
  <2>1. CASE /\ pi_pc["child"] = "start" /\ Pipe!Go("child", "read")
             /\ Pipe!CloseWrite("child", "ptoc") /\ UNCHANGED <<pi_pipe, pi_rd, pi_out>>
    <3>1. /\ pi_pc' = [pi_pc EXCEPT !["child"] = "read"]
          /\ UNCHANGED <<pi_tool, pi_pipe, pi_rd, pi_msg, pi_out>>
      BY <1>4, <2>1 DEF Pipe!SimpleChild, Pipe!Go
    <3>2. Pipe!Flow'
      BY <3>1, FlowKept
    <3>3. "parent" \in pi_wr["ptoc"] => "parent" \in pi_wr'["ptoc"]
      BY <1>0, <2>1, CloseFacts
    <3> QED BY <1>0, <2>1, <3>1, <3>2, <3>3
  <2>2. CASE /\ pi_pc["child"] = "read"
             /\ \E n \in 1..BufSize :
                  /\ Pipe!Received("ptoc", n)
                  /\ pi_out' = pi_out \o SubSeq(pi_pipe["ptoc"], 1, n)
             /\ UNCHANGED <<pi_rd, pi_wr, pi_pc>>
    <3>1. Pipe!Takes /\ pi_tool' = pi_tool
      BY <1>4, <2>2 DEF Pipe!SimpleChild, Pipe!Received, Pipe!Takes
    <3>2. Pipe!Flow'
      BY <3>1, FlowKept
    <3> QED BY <2>2, <3>1, <3>2 DEF Pipe!Takes
  <2>3. CASE /\ pi_pc["child"] = "read" /\ Pipe!EOF("ptoc") /\ Pipe!Ends("child")
             /\ UNCHANGED <<pi_pipe, pi_out>>
    <3>1. /\ pi_tool' = pi_tool /\ pi_msg' = pi_msg /\ pi_pipe' = pi_pipe
          /\ pi_pipe["ptoc"] = <<>> /\ pi_wr["ptoc"] = {}
      BY <1>4, <2>3 DEF Pipe!SimpleChild, Pipe!EOF
    <3>2. Pipe!Flow'
      BY <2>3, <3>1, FlowKept
    <3>3. /\ pi_pc'["child"] = "exited" /\ pi_pc'["parent"] = pi_pc["parent"]
          /\ pi_pc'["other"] = pi_pc["other"]
      BY <1>0, <2>3, EndsFacts DEF Pipe!Procs
    <3>4. pi_pc["parent"] \in {"wait", "exited"}
      BY <2>3, <3>1
    <3> QED BY <3>1, <3>2, <3>3, <3>4
  <2> QED BY <1>4, <2>1, <2>2, <2>3 DEF Pipe!SimpleChild
<1> QED BY <1>1, <1>2, <1>3, <1>4 DEF Pipe!Next, Pipe!ParentStep, Pipe!ChildStep,
  Pipe!OtherStep, Pipe!Fork, Pipe!BidirParent, Pipe!HookupParent, Pipe!SyncParent,
  Pipe!PopenMain, Pipe!OpenNonblock, Pipe!KeepOther, Pipe!FillPipe, Pipe!Attempt,
  Pipe!BidirChild, Pipe!HookupChildren, Pipe!SyncChild, Pipe!PopenImp, Pipe!Ls, Pipe!Tee

\* shell_hookup_process.c: the parent keeps both ends until both children have theirs.
LEMMA HookupSteps ==
  ASSUME Pipe!PipesTyped, Pipe!HookupInv, pi_tool = "shell_hookup", Pipe!Next
  PROVE  Pipe!HookupInv' /\ pi_tool' = pi_tool
<1> USE DEF Pipe!HookupInv
<1>0. /\ pi_pc \in [Pipe!Procs -> Pipe!Places] /\ "parent" \in Pipe!Procs
      /\ "child" \in Pipe!Procs /\ "other" \in Pipe!Procs
      /\ pi_pipe["ptoc"] \in Seq(Pipe!Values) /\ pi_msg \in Seq(Pipe!Values)
      /\ "ptoc" \in Pipe!PipeNames
      /\ pi_pipe \in [Pipe!PipeNames -> Seq(Pipe!Values)]
      /\ pi_rd \in [Pipe!PipeNames -> SUBSET Pipe!Holders]
      /\ pi_wr \in [Pipe!PipeNames -> SUBSET Pipe!Holders]
      /\ "parent" \in Pipe!Holders /\ "child" \in Pipe!Holders /\ "other" \in Pipe!Holders
      /\ {"fork", "close", "wait", "write", "read", "start", "exited"} \subseteq Pipe!Places
  BY DEF Pipe!PipesTyped, Pipe!Procs, Pipe!PipeNames, Pipe!Holders, Pipe!Places
<1>1. CASE Pipe!Fork("child", "fork")
  <2>1. "ptoc" \in Pipe!Made("child")
    BY DEF Pipe!Made, Pipe!PipeNames
  <2>2. /\ pi_pc["parent"] = "fork" /\ pi_pc["child"] = "none"
        /\ pi_pc' = [pi_pc EXCEPT !["child"] = "start", !["parent"] = "fork"]
        /\ UNCHANGED <<pi_tool, pi_pipe, pi_msg, pi_out>>
        /\ pi_rd'["ptoc"] = {"parent", "child"} /\ pi_wr'["ptoc"] = {"parent", "child"}
    BY <1>0, <1>1, <2>1, ForkFacts
  <2>3. Pipe!Flow'
    BY <2>2, FlowKept
  <2> QED BY <1>0, <2>2, <2>3
<1>2. CASE Pipe!Fork("other", "close")
  <2>1. "ptoc" \notin Pipe!Made("other")
    BY DEF Pipe!Made, Pipe!PipeNames
  <2>2. /\ pi_pc["parent"] = "fork" /\ pi_pc["other"] = "none" /\ pi_pc["child"] # "none"
        /\ pi_pc' = [pi_pc EXCEPT !["other"] = "start", !["parent"] = "close"]
        /\ UNCHANGED <<pi_tool, pi_pipe, pi_msg, pi_out>>
    BY <1>0, <1>2, <2>1, ForkFacts
  <2>3. /\ pi_rd'["ptoc"] = pi_rd["ptoc"] \cup {"other"}
        /\ pi_wr'["ptoc"] = pi_wr["ptoc"] \cup {"other"}
    BY <1>0, <1>2, <2>1, <2>2, ForkFacts
  <2>4. Pipe!Flow'
    BY <2>2, FlowKept
  <2> QED BY <1>0, <2>2, <2>3, <2>4
<1>3. CASE Pipe!WaitChildren
  <2>1. /\ pi_pc["parent"] = "wait" /\ pi_pc["child"] \in {"none", "exited"}
        /\ pi_pc["other"] \in {"none", "exited"} /\ Pipe!Ends("parent")
        /\ UNCHANGED <<pi_tool, pi_pipe, pi_msg, pi_out>>
    BY <1>0, <1>3 DEF Pipe!WaitChildren, Pipe!Procs
  <2>2. Pipe!Flow'
    BY <2>1, FlowKept
  <2>3. /\ pi_pc'["parent"] = "exited" /\ pi_pc'["child"] = pi_pc["child"]
        /\ pi_pc'["other"] = pi_pc["other"]
    BY <2>1, EndsFacts, <1>0 DEF Pipe!Procs
  <2> QED BY <2>1, <2>2, <2>3
<1>4. CASE Pipe!HookupParent
  <2>1. /\ pi_pc["parent"] = "close" /\ pi_pc' = [pi_pc EXCEPT !["parent"] = "wait"]
        /\ Pipe!CloseRead("parent", "ptoc") /\ Pipe!CloseWrite("parent", "ptoc")
        /\ UNCHANGED <<pi_tool, pi_pipe, pi_msg, pi_out>>
    BY <1>4 DEF Pipe!HookupParent, Pipe!Go
  <2>2. Pipe!Flow'
    BY <2>1, FlowKept
  <2>3. /\ "child" \in pi_wr["ptoc"] => "child" \in pi_wr'["ptoc"]
        /\ "other" \in pi_rd["ptoc"] => "other" \in pi_rd'["ptoc"]
    BY <1>0, <2>1, CloseFacts
  <2> QED BY <1>0, <2>1, <2>2, <2>3
<1>5. CASE Pipe!HookupChildren
  <2>1. CASE /\ pi_pc["child"] = "start" /\ Pipe!Go("child", "write")
             /\ Pipe!CloseRead("child", "ptoc")
             /\ UNCHANGED <<pi_pipe, pi_wr, pi_msg, pi_out>>
    <3>1. /\ pi_pc' = [pi_pc EXCEPT !["child"] = "write"]
          /\ UNCHANGED <<pi_tool, pi_pipe, pi_wr, pi_msg, pi_out>>
      BY <1>5, <2>1 DEF Pipe!HookupChildren, Pipe!Go
    <3>2. Pipe!Flow'
      BY <3>1, FlowKept
    <3>3. /\ "parent" \in pi_rd["ptoc"] => "parent" \in pi_rd'["ptoc"]
          /\ "other" \in pi_rd["ptoc"] => "other" \in pi_rd'["ptoc"]
      BY <1>0, <2>1, CloseFacts
    <3> QED BY <1>0, <2>1, <3>1, <3>2, <3>3
  <2>2. CASE /\ pi_pc["child"] = "write" /\ pi_msg # <<>>
             /\ Pipe!Write("child", "ptoc", "write")
             /\ UNCHANGED pi_out
    <3>1. pi_rd["ptoc"] # {} /\ pi_tool' = pi_tool /\ pi_out' = pi_out
      BY <1>0, <1>5, <2>2 DEF Pipe!HookupChildren
    <3>2. /\ Pipe!Sends /\ UNCHANGED <<pi_rd, pi_wr>>
          /\ pi_pc' = [pi_pc EXCEPT !["child"] = "write"]
      BY <1>0, <2>2, <3>1, WriteFacts
    <3>3. Pipe!Flow'
      BY <3>2, FlowKept
    <3> QED BY <1>0, <2>2, <3>1, <3>2, <3>3
  <2>3. CASE /\ pi_pc["child"] = "write" /\ pi_msg = <<>> /\ Pipe!Ends("child")
             /\ UNCHANGED <<pi_pipe, pi_msg, pi_out>>
    <3>1. pi_tool' = pi_tool /\ pi_msg' = <<>> /\ UNCHANGED <<pi_pipe, pi_msg, pi_out>>
      BY <1>5, <2>3 DEF Pipe!HookupChildren
    <3>2. Pipe!Flow'
      BY <3>1, FlowKept
    <3>3. /\ pi_pc'["child"] = "exited" /\ pi_pc'["parent"] = pi_pc["parent"]
          /\ pi_pc'["other"] = pi_pc["other"]
          /\ "parent" \in pi_rd["ptoc"] => "parent" \in pi_rd'["ptoc"]
          /\ "parent" \in pi_wr["ptoc"] => "parent" \in pi_wr'["ptoc"]
          /\ "other" \in pi_rd["ptoc"] => "other" \in pi_rd'["ptoc"]
      BY <1>0, <2>3, EndsFacts DEF Pipe!Procs
    <3> QED BY <2>3, <3>1, <3>2, <3>3
  <2>4. CASE /\ pi_pc["other"] = "start" /\ Pipe!Go("other", "read")
             /\ Pipe!CloseWrite("other", "ptoc")
             /\ UNCHANGED <<pi_pipe, pi_rd, pi_msg, pi_out>>
    <3>1. /\ pi_pc' = [pi_pc EXCEPT !["other"] = "read"]
          /\ UNCHANGED <<pi_tool, pi_pipe, pi_rd, pi_msg, pi_out>>
      BY <1>5, <2>4 DEF Pipe!HookupChildren, Pipe!Go
    <3>2. Pipe!Flow'
      BY <3>1, FlowKept
    <3>3. /\ "parent" \in pi_wr["ptoc"] => "parent" \in pi_wr'["ptoc"]
          /\ "child" \in pi_wr["ptoc"] => "child" \in pi_wr'["ptoc"]
      BY <1>0, <2>4, CloseFacts
    <3> QED BY <1>0, <2>4, <3>1, <3>2, <3>3
  <2>5. CASE /\ pi_pc["other"] = "read" /\ Pipe!Received("ptoc", 1)
             /\ pi_out' = Append(pi_out, Head(pi_pipe["ptoc"]))
             /\ UNCHANGED <<pi_rd, pi_wr, pi_pc, pi_msg>>
    <3>1. pi_pipe["ptoc"] # <<>> /\ pi_tool' = pi_tool
      BY <1>0, <1>5, <2>5, ReceivedFacts DEF Pipe!HookupChildren
    <3>2. /\ Append(pi_out, Head(pi_pipe["ptoc"])) = pi_out \o SubSeq(pi_pipe["ptoc"], 1, 1)
          /\ 1 \in 1..Len(pi_pipe["ptoc"])
      BY <1>0, <3>1, ReadOne DEF Pipe!Flow
    <3>3. Pipe!Takes
      BY <2>5, <3>2 DEF Pipe!Received, Pipe!Takes
    <3>4. Pipe!Flow'
      BY <3>3, FlowKept
    <3> QED BY <2>5, <3>1, <3>4
  <2>6. CASE /\ pi_pc["other"] = "read" /\ Pipe!EOF("ptoc") /\ Pipe!Ends("other")
             /\ UNCHANGED <<pi_pipe, pi_msg, pi_out>>
    <3>1. /\ pi_tool' = pi_tool /\ UNCHANGED <<pi_pipe, pi_msg, pi_out>>
          /\ pi_pipe["ptoc"] = <<>> /\ pi_wr["ptoc"] = {}
      BY <1>5, <2>6 DEF Pipe!HookupChildren, Pipe!EOF
    <3>2. Pipe!Flow'
      BY <3>1, FlowKept
    <3>3. /\ pi_pc'["other"] = "exited" /\ pi_pc'["parent"] = pi_pc["parent"]
          /\ pi_pc'["child"] = pi_pc["child"]
          /\ "parent" \in pi_rd["ptoc"] => "parent" \in pi_rd'["ptoc"]
          /\ "parent" \in pi_wr["ptoc"] => "parent" \in pi_wr'["ptoc"]
          /\ "child" \in pi_wr["ptoc"] => "child" \in pi_wr'["ptoc"]
      BY <1>0, <2>6, EndsFacts DEF Pipe!Procs
    <3>4. pi_pc["child"] = "exited"
      BY <2>6, <3>1
    <3> QED BY <2>6, <3>1, <3>2, <3>3, <3>4
  <2> QED BY <1>5, <2>1, <2>2, <2>3, <2>4, <2>5, <2>6 DEF Pipe!HookupChildren
<1> QED BY <1>1, <1>2, <1>3, <1>4, <1>5 DEF Pipe!Next, Pipe!ParentStep, Pipe!ChildStep,
  Pipe!OtherStep, Pipe!SimpleParent, Pipe!SimpleChild, Pipe!BidirParent, Pipe!SyncParent,
  Pipe!PopenMain, Pipe!OpenNonblock, Pipe!KeepOther, Pipe!FillPipe, Pipe!Attempt,
  Pipe!BidirChild, Pipe!SyncChild, Pipe!PopenImp, Pipe!Ls, Pipe!Tee

\* popen_close_imp.c: tee reads until the parent has closed its end.
LEMMA PopenSteps ==
  ASSUME Pipe!PipesTyped, Pipe!PopenInv, pi_tool = "popen", Pipe!Next
  PROVE  Pipe!PopenInv' /\ pi_tool' = pi_tool
<1> USE DEF Pipe!PopenInv
<1>0. /\ pi_pc \in [Pipe!Procs -> Pipe!Places] /\ "parent" \in Pipe!Procs
      /\ "child" \in Pipe!Procs /\ "other" \in Pipe!Procs
      /\ pi_pipe["ptoc"] \in Seq(Pipe!Values) /\ pi_msg \in Seq(Pipe!Values)
      /\ "ptoc" \in Pipe!PipeNames /\ "ctop" \in Pipe!PipeNames /\ "ptoc" # "ctop"
      /\ pi_pipe \in [Pipe!PipeNames -> Seq(Pipe!Values)]
      /\ pi_rd \in [Pipe!PipeNames -> SUBSET Pipe!Holders]
      /\ pi_wr \in [Pipe!PipeNames -> SUBSET Pipe!Holders]
      /\ "parent" \in Pipe!Holders /\ "child" \in Pipe!Holders /\ "other" \in Pipe!Holders
      /\ {"fork", "close", "run", "write", "read", "start", "exited"} \subseteq Pipe!Places
  BY DEF Pipe!PipesTyped, Pipe!Procs, Pipe!PipeNames, Pipe!Holders, Pipe!Places
\* A step of ls, or one that only moves on.
<1>q. ASSUME pi_pipe'["ptoc"] = pi_pipe["ptoc"], UNCHANGED <<pi_tool, pi_msg, pi_out>>,
             \A p \in {"parent", "other"} : /\ p \in pi_rd["ptoc"] => p \in pi_rd'["ptoc"]
                                            /\ p \in pi_wr["ptoc"] => p \in pi_wr'["ptoc"],
             pi_pc'["other"] = pi_pc["other"], pi_pc'["parent"] = pi_pc["parent"]
      PROVE  Pipe!PopenInv'
  <2>1. Pipe!Flow'
    BY <1>q, FlowKept
  <2> QED BY <1>q, <2>1
<1>1. CASE Pipe!Fork("child", "close")
  <2>1. /\ pi_pc["parent"] = "fork" /\ pi_pc["child"] = "none"
        /\ pi_pc' = [pi_pc EXCEPT !["child"] = "start", !["parent"] = "close"]
        /\ UNCHANGED <<pi_tool, pi_pipe, pi_msg, pi_out>>
    BY <1>0, <1>1, ForkFacts
  <2>2. Pipe!Flow'
    BY <2>1, FlowKept
  <2> QED BY <1>0, <2>1, <2>2
<1>2. CASE Pipe!Fork("other", "close")
  <2>1. "ptoc" \in Pipe!Made("other")
    BY DEF Pipe!Made, Pipe!PipeNames
  <2>2. /\ pi_pc["parent"] = "fork" /\ pi_pc["other"] = "none"
        /\ pi_pc' = [pi_pc EXCEPT !["other"] = "start", !["parent"] = "close"]
        /\ UNCHANGED <<pi_tool, pi_pipe, pi_msg, pi_out>>
        /\ pi_rd'["ptoc"] = {"parent", "other"} /\ pi_wr'["ptoc"] = {"parent", "other"}
    BY <1>0, <1>2, <2>1, ForkFacts
  <2>3. Pipe!Flow'
    BY <2>2, FlowKept
  <2> QED BY <1>0, <2>2, <2>3
<1>3. CASE Pipe!PopenImp("child")
  <2>1. /\ pi_pc["child"] = "start" /\ pi_pc' = [pi_pc EXCEPT !["child"] = "run"]
        /\ Pipe!CloseRead("child", "ctop")
        /\ UNCHANGED <<pi_tool, pi_pipe, pi_msg, pi_out, pi_wr>>
    BY <1>3 DEF Pipe!PopenImp, Pipe!Go
  <2>2. \A h \in {"parent", "other"} : h \in pi_rd["ptoc"] => h \in pi_rd'["ptoc"]
    BY <1>0, <2>1, CloseFacts
  <2> QED BY <1>0, <1>q, <2>1, <2>2
<1>4. CASE Pipe!PopenImp("other")
  <2>1. /\ pi_pc["other"] = "start" /\ pi_pc' = [pi_pc EXCEPT !["other"] = "run"]
        /\ Pipe!CloseWrite("other", "ptoc")
        /\ UNCHANGED <<pi_tool, pi_pipe, pi_msg, pi_out, pi_rd>>
    BY <1>4 DEF Pipe!PopenImp, Pipe!Go
  <2>2. "parent" \in pi_wr["ptoc"] => "parent" \in pi_wr'["ptoc"]
    BY <1>0, <2>1, CloseFacts
  <2>3. Pipe!Flow'
    BY <2>1, FlowKept
  <2> QED BY <1>0, <2>1, <2>2, <2>3
<1>5. CASE Pipe!Ls
  <2>1. CASE Pipe!Ends("child") /\ UNCHANGED <<pi_pipe, pi_answer>>
    <3>1. UNCHANGED <<pi_tool, pi_msg, pi_out>>
      BY <1>5 DEF Pipe!Ls
    <3>2. /\ pi_pc'["parent"] = pi_pc["parent"] /\ pi_pc'["other"] = pi_pc["other"]
          /\ \A h \in {"parent", "other"} : /\ h \in pi_rd["ptoc"] => h \in pi_rd'["ptoc"]
                                            /\ h \in pi_wr["ptoc"] => h \in pi_wr'["ptoc"]
      BY <1>0, <2>1, EndsFacts DEF Pipe!Procs
    <3> QED BY <1>q, <2>1, <3>1, <3>2
  <2>2. CASE /\ pi_pipe' = [pi_pipe EXCEPT !["ctop"] = Append(@, 0)]
             /\ UNCHANGED <<pi_rd, pi_wr, pi_pc>>
    <3>1. UNCHANGED <<pi_tool, pi_msg, pi_out>> /\ pi_pipe'["ptoc"] = pi_pipe["ptoc"]
      BY <1>0, <1>5, <2>2 DEF Pipe!Ls
    <3> QED BY <1>q, <2>2, <3>1
  <2> QED BY <1>5, <2>1, <2>2 DEF Pipe!Ls
<1>6. CASE Pipe!Tee
  <2>1. CASE /\ Pipe!Received("ptoc", 1) /\ pi_out' = Append(pi_out, Head(pi_pipe["ptoc"]))
             /\ UNCHANGED <<pi_rd, pi_wr, pi_pc>>
    <3>1. /\ pi_pipe["ptoc"] # <<>> /\ pi_tool' = pi_tool /\ pi_msg' = pi_msg
          /\ pi_pc["other"] = "run"
      BY <1>0, <1>6, <2>1, ReceivedFacts DEF Pipe!Tee
    <3>2. /\ Append(pi_out, Head(pi_pipe["ptoc"])) = pi_out \o SubSeq(pi_pipe["ptoc"], 1, 1)
          /\ 1 \in 1..Len(pi_pipe["ptoc"])
      BY <1>0, <3>1, ReadOne DEF Pipe!Flow
    <3>3. Pipe!Takes
      BY <2>1, <3>1, <3>2 DEF Pipe!Received, Pipe!Takes
    <3>4. Pipe!Flow'
      BY <3>3, FlowKept
    <3> QED BY <2>1, <3>1, <3>4
  <2>2. CASE Pipe!EOF("ptoc") /\ Pipe!Ends("other") /\ UNCHANGED <<pi_pipe, pi_out>>
    <3>1. /\ UNCHANGED <<pi_tool, pi_pipe, pi_msg, pi_out>> /\ pi_pipe["ptoc"] = <<>>
          /\ pi_wr["ptoc"] = {}
          /\ pi_pc["other"] = "run"
      BY <1>6, <2>2 DEF Pipe!Tee, Pipe!EOF
    <3>2. Pipe!Flow'
      BY <3>1, FlowKept
    <3>3. pi_pc'["other"] = "exited" /\ pi_pc'["parent"] = pi_pc["parent"]
      BY <1>0, <2>2, EndsFacts DEF Pipe!Procs
    <3>4. pi_pc["parent"] = "exited"
      BY <3>1
    <3> QED BY <3>1, <3>2, <3>3, <3>4
  <2> QED BY <1>6, <2>1, <2>2 DEF Pipe!Tee
<1>7. CASE Pipe!PopenMain
  <2>1. CASE /\ pi_pc["parent"] = "close" /\ pi_pc["other"] = "none"
             /\ Pipe!Go("parent", "read")
             /\ Pipe!CloseWrite("parent", "ctop") /\ UNCHANGED <<pi_pipe, pi_rd, pi_msg>>
    <3>1. /\ pi_pc' = [pi_pc EXCEPT !["parent"] = "read"]
          /\ UNCHANGED <<pi_tool, pi_pipe, pi_msg, pi_out>>
      BY <1>7, <2>1 DEF Pipe!PopenMain, Pipe!Go
    <3>2. Pipe!Flow'
      BY <3>1, FlowKept
    <3> QED BY <1>0, <2>1, <3>1, <3>2
  <2>2. CASE /\ pi_pc["parent"] = "read"
             /\ \/ Pipe!Received("ctop", Len(pi_pipe["ctop"]))
                \/ Pipe!EOF("ctop") /\ UNCHANGED pi_pipe
             /\ Pipe!Go("parent", "fork") /\ UNCHANGED <<pi_rd, pi_wr, pi_msg>>
    <3>1. /\ pi_pc' = [pi_pc EXCEPT !["parent"] = "fork"]
          /\ UNCHANGED <<pi_tool, pi_msg, pi_out>>
      BY <1>7, <2>2 DEF Pipe!PopenMain, Pipe!Go
    <3>2. pi_pipe'["ptoc"] = pi_pipe["ptoc"]
      BY <1>0, <2>2, ReceivedFacts
    <3>3. Pipe!Flow'
      BY <3>1, <3>2, FlowKept
    <3> QED BY <1>0, <2>2, <3>1, <3>2, <3>3
  <2>3. CASE /\ pi_pc["parent"] = "close" /\ pi_pc["other"] # "none"
             /\ Pipe!Go("parent", "write")
             /\ Pipe!CloseRead("parent", "ptoc") /\ UNCHANGED <<pi_pipe, pi_wr, pi_msg>>
    <3>1. /\ pi_pc' = [pi_pc EXCEPT !["parent"] = "write"]
          /\ UNCHANGED <<pi_tool, pi_pipe, pi_wr, pi_msg, pi_out>>
      BY <1>7, <2>3 DEF Pipe!PopenMain, Pipe!Go
    <3>2. Pipe!Flow'
      BY <3>1, FlowKept
    <3>3. "other" \in pi_rd["ptoc"] => "other" \in pi_rd'["ptoc"]
      BY <1>0, <2>3, CloseFacts
    <3> QED BY <1>0, <2>3, <3>1, <3>2, <3>3
  <2>4. CASE /\ pi_pc["parent"] = "write" /\ pi_msg # <<>>
             /\ Pipe!Write("parent", "ptoc", "write")
    <3>1. pi_rd["ptoc"] # {} /\ pi_tool' = pi_tool /\ pi_out' = pi_out
      BY <1>0, <1>7, <2>4 DEF Pipe!PopenMain
    <3>2. /\ Pipe!Sends /\ UNCHANGED <<pi_rd, pi_wr>>
          /\ pi_pc' = [pi_pc EXCEPT !["parent"] = "write"]
      BY <1>0, <2>4, <3>1, WriteFacts
    <3>3. Pipe!Flow'
      BY <3>2, FlowKept
    <3> QED BY <1>0, <2>4, <3>1, <3>2, <3>3
  <2>5. CASE /\ pi_pc["parent"] = "write" /\ pi_msg = <<>> /\ Pipe!Ends("parent")
             /\ UNCHANGED <<pi_pipe, pi_msg>>
    <3>1. UNCHANGED <<pi_tool, pi_pipe, pi_msg, pi_out>>
      BY <1>7, <2>5 DEF Pipe!PopenMain
    <3>2. Pipe!Flow'
      BY <3>1, FlowKept
    <3>3. /\ pi_pc'["parent"] = "exited" /\ pi_pc'["other"] = pi_pc["other"]
          /\ "other" \in pi_rd["ptoc"] => "other" \in pi_rd'["ptoc"]
      BY <1>0, <2>5, EndsFacts DEF Pipe!Procs
    <3> QED BY <2>5, <3>1, <3>2, <3>3
  <2> QED BY <1>7, <2>1, <2>2, <2>3, <2>4, <2>5 DEF Pipe!PopenMain
<1>8. ~Pipe!WaitChildren
  BY DEF Pipe!WaitChildren
<1> QED BY <1>1, <1>2, <1>3, <1>4, <1>5, <1>6, <1>7, <1>8 DEF Pipe!Next, Pipe!ParentStep,
  Pipe!ChildStep, Pipe!OtherStep, Pipe!SimpleParent, Pipe!SimpleChild, Pipe!BidirParent,
  Pipe!SyncParent, Pipe!HookupParent, Pipe!HookupChildren, Pipe!OpenNonblock,
  Pipe!KeepOther, Pipe!FillPipe, Pipe!Attempt, Pipe!BidirChild, Pipe!SyncChild

\* The lines that are left are the last of the message, one fewer after each is sent.
LEMMA LineSent ==
  ASSUME pi_msg \in Seq(Pipe!Values), pi_msg # <<>>, Message \in Seq(Pipe!Values),
         Len(pi_msg) <= Len(Message),
         \A i \in 1..Len(pi_msg) : pi_msg[i] = Message[Pipe!Sent + i],
         pi_msg' = Tail(pi_msg)
  PROVE  /\ Pipe!Sent \in Nat /\ Pipe!Sent' = Pipe!Sent + 1 /\ Len(pi_msg') <= Len(Message)
         /\ \A i \in 1..Len(pi_msg') : pi_msg'[i] = Message[Pipe!Sent' + i]
         /\ Head(pi_msg) = Message[Pipe!Sent']
<1>1. /\ Len(pi_msg) \in Nat \ {0} /\ Len(Message) \in Nat /\ Len(pi_msg') = Len(pi_msg) - 1
      /\ Head(pi_msg) = pi_msg[1] /\ \A i \in 1..Len(pi_msg') : pi_msg'[i] = pi_msg[i + 1]
  <2>1. Len(pi_msg) \in Nat \ {0} /\ Len(Message) \in Nat /\ Head(pi_msg) = pi_msg[1]
    BY EmptySeq, LenProperties
  <2>2. /\ Len(Tail(pi_msg)) = Len(pi_msg) - 1
        /\ \A i \in 1..Len(Tail(pi_msg)) : Tail(pi_msg)[i] = pi_msg[i + 1]
    BY HeadTailProperties
  <2> QED BY <2>1, <2>2
<1>2. \A l \in Nat, m \in Nat \ {0} : m <= l =>
        /\ l - m \in Nat /\ l - (m - 1) = (l - m) + 1 /\ m - 1 <= l
        /\ \A i \in 1..(m - 1) : i + 1 \in 1..m /\ (l - m) + (i + 1) = (l - (m - 1)) + i
  OBVIOUS
<1>3. /\ Pipe!Sent \in Nat /\ Pipe!Sent' = Pipe!Sent + 1 /\ Len(pi_msg') <= Len(Message)
      /\ \A i \in 1..Len(pi_msg') :
           i + 1 \in 1..Len(pi_msg) /\ Pipe!Sent + (i + 1) = Pipe!Sent' + i
  BY <1>1, <1>2 DEF Pipe!Sent
<1>4. 1 \in 1..Len(pi_msg)
  BY <1>1
<1> QED BY <1>1, <1>3, <1>4

\* bidir_pipe.c: each line comes back, in upper case, before the next is sent.
LEMMA BidirSteps ==
  ASSUME Pipe!PipesTyped, Pipe!BidirInv, pi_tool = "bidir_pipe", Pipe!Next,
         Message \in Seq(Pipe!Values)
  PROVE  Pipe!BidirInv' /\ pi_tool' = pi_tool
<1> USE DEF Pipe!BidirInv
<1>0. /\ pi_pc \in [Pipe!Procs -> Pipe!Places] /\ "parent" \in Pipe!Procs
      /\ "child" \in Pipe!Procs /\ "other" \in Pipe!Procs
      /\ pi_pipe["ptoc"] \in Seq(Pipe!Values) /\ pi_pipe["ctop"] \in Seq(Pipe!Values)
      /\ pi_msg \in Seq(Pipe!Values)
      /\ "ptoc" \in Pipe!PipeNames /\ "ctop" \in Pipe!PipeNames /\ "ptoc" # "ctop"
      /\ pi_pipe \in [Pipe!PipeNames -> Seq(Pipe!Values)]
      /\ \A l \in {"close", "fgets", "read", "wait", "exited"} : l \in Pipe!Places
  BY DEF Pipe!PipesTyped, Pipe!Procs, Pipe!PipeNames, Pipe!Places
\* A step that only moves on.
<1>q. ASSUME UNCHANGED <<pi_pipe, pi_msg, pi_out>>,
             \/ pi_pc'["parent"] = pi_pc["parent"]
             \/ /\ pi_pc["parent"] \in {"fork", "close", "fgets"}
                /\ pi_pc'["parent"] \in {"close", "fgets", "wait"}
             \/ pi_pc'["parent"] = "exited"
      PROVE  Pipe!BidirInv'
  BY <1>q DEF Pipe!Sent
<1>1. CASE Pipe!Fork("child", "close")
  <2>1. /\ pi_pc["parent"] = "fork" /\ UNCHANGED <<pi_tool, pi_pipe, pi_msg, pi_out>>
        /\ pi_pc' = [pi_pc EXCEPT !["child"] = "start", !["parent"] = "close"]
    BY <1>0, <1>1, ForkFacts
  <2> QED BY <1>0, <1>q, <2>1
<1>2. CASE Pipe!WaitChildren
  BY <1>0, <1>2, <1>q DEF Pipe!WaitChildren, Pipe!Ends, Pipe!Go
<1>3. CASE Pipe!BidirParent
  <2>1. CASE /\ pi_pc["parent"] = "close" /\ Pipe!Go("parent", "fgets")
             /\ UNCHANGED <<pi_pipe, pi_msg, pi_out>>
    BY <1>0, <1>3, <1>q, <2>1 DEF Pipe!BidirParent, Pipe!Go
  <2>2. CASE /\ pi_pc["parent"] = "fgets" /\ pi_msg # <<>>
             /\ pi_pipe' = [pi_pipe EXCEPT !["ptoc"] = Append(@, Head(pi_msg))]
             /\ pi_msg' = Tail(pi_msg)
             /\ Pipe!Go("parent", "read") /\ UNCHANGED <<pi_rd, pi_wr, pi_out>>
    <3>1. pi_tool' = pi_tool /\ pi_out' = pi_out /\ pi_pc'["parent"] = "read"
      BY <1>0, <1>3, <2>2 DEF Pipe!BidirParent, Pipe!Go
    <3>2. /\ Pipe!Sent \in Nat /\ Pipe!Sent' = Pipe!Sent + 1 /\ Len(pi_msg') <= Len(Message)
          /\ \A i \in 1..Len(pi_msg') : pi_msg'[i] = Message[Pipe!Sent' + i]
          /\ Head(pi_msg) = Message[Pipe!Sent']
      BY <1>0, <2>2, LineSent
    <3>3. pi_pipe'["ptoc"] = <<Message[Pipe!Sent']>> /\ pi_pipe'["ctop"] = <<>>
      <4>1. pi_pipe["ptoc"] = <<>> /\ pi_pipe["ctop"] = <<>>
        BY <2>2
      <4>2. pi_pipe'["ptoc"] = Append(<<>>, Head(pi_msg)) /\ pi_pipe'["ctop"] = <<>>
        BY <1>0, <2>2, <4>1
      <4>3. pi_pipe'["ptoc"] = <<Head(pi_msg)>>
        BY <4>2
      <4> QED BY <3>2, <4>2, <4>3
    <3>4. Pipe!Sent' = Len(pi_out') + 1
      BY <2>2, <3>1, <3>2
    <3> QED BY <3>1, <3>2, <3>3, <3>4
  <2>3. CASE /\ pi_pc["parent"] = "read" /\ Pipe!Received("ctop", 1)
             /\ pi_out' = Append(pi_out, Head(pi_pipe["ctop"]))
             /\ Pipe!Go("parent", "fgets") /\ UNCHANGED <<pi_rd, pi_wr, pi_msg>>
    <3>1. /\ pi_tool' = pi_tool /\ pi_msg' = pi_msg /\ pi_pc'["parent"] = "fgets"
          /\ Pipe!Sent' = Pipe!Sent
      BY <1>0, <1>3, <2>3 DEF Pipe!BidirParent, Pipe!Go, Pipe!Sent
    <3>2. pi_pipe["ctop"] # <<>> /\ pi_pipe'["ptoc"] = pi_pipe["ptoc"]
      BY <1>0, <2>3, ReceivedFacts
    <3>3. /\ pi_pipe["ptoc"] = <<>> /\ pi_pipe["ctop"] = <<Pipe!Upper(Message[Pipe!Sent])>>
          /\ Pipe!Sent = Len(pi_out) + 1
      BY <2>3, <3>2
    <3>4. pi_pipe'["ctop"] = <<>>
      <4>1. pi_pipe'["ctop"] = SubSeq(pi_pipe["ctop"], 2, 1)
        BY <1>0, <2>3, <3>3 DEF Pipe!Received
      <4> QED BY <4>1, SubSeqEmpty
    <3>5. /\ pi_out' = Append(pi_out, Pipe!Upper(Message[Pipe!Sent]))
          /\ Pipe!Upper(Message[Pipe!Sent]) \in Pipe!Values
      <4>1. /\ Pipe!Upper(Message[Pipe!Sent]) = Head(pi_pipe["ctop"])
            /\ Head(pi_pipe["ctop"]) \in Pipe!Values
        BY <1>0, <3>2, <3>3, HeadTailProperties
      <4> QED BY <2>3, <4>1
    <3>6. /\ pi_out' \in Seq(Pipe!Values) /\ Len(pi_out') = Len(pi_out) + 1
          /\ Len(pi_out) \in Nat
          /\ \A i \in 1..Len(pi_out) : pi_out'[i] = pi_out[i]
          /\ pi_out'[Len(pi_out) + 1] = Pipe!Upper(Message[Len(pi_out) + 1])
      BY <3>3, <3>5, AppendProperties, LenProperties
    <3>7. \A i \in 1..Len(pi_out') : pi_out'[i] = Pipe!Upper(Message[i])
      <4>1. \A n \in Nat : \A i \in 1..(n + 1) : i \in 1..n \/ i = n + 1
        OBVIOUS
      <4>2. \A i \in 1..Len(pi_out) : pi_out[i] = Pipe!Upper(Message[i])
        OBVIOUS
      <4> QED BY <3>6, <4>1, <4>2
    <3>8. pi_out' = [i \in 1..Len(pi_out') |-> Pipe!Upper(Message[i])]
      BY <3>6, <3>7
    <3> QED BY <3>1, <3>2, <3>3, <3>4, <3>6, <3>8
  <2>4. CASE /\ pi_pc["parent"] = "fgets" /\ pi_msg = <<>> /\ Pipe!Go("parent", "wait")
             /\ UNCHANGED <<pi_pipe, pi_msg, pi_out>>
    BY <1>0, <1>3, <1>q, <2>4 DEF Pipe!BidirParent, Pipe!Go
  <2> QED BY <1>3, <2>1, <2>2, <2>3, <2>4 DEF Pipe!BidirParent
<1>4. CASE Pipe!BidirChild
  <2>0. /\ UNCHANGED <<pi_tool, pi_msg, pi_out>> /\ pi_pc'["parent"] = pi_pc["parent"]
        /\ Pipe!Sent' = Pipe!Sent
    BY <1>0, <1>4 DEF Pipe!BidirChild, Pipe!Go, Pipe!Ends, Pipe!Sent
  <2>1. CASE UNCHANGED pi_pipe
    BY <1>q, <2>0, <2>1
  <2>2. CASE /\ pi_pc["child"] = "read" /\ pi_pipe["ptoc"] # <<>>
             /\ pi_pipe' = [pi_pipe EXCEPT
                           !["ptoc"] = Tail(@),
                           !["ctop"] = Append(@, Pipe!Upper(Head(pi_pipe["ptoc"])))]
    <3>1. CASE pi_pc["parent"] = "read"
      <4>1. pi_pipe["ptoc"] = <<Message[Pipe!Sent]>> /\ pi_pipe["ctop"] = <<>>
        BY <2>2, <3>1
      <4>2. /\ pi_pipe'["ptoc"] = Tail(<<Message[Pipe!Sent]>>)
            /\ pi_pipe'["ctop"] = Append(<<>>, Pipe!Upper(Head(<<Message[Pipe!Sent]>>)))
        BY <1>0, <2>2, <4>1
      <4>3. pi_pipe'["ptoc"] = <<>> /\ pi_pipe'["ctop"] = <<Pipe!Upper(Message[Pipe!Sent])>>
        BY <4>2
      <4> QED BY <2>0, <3>1, <4>3
    <3>2. CASE pi_pc["parent"] # "read"
      <4>1. pi_pc["parent"] \in {"wait", "exited"}
        BY <2>2, <3>2
      <4> QED BY <2>0, <4>1
    <3> QED BY <3>1, <3>2
  <2> QED BY <1>4, <2>0, <2>1, <2>2 DEF Pipe!BidirChild
<1> QED BY <1>1, <1>2, <1>3, <1>4, <1>0, <1>q DEF Pipe!Next, Pipe!ParentStep,
  Pipe!ChildStep, Pipe!OtherStep, Pipe!SimpleParent, Pipe!SimpleChild, Pipe!SyncParent,
  Pipe!HookupParent, Pipe!PopenMain, Pipe!OpenNonblock, Pipe!KeepOther, Pipe!FillPipe,
  Pipe!Attempt, Pipe!HookupChildren, Pipe!SyncChild, Pipe!PopenImp, Pipe!Ls, Pipe!Tee,
  Pipe!Fork, Pipe!WaitChildren

\* t is s with x at its end.
Grown(s, x, t) ==
  /\ Len(s) \in Nat /\ Len(t) = Len(s) + 1
  /\ \A i \in 1..Len(t) : \/ i \in 1..Len(s) /\ t[i] = s[i]
                          \/ i = Len(s) + 1 /\ t[i] = x

\* That is what Append does.
LEMMA OneMore ==
  ASSUME NEW S, NEW s \in Seq(S), NEW x \in S
  PROVE  Append(s, x) \in Seq(S) /\ Grown(s, x, Append(s, x))
<1> DEFINE t == Append(s, x)
<1>1. /\ t \in Seq(S) /\ Len(s) \in Nat /\ Len(t) = Len(s) + 1
      /\ \A i \in 1..Len(s) : t[i] = s[i]
      /\ t[Len(s) + 1] = x
  BY AppendProperties, LenProperties
<1> HIDE DEF t
<1>2. ASSUME NEW i \in 1..Len(t)
      PROVE  \/ i \in 1..Len(s) /\ t[i] = s[i]
             \/ i = Len(s) + 1 /\ t[i] = x
  <2>1. i \in 1..Len(s) \/ i = Len(s) + 1
    BY <1>1
  <2>2. CASE i \in 1..Len(s)
    BY <1>1, <2>2
  <2>3. CASE i = Len(s) + 1
    BY <1>1, <2>3
  <2> QED BY <2>1, <2>2, <2>3
<1>3. t \in Seq(S) /\ Grown(s, x, t)
  BY <1>1, <1>2 DEF Grown
<1> QED BY <1>3 DEF t

\* A line more has been printed.
LEMMA LinePrinted ==
  ASSUME NEW line \in Pipe!Lines, pi_out \in Seq(Pipe!Lines),
         Pipe!WokenLast, Pipe!MayBeNext(line), pi_out' = Append(pi_out, line)
  PROVE  /\ pi_out' \in Seq(Pipe!Lines) /\ Len(pi_out) \in Nat
         /\ Len(pi_out') = Len(pi_out) + 1
         /\ Pipe!WokenLast'
<1>1. /\ pi_out' \in Seq(Pipe!Lines) /\ Len(pi_out) \in Nat
      /\ Len(pi_out') = Len(pi_out) + 1
      /\ \A i \in 1..Len(pi_out') : \/ i \in 1..Len(pi_out) /\ pi_out'[i] = pi_out[i]
                                    \/ i = Len(pi_out) + 1 /\ pi_out'[i] = line
  <2>1. /\ Append(pi_out, line) \in Seq(Pipe!Lines)
        /\ Grown(pi_out, line, Append(pi_out, line))
    BY OneMore
  <2>2. pi_out' \in Seq(Pipe!Lines) /\ Grown(pi_out, line, pi_out')
    BY <2>1
  <2> QED BY <2>2 DEF Grown
<1>2. ASSUME NEW i \in 1..Len(pi_out'), pi_out'[i] = "woke up" PROVE i = 3
  <2>1. CASE i \in 1..Len(pi_out) /\ pi_out'[i] = pi_out[i]
    BY <1>2, <2>1 DEF Pipe!WokenLast
  <2>2. CASE i = Len(pi_out) + 1 /\ pi_out'[i] = line
    <3>1. line = "woke up"
      BY <1>2, <2>2
    <3>2. Len(pi_out) = 2
      BY <3>1 DEF Pipe!MayBeNext
    <3> QED BY <2>2, <3>2
  <2> QED BY <1>1, <2>1, <2>2
<1> QED BY <1>1, <1>2 DEF Pipe!WokenLast

\* pipe_sync.c: the parent is woken by the last child that closes the pipe.
LEMMA SyncSteps ==
  ASSUME Pipe!PipesTyped, Pipe!SyncInv, pi_tool = "pipe_sync", Pipe!Next
  PROVE  Pipe!SyncInv' /\ pi_tool' = pi_tool
<1> USE DEF Pipe!SyncInv
<1>0. /\ pi_pc \in [Pipe!Procs -> Pipe!Places] /\ "parent" \in Pipe!Procs
      /\ "child" \in Pipe!Procs /\ "other" \in Pipe!Procs
      /\ "ptoc" \in Pipe!PipeNames /\ pi_wr \in [Pipe!PipeNames -> SUBSET Pipe!Holders]
      /\ "parent" \in Pipe!Holders /\ "child" \in Pipe!Holders /\ "other" \in Pipe!Holders
      /\ {"fork", "close", "wait", "read", "sleep", "start", "exited"} \subseteq Pipe!Places
  BY DEF Pipe!PipesTyped, Pipe!Procs, Pipe!PipeNames, Pipe!Holders, Pipe!Places
<1>1. CASE Pipe!Fork("child", "fork")
  <2>1. "ptoc" \in Pipe!Made("child")
    BY DEF Pipe!Made, Pipe!PipeNames
  <2>2. /\ pi_pc["parent"] = "fork" /\ pi_pc["child"] = "none"
        /\ pi_pc' = [pi_pc EXCEPT !["child"] = "start", !["parent"] = "fork"]
        /\ UNCHANGED <<pi_tool, pi_out>> /\ pi_wr'["ptoc"] = {"parent", "child"}
    BY <1>0, <1>1, <2>1, ForkFacts
  <2>3. /\ Pipe!Past("child")' = Pipe!Past("child")
        /\ Pipe!Past("other")' = Pipe!Past("other") /\ Pipe!Woken' = Pipe!Woken
    BY <1>0, <2>2 DEF Pipe!Past, Pipe!Woken
  <2> QED BY <1>0, <2>2, <2>3 DEF Pipe!WokenLast
<1>2. CASE Pipe!Fork("other", "close")
  <2>1. "ptoc" \notin Pipe!Made("other")
    BY DEF Pipe!Made, Pipe!PipeNames
  <2>2. /\ pi_pc["parent"] = "fork" /\ pi_pc["other"] = "none" /\ pi_pc["child"] # "none"
        /\ pi_pc' = [pi_pc EXCEPT !["other"] = "start", !["parent"] = "close"]
        /\ UNCHANGED <<pi_tool, pi_out>>
    BY <1>0, <1>2, <2>1, ForkFacts
  <2>3. pi_wr'["ptoc"] = pi_wr["ptoc"] \cup {"other"}
    BY <1>0, <1>2, <2>1, <2>2, ForkFacts
  <2>4. /\ Pipe!Past("child")' = Pipe!Past("child")
        /\ Pipe!Past("other")' = Pipe!Past("other") /\ Pipe!Woken' = Pipe!Woken
    BY <1>0, <2>2 DEF Pipe!Past, Pipe!Woken
  <2> QED BY <1>0, <2>2, <2>3, <2>4 DEF Pipe!WokenLast
<1>3. CASE Pipe!WaitChildren
  <2>1. pi_pc["parent"] = "wait" /\ Pipe!Ends("parent") /\ UNCHANGED <<pi_tool, pi_out>>
    BY <1>3 DEF Pipe!WaitChildren
  <2>2. /\ pi_pc'["parent"] = "exited" /\ pi_pc'["child"] = pi_pc["child"]
        /\ pi_pc'["other"] = pi_pc["other"]
        /\ \A p \in {"child", "other"} : p \in pi_wr["ptoc"] => p \in pi_wr'["ptoc"]
    BY <1>0, <2>1, EndsFacts DEF Pipe!Procs
  <2>3. /\ Pipe!Past("child")' = Pipe!Past("child")
        /\ Pipe!Past("other")' = Pipe!Past("other") /\ Pipe!Woken' = Pipe!Woken
    BY <2>1, <2>2 DEF Pipe!Past, Pipe!Woken
  <2> QED BY <2>1, <2>2, <2>3 DEF Pipe!WokenLast
<1>4. CASE Pipe!SyncParent
  <2>1. CASE /\ pi_pc["parent"] = "close" /\ Pipe!Go("parent", "read")
             /\ Pipe!CloseWrite("parent", "ptoc") /\ UNCHANGED <<pi_rd, pi_out>>
    <3>1. /\ pi_tool' = pi_tool /\ pi_out' = pi_out
          /\ pi_pc' = [pi_pc EXCEPT !["parent"] = "read"]
      BY <1>4, <2>1 DEF Pipe!SyncParent, Pipe!Go
    <3>2. \A p \in {"child", "other"} : p \in pi_wr["ptoc"] => p \in pi_wr'["ptoc"]
      BY <1>0, <2>1, CloseFacts
    <3>3. /\ Pipe!Past("child")' = Pipe!Past("child")
          /\ Pipe!Past("other")' = Pipe!Past("other") /\ Pipe!Woken' = Pipe!Woken
      BY <1>0, <2>1, <3>1 DEF Pipe!Past, Pipe!Woken
    <3> QED BY <1>0, <2>1, <3>1, <3>2, <3>3 DEF Pipe!WokenLast
  <2>2. CASE /\ pi_pc["parent"] = "read" /\ Pipe!EOF("ptoc") /\ Pipe!Go("parent", "wait")
             /\ pi_out' = Append(pi_out, "woke up") /\ UNCHANGED <<pi_rd, pi_wr>>
    <3>1. /\ pi_tool' = pi_tool /\ pi_pc' = [pi_pc EXCEPT !["parent"] = "wait"]
          /\ pi_wr' = pi_wr
          /\ pi_wr["ptoc"] = {}
      BY <1>4, <2>2 DEF Pipe!SyncParent, Pipe!Go, Pipe!EOF
    <3>2. pi_pc["child"] = "exited" /\ pi_pc["other"] = "exited"
      BY <2>2, <3>1
    <3>3. Pipe!Past("child") = 1 /\ Pipe!Past("other") = 1 /\ Pipe!Woken = 0
      BY <2>2, <3>2 DEF Pipe!Past, Pipe!Woken
    <3>4. Len(pi_out) = 2
      BY <3>3
    <3>5. /\ pi_out' \in Seq(Pipe!Lines) /\ Len(pi_out') = Len(pi_out) + 1
          /\ Pipe!WokenLast'
      <4>1. "woke up" \in Pipe!Lines
        BY DEF Pipe!Lines
      <4> QED BY <2>2, <3>4, <4>1, LinePrinted DEF Pipe!MayBeNext
    <3>6. Pipe!Past("child")' = 1 /\ Pipe!Past("other")' = 1 /\ Pipe!Woken' = 1
      BY <1>0, <3>1, <3>2 DEF Pipe!Past, Pipe!Woken
    <3>7. Len(pi_out') = Pipe!Past("child")' + Pipe!Past("other")' + Pipe!Woken'
      BY <3>4, <3>5, <3>6
    <3> QED BY <1>0, <3>1, <3>2, <3>5, <3>7
  <2> QED BY <1>4, <2>1, <2>2 DEF Pipe!SyncParent
<1>5. ASSUME NEW p \in {"child", "other"}, Pipe!SyncChild(p)
      PROVE  Pipe!SyncInv' /\ pi_tool' = pi_tool
  <2>0. p \in Pipe!Procs /\ p \in Pipe!Holders /\ p # "parent" /\ pi_tool' = pi_tool
    BY <1>0, <1>5 DEF Pipe!SyncChild
  <2>1. CASE /\ pi_pc[p] = "start" /\ Pipe!Go(p, "sleep") /\ UNCHANGED <<pi_wr, pi_out>>
    <3>1. pi_pc' = [pi_pc EXCEPT ![p] = "sleep"] /\ UNCHANGED <<pi_wr, pi_out>>
      BY <2>1 DEF Pipe!Go
    <3>2. /\ Pipe!Past("child")' = Pipe!Past("child")
          /\ Pipe!Past("other")' = Pipe!Past("other") /\ Pipe!Woken' = Pipe!Woken
      BY <1>0, <2>0, <2>1, <3>1 DEF Pipe!Past, Pipe!Woken
    <3> QED BY <1>0, <2>0, <2>1, <3>1, <3>2 DEF Pipe!WokenLast
  <2>2. CASE /\ pi_pc[p] = "sleep" /\ Pipe!Go(p, "close")
             /\ pi_out' = Append(pi_out, "finished") /\ UNCHANGED <<pi_rd, pi_wr>>
    <3>1. pi_pc' = [pi_pc EXCEPT ![p] = "close"] /\ pi_wr' = pi_wr
      BY <2>2 DEF Pipe!Go
    <3>2. /\ pi_out' \in Seq(Pipe!Lines) /\ Len(pi_out') = Len(pi_out) + 1
          /\ Pipe!WokenLast'
      <4>1. "finished" \in Pipe!Lines /\ "finished" # "woke up"
        BY DEF Pipe!Lines
      <4> QED BY <2>2, <4>1, LinePrinted DEF Pipe!MayBeNext
    <3>3. Pipe!Past("child")' + Pipe!Past("other")'
            = Pipe!Past("child") + Pipe!Past("other") + 1
      BY <1>0, <2>2, <3>1 DEF Pipe!Past
    <3>4. /\ Pipe!Woken' = Pipe!Woken /\ Pipe!Past("child") \in Nat
          /\ Pipe!Past("other") \in Nat /\ Pipe!Woken \in Nat
          /\ Pipe!Past("child")' \in Nat /\ Pipe!Past("other")' \in Nat
      BY <1>0, <2>0, <3>1 DEF Pipe!Past, Pipe!Woken
    <3>5. Len(pi_out') = Pipe!Past("child")' + Pipe!Past("other")' + Pipe!Woken'
      BY <3>2, <3>3, <3>4
    <3> QED BY <1>0, <2>0, <2>2, <3>1, <3>2, <3>5
  <2>3. CASE pi_pc[p] = "close" /\ Pipe!Ends(p) /\ UNCHANGED pi_out
    <3>1. /\ pi_pc' = [pi_pc EXCEPT ![p] = "exited"]
          /\ \A h \in Pipe!Holders \ {p} : h \in pi_wr["ptoc"] => h \in pi_wr'["ptoc"]
      BY <1>0, <2>0, <2>3, EndsFacts
    <3>2. /\ Pipe!Past("child")' = Pipe!Past("child")
          /\ Pipe!Past("other")' = Pipe!Past("other") /\ Pipe!Woken' = Pipe!Woken
      BY <1>0, <2>0, <2>3, <3>1 DEF Pipe!Past, Pipe!Woken
    <3> QED BY <1>0, <2>0, <2>3, <3>1, <3>2 DEF Pipe!WokenLast
  <2> QED BY <1>5, <2>1, <2>2, <2>3 DEF Pipe!SyncChild
<1> QED BY <1>1, <1>2, <1>3, <1>4, <1>5 DEF Pipe!Next, Pipe!ParentStep, Pipe!ChildStep,
  Pipe!OtherStep, Pipe!SimpleParent, Pipe!SimpleChild, Pipe!BidirParent, Pipe!HookupParent,
  Pipe!PopenMain, Pipe!OpenNonblock, Pipe!KeepOther, Pipe!FillPipe, Pipe!Attempt,
  Pipe!BidirChild, Pipe!HookupChildren, Pipe!PopenImp, Pipe!Ls, Pipe!Tee

\* nonblock_open_test.c: what an end opened with O_NONBLOCK answers.
LEMMA NonblockSteps ==
  ASSUME Pipe!PipesTyped, Pipe!NonblockInv, pi_tool = "nonblock_open_test", Pipe!Next
  PROVE  Pipe!NonblockInv' /\ pi_tool' = pi_tool
<1> USE DEF Pipe!NonblockInv
<1>0. /\ pi_pc \in [Pipe!Procs -> Pipe!Places] /\ "parent" \in Pipe!Procs
      /\ "child" \in Pipe!Procs /\ "other" \in Pipe!Procs
      /\ pi_pipe["ptoc"] \in Seq(Pipe!Values) /\ Len(pi_pipe["ptoc"]) \in Nat
  BY LenProperties DEF Pipe!PipesTyped, Pipe!Procs, Pipe!PipeNames
<1>1. CASE Pipe!OpenNonblock
  <2>1. /\ pi_tool' = pi_tool /\ pi_pc["parent"] = "fork"
        /\ \/ pi_answer' = <<"ENXIO", 0>> /\ Pipe!Go("parent", "exited")
           \/ /\ pi_answer' = pi_answer
              /\ Pipe!Go("parent", "keep?") \/ Pipe!Go("parent", "fill")
    BY <1>1 DEF Pipe!OpenNonblock
  <2>2. CASE pi_answer' = <<"ENXIO", 0>> /\ Pipe!Go("parent", "exited")
    <3>1. Pipe!Told'
      BY <2>2 DEF Pipe!Told
    <3> QED BY <1>0, <2>1, <2>2, <3>1 DEF Pipe!Go
  <2>3. CASE /\ pi_answer' = pi_answer
             /\ Pipe!Go("parent", "keep?") \/ Pipe!Go("parent", "fill")
    <3>1. Pipe!Told'
      BY <2>1, <2>3 DEF Pipe!Told
    <3> QED BY <1>0, <2>1, <2>3, <3>1 DEF Pipe!Go
  <2> QED BY <2>1, <2>2, <2>3
<1>2. CASE Pipe!KeepOther \/ Pipe!FillPipe
  <2>1. /\ pi_tool' = pi_tool /\ pi_pc["parent"] # "exited" /\ pi_answer' = pi_answer
        /\ Pipe!Go("parent", "fill") \/ Pipe!Go("parent", "ask")
    BY <1>2 DEF Pipe!KeepOther, Pipe!FillPipe
  <2>2. Pipe!Told'
    BY <2>1 DEF Pipe!Told
  <2> QED BY <1>0, <2>1, <2>2 DEF Pipe!Go
<1>3. CASE Pipe!Attempt
  <2>1. /\ pi_pc' = [pi_pc EXCEPT !["parent"] = "exited"]
        /\ UNCHANGED <<pi_tool, pi_pipe, pi_rd, pi_wr, pi_out>>
    BY <1>3 DEF Pipe!Attempt, Pipe!Go
  <2>2. PICK n \in 0..PipeSize + 1 :
          pi_answer' = <<IF pi_out = <<"r">> THEN Pipe!ReadOutcome(n)
                         ELSE Pipe!WriteOutcome(n), n>>
    BY <1>3 DEF Pipe!Attempt
  <2>3. CASE n > 0
    <3>1. /\ Pipe!ReadOutcome(n) = "EOF" => Pipe!EOF("ptoc")
          /\ Pipe!ReadOutcome(n) = "EAGAIN" => pi_wr["ptoc"] # {}
          /\ Pipe!ReadOutcome(n) # "EPIPE"
      <4>1. Len(pi_pipe["ptoc"]) = 0 => pi_pipe["ptoc"] = <<>>
        BY <1>0, EmptySeq
      <4>2. n # 0
        BY <2>3
      <4> QED BY <2>3, <4>1, <4>2 DEF Pipe!ReadOutcome, Pipe!EOF
    <3>2. /\ Pipe!WriteOutcome(n) # "EOF"
          /\ Pipe!WriteOutcome(n) = "EPIPE" => pi_rd["ptoc"] = {}
          /\ Pipe!WriteOutcome(n) = "EAGAIN" => pi_rd["ptoc"] # {}
      BY <2>3 DEF Pipe!WriteOutcome
    <3>3. pi_answer'[1] = IF pi_out = <<"r">> THEN Pipe!ReadOutcome(n)
                          ELSE Pipe!WriteOutcome(n)
      BY <2>2
    <3>4. Pipe!EOF("ptoc")' <=> Pipe!EOF("ptoc")
      BY <2>1 DEF Pipe!EOF
    <3>5. Pipe!Told'
      BY <2>1, <3>1, <3>2, <3>3, <3>4 DEF Pipe!Told
    <3> QED BY <1>0, <2>1, <3>5
  <2>4. CASE ~(n > 0)
    <3>1. ~(pi_answer'[2] > 0)
      BY <2>2, <2>4
    <3>2. Pipe!Told'
      BY <3>1 DEF Pipe!Told
    <3> QED BY <1>0, <2>1, <3>2
  <2> QED BY <2>3, <2>4
<1> QED BY <1>1, <1>2, <1>3 DEF Pipe!Next, Pipe!ParentStep, Pipe!ChildStep, Pipe!OtherStep,
  Pipe!Fork, Pipe!WaitChildren, Pipe!SimpleParent, Pipe!SimpleChild, Pipe!BidirParent,
  Pipe!HookupParent, Pipe!SyncParent, Pipe!PopenMain, Pipe!BidirChild, Pipe!HookupChildren,
  Pipe!SyncChild, Pipe!PopenImp, Pipe!Ls, Pipe!Tee

-----------------------------------------------------------------------------
\* The first state is one of these.
LEMMA PipesStart == Pipe!Init => Pipe!PipesInv
<1> SUFFICES ASSUME Pipe!Init PROVE Pipe!PipesInv
  OBVIOUS
<1>1. Message \in Seq(Pipe!Values)
  BY PipesAssumption DEF Pipe!Values
<1>2. /\ pi_tool \in Pipe!Tools /\ pi_pipe = [q \in Pipe!PipeNames |-> <<>>]
      /\ pi_rd = [q \in Pipe!PipeNames |-> {}]
      /\ pi_wr = pi_rd
      /\ pi_pc = [p \in Pipe!Procs |-> IF p = "parent" THEN "fork" ELSE "none"]
      /\ pi_msg = Message /\ pi_out = <<>>
      /\ pi_answer \in IF pi_tool = "popen" THEN {<<n>> : n \in 0..PipeSize + 2} ELSE {<<>>}
  BY DEF Pipe!Init
<1>3. /\ pi_pipe["ptoc"] = <<>> /\ pi_pipe["ctop"] = <<>> /\ pi_pc["parent"] = "fork"
      /\ pi_pc["child"] = "none" /\ pi_pc["other"] = "none"
  BY <1>2 DEF Pipe!PipeNames, Pipe!Procs
<1>4. Pipe!PipesTyped
  <2>1. pi_pc \in [Pipe!Procs -> Pipe!Places]
    BY <1>2 DEF Pipe!Places
  <2>2. pi_pipe \in [Pipe!PipeNames -> Seq(Pipe!Values)] /\ pi_msg \in Seq(Pipe!Values)
    <3>1. <<>> \in Seq(Pipe!Values)
      BY EmptySeq
    <3> QED BY <1>1, <1>2, <3>1
  <2>3. /\ pi_rd \in [Pipe!PipeNames -> SUBSET Pipe!Holders]
        /\ pi_wr \in [Pipe!PipeNames -> SUBSET Pipe!Holders]
    BY <1>2
  <2> QED BY <1>2, <2>1, <2>2, <2>3 DEF Pipe!PipesTyped
<1>5. Pipe!Flow
  <2>1. pi_out \in Seq(Pipe!Values)
    BY <1>2, EmptySeq
  <2>2. pi_out \o pi_pipe["ptoc"] = <<>>
    BY <1>2, <1>3, <2>1, ConcatEmptySeq
  <2>3. <<>> \o pi_msg = Message
    BY <1>1, <1>2, ConcatEmptySeq
  <2> QED BY <2>1, <2>2, <2>3 DEF Pipe!Flow
<1>6. Pipe!SimpleInv /\ Pipe!HookupInv /\ Pipe!PopenInv
  BY <1>3, <1>5 DEF Pipe!SimpleInv, Pipe!HookupInv, Pipe!PopenInv
<1>7. Pipe!BidirInv
  <2>1. /\ Len(pi_msg) = Len(Message) /\ Len(Message) \in Nat /\ Len(pi_out) = 0
        /\ pi_out \in Seq(Pipe!Values)
    BY <1>1, <1>2, LenProperties, EmptySeq
  <2>2. Pipe!Sent = 0
    BY <2>1 DEF Pipe!Sent
  <2>3. /\ Len(pi_msg) <= Len(Message)
        /\ \A i \in 1..Len(pi_msg) : pi_msg[i] = Message[Pipe!Sent + i]
    BY <1>2, <2>1, <2>2
  <2>4. pi_out = [i \in 1..Len(pi_out) |-> Pipe!Upper(Message[i])]
    BY <1>2, <2>1
  <2> QED BY <1>3, <2>1, <2>2, <2>3, <2>4 DEF Pipe!BidirInv
<1>8. Pipe!SyncInv
  <2>1. pi_out \in Seq(Pipe!Lines) /\ Len(pi_out) = 0
    BY <1>2, EmptySeq
  <2>2. Pipe!Past("child") = 0 /\ Pipe!Past("other") = 0 /\ Pipe!Woken = 0
    BY <1>3 DEF Pipe!Past, Pipe!Woken
  <2>3. Pipe!WokenLast
    <3>1. 1..Len(pi_out) = {}
      BY <2>1
    <3> QED BY <3>1 DEF Pipe!WokenLast
  <2>4. Len(pi_out) = Pipe!Past("child") + Pipe!Past("other") + Pipe!Woken
    BY <2>1, <2>2
  <2> QED BY <1>3, <2>1, <2>3, <2>4 DEF Pipe!SyncInv
<1>9. pi_tool = "nonblock_open_test" => Pipe!NonblockInv
  <2>1. pi_tool = "nonblock_open_test" => pi_answer = <<>>
    BY <1>2
  <2> QED BY <1>3, <2>1 DEF Pipe!NonblockInv, Pipe!Told
<1> QED BY <1>4, <1>6, <1>7, <1>8, <1>9 DEF Pipe!PipesInv

\* Nothing changes.
LEMMA PipesRest == Pipe!PipesInv /\ UNCHANGED Pipe!vars => Pipe!PipesInv'
<1> SUFFICES ASSUME Pipe!PipesInv, UNCHANGED Pipe!vars PROVE Pipe!PipesInv'
  OBVIOUS
<1>1. UNCHANGED <<pi_tool, pi_pipe, pi_rd, pi_wr, pi_pc, pi_msg, pi_out, pi_answer>>
  BY DEF Pipe!vars
<1>2. Pipe!PipesTyped' = Pipe!PipesTyped /\ Pipe!Flow' = Pipe!Flow
  BY <1>1 DEF Pipe!PipesTyped, Pipe!Flow
<1>3. /\ Pipe!SimpleInv' = Pipe!SimpleInv /\ Pipe!HookupInv' = Pipe!HookupInv
      /\ Pipe!PopenInv' = Pipe!PopenInv
  BY <1>1, <1>2 DEF Pipe!SimpleInv, Pipe!HookupInv, Pipe!PopenInv
<1>4. Pipe!BidirInv' = Pipe!BidirInv
  BY <1>1 DEF Pipe!BidirInv, Pipe!Sent
<1>5. Pipe!SyncInv' = Pipe!SyncInv
  BY <1>1 DEF Pipe!SyncInv, Pipe!Past, Pipe!Woken, Pipe!WokenLast
<1>6. Pipe!NonblockInv' = Pipe!NonblockInv
  BY <1>1 DEF Pipe!NonblockInv, Pipe!Told, Pipe!EOF
<1> QED BY <1>1, <1>2, <1>3, <1>4, <1>5, <1>6 DEF Pipe!PipesInv

\* Every step keeps the invariant.
LEMMA PipesStep == Pipe!PipesInv /\ [Pipe!Next]_Pipe!vars => Pipe!PipesInv'
<1> SUFFICES ASSUME Pipe!PipesInv, Pipe!Next PROVE Pipe!PipesInv'
  BY PipesRest
<1>1. Pipe!PipesTyped /\ Pipe!PipesTyped'
  BY PipesTypes DEF Pipe!PipesInv
<1>2. CASE pi_tool = "simple_pipe"
  <2>1. Pipe!SimpleInv' /\ pi_tool' = pi_tool
    BY <1>1, <1>2, SimpleSteps DEF Pipe!PipesInv
  <2> QED BY <1>1, <1>2, <2>1 DEF Pipe!PipesInv
<1>3. CASE pi_tool = "shell_hookup"
  <2>1. Pipe!HookupInv' /\ pi_tool' = pi_tool
    BY <1>1, <1>3, HookupSteps DEF Pipe!PipesInv
  <2> QED BY <1>1, <1>3, <2>1 DEF Pipe!PipesInv
<1>4. CASE pi_tool = "popen"
  <2>1. Pipe!PopenInv' /\ pi_tool' = pi_tool
    BY <1>1, <1>4, PopenSteps DEF Pipe!PipesInv
  <2> QED BY <1>1, <1>4, <2>1 DEF Pipe!PipesInv
<1>5. CASE pi_tool = "bidir_pipe"
  <2>1. Message \in Seq(Pipe!Values)
    BY PipesAssumption DEF Pipe!Values
  <2>2. Pipe!BidirInv' /\ pi_tool' = pi_tool
    BY <1>1, <1>5, <2>1, BidirSteps DEF Pipe!PipesInv
  <2> QED BY <1>1, <1>5, <2>2 DEF Pipe!PipesInv
<1>6. CASE pi_tool = "pipe_sync"
  <2>1. Pipe!SyncInv' /\ pi_tool' = pi_tool
    BY <1>1, <1>6, SyncSteps DEF Pipe!PipesInv
  <2> QED BY <1>1, <1>6, <2>1 DEF Pipe!PipesInv
<1>7. CASE pi_tool = "nonblock_open_test"
  <2>1. Pipe!NonblockInv' /\ pi_tool' = pi_tool
    BY <1>1, <1>7, NonblockSteps DEF Pipe!PipesInv
  <2> QED BY <1>1, <1>7, <2>1 DEF Pipe!PipesInv
<1> QED BY <1>1, <1>2, <1>3, <1>4, <1>5, <1>6, <1>7 DEF Pipe!PipesTyped, Pipe!Tools

\* What is printed is a prefix of the message, and with nothing on its way all of it.
LEMMA FlowMeans ==
  ASSUME Pipe!PipesTyped, Pipe!Flow
  PROVE  /\ pi_out = SubSeq(Message, 1, Len(pi_out))
         /\ pi_pipe["ptoc"] = <<>> /\ pi_msg = <<>> => pi_out = Message
<1>1. /\ pi_out \in Seq(Pipe!Values) /\ pi_pipe["ptoc"] \in Seq(Pipe!Values)
      /\ pi_msg \in Seq(Pipe!Values)
      /\ (pi_out \o pi_pipe["ptoc"]) \o pi_msg = Message
  BY DEF Pipe!PipesTyped, Pipe!Flow, Pipe!PipeNames
<1>2. /\ pi_pipe["ptoc"] \o pi_msg \in Seq(Pipe!Values)
      /\ Message = pi_out \o (pi_pipe["ptoc"] \o pi_msg)
  <2>1. /\ pi_pipe["ptoc"] \o pi_msg \in Seq(Pipe!Values)
        /\ Regrouped(pi_out, pi_pipe["ptoc"], pi_msg)
    <3>1. pi_pipe["ptoc"] \o pi_msg \in Seq(Pipe!Values)
      BY <1>1, ConcatProperties
    <3> QED BY <1>1, <3>1, SplitFlow
  <2> QED BY <1>1, <2>1 DEF Regrouped
<1>3. pi_out = SubSeq(Message, 1, Len(pi_out))
  BY <1>1, <1>2, FirstIsPrefix
<1>4. ASSUME pi_pipe["ptoc"] = <<>>, pi_msg = <<>> PROVE pi_out = Message
  BY <1>1, <1>4, ConcatEmptySeq
<1> QED BY <1>3, <1>4

\* The invariant is what the run checks, and more.
LEMMA PipesMean == Pipe!PipesInv => Pipe!PipesDeliver
<1> SUFFICES ASSUME Pipe!PipesInv PROVE Pipe!PipesDeliver
  OBVIOUS
<1>1. Pipe!PipesTyped
  BY DEF Pipe!PipesInv
<1>2. pi_tool = "simple_pipe" => /\ pi_out = SubSeq(Message, 1, Len(pi_out))
                                 /\ pi_pc["parent"] = "exited" => pi_out = Message
  BY <1>1, FlowMeans DEF Pipe!PipesInv, Pipe!SimpleInv
<1>3. pi_tool = "shell_hookup" => /\ pi_out = SubSeq(Message, 1, Len(pi_out))
                                  /\ pi_pc["parent"] = "exited" => pi_out = Message
  BY <1>1, FlowMeans DEF Pipe!PipesInv, Pipe!HookupInv
<1>4. pi_tool = "popen" => /\ pi_out = SubSeq(Message, 1, Len(pi_out))
                           /\ pi_pc["other"] = "exited" => pi_out = Message
  BY <1>1, FlowMeans DEF Pipe!PipesInv, Pipe!PopenInv
<1>5. pi_tool = "bidir_pipe" => pi_out = [i \in 1..Len(pi_out) |-> Pipe!Upper(Message[i])]
  BY DEF Pipe!PipesInv, Pipe!BidirInv
<1>6. pi_tool = "pipe_sync" => Pipe!WokenLast
  BY DEF Pipe!PipesInv, Pipe!SyncInv
<1>7. pi_tool = "nonblock_open_test" => Pipe!Told
  <2>1. pi_tool = "nonblock_open_test" => Pipe!NonblockInv
    BY Zenon DEF Pipe!PipesInv
  <2>2. Pipe!NonblockInv => Pipe!Told
    BY Zenon DEF Pipe!NonblockInv
  <2> QED BY <2>1, <2>2
<1> QED BY <1>2, <1>3, <1>4, <1>5, <1>6, <1>7 DEF Pipe!PipesDeliver

-----------------------------------------------------------------------------
(***************************************************************************)
(* Proofs about sigchild_handler.c, for any number of children: each child *)
(* is counted once, and main never sleeps on one that has ended.           *)
(***************************************************************************)

Sigchld ==
  INSTANCE SigchldHandler WITH
    N <- NumChildren,
    mpc <- x1, forked <- x2, childrenLeft <- x3, sigCount <- x4, cpc <- x5,
    pending <- x6

sg_mpc == x1
sg_forked == x2
sg_childrenLeft == x3
sg_sigCount == x4
sg_cpc == x5
sg_pending == x6

USE DEF sg_mpc, sg_forked, sg_childrenLeft, sg_sigCount, sg_cpc, sg_pending

\* The cardinality that SigchldHandler counts with.
LEMMA SameCardinality == \A S : Sigchld!Cardinality(S) = Cardinality(S)
BY DEF Sigchld!Cardinality, Cardinality

\* The sets of children are finite, and none is larger than NumChildren.
LEMMA InFacts ==
  ASSUME NumChildren \in Nat, NEW s
  PROVE  IsFiniteSet(Sigchld!In(s)) /\ Cardinality(Sigchld!In(s)) \in 0..NumChildren
<1>1. IsFiniteSet(Sigchld!Children) /\ Cardinality(Sigchld!Children) = NumChildren
  BY FS_Interval DEF Sigchld!Children
<1>2. Sigchld!In(s) \subseteq Sigchld!Children
  BY DEF Sigchld!In
<1> QED
  BY <1>1, <1>2, FS_Subset, FS_CardinalityType

\* No child has been forked.
LEMMA HandlerInit == NumChildren \in Nat /\ Sigchld!Init => Sigchld!HandlerInv
<1> SUFFICES ASSUME NumChildren \in Nat, Sigchld!Init
             PROVE  Sigchld!HandlerInv
  OBVIOUS
<1>1. Sigchld!In("reaped") = {} /\ Sigchld!In("zombie") = {}
  BY DEF Sigchld!Init, Sigchld!In
<1>2. Sigchld!CountAgrees
  BY <1>1, FS_EmptySet, SameCardinality DEF Sigchld!Init, Sigchld!CountAgrees
<1>3. sg_pending \in BOOLEAN
  BY DEF Sigchld!Init
<1> QED
  BY <1>1, <1>2, <1>3 DEF Sigchld!Init, Sigchld!HandlerInv, Sigchld!TypeOK

\* Every step keeps the invariant.
LEMMA HandlerStep ==
  ASSUME NumChildren \in Nat, Sigchld!HandlerInv, [Sigchld!Next]_Sigchld!vars
  PROVE  Sigchld!HandlerInv'
<1> USE DEF Sigchld!HandlerInv, Sigchld!TypeOK, Sigchld!CountAgrees, Sigchld!Goto
<1>1. CASE Sigchld!Fork
  <2>1. sg_forked + 1 \in Sigchld!Children /\ sg_cpc[sg_forked + 1] = "none"
    BY <1>1 DEF Sigchld!Fork, Sigchld!Children
  <2>2. /\ Sigchld!In("reaped")' = Sigchld!In("reaped")
        /\ Sigchld!In("zombie")' = Sigchld!In("zombie")
    BY <1>1, <2>1 DEF Sigchld!Fork, Sigchld!In
  <2>3. \A i \in Sigchld!Children : i > sg_forked' => sg_cpc'[i] = "none"
    BY <1>1, <2>1 DEF Sigchld!Fork, Sigchld!Children
  <2> QED
    BY <1>1, <2>1, <2>2, <2>3 DEF Sigchld!Fork
<1>2. CASE Sigchld!AllForked \/ Sigchld!Test
  BY <1>2 DEF Sigchld!AllForked, Sigchld!Test, Sigchld!In
<1>3. CASE Sigchld!Suspend
  BY <1>3 DEF Sigchld!Suspend, Sigchld!In
<1>4. CASE Sigchld!HandlerReaps
  <2>1. PICK i \in Sigchld!In("zombie") : sg_cpc' = [sg_cpc EXCEPT ![i] = "reaped"]
    BY <1>4 DEF Sigchld!HandlerReaps
  <2>2. i \in Sigchld!Children /\ sg_cpc[i] = "zombie" /\ i \notin Sigchld!In("reaped")
    BY <2>1 DEF Sigchld!In
  <2>3. Sigchld!In("reaped")' = Sigchld!In("reaped") \cup {i}
    BY <2>1, <2>2 DEF Sigchld!In
  <2>4. Cardinality(Sigchld!In("reaped")') = Cardinality(Sigchld!In("reaped")) + 1
    BY <2>2, <2>3, InFacts, FS_AddElement
  <2>5. Cardinality(Sigchld!In("reaped")') \in 0..NumChildren
    <3>1. Sigchld!In("reaped")' \subseteq Sigchld!Children
      BY DEF Sigchld!In, Sigchld!Children
    <3>2. IsFiniteSet(Sigchld!Children) /\ Cardinality(Sigchld!Children) = NumChildren
      BY FS_Interval DEF Sigchld!Children
    <3> QED
      BY <2>3, <2>4, <3>1, <3>2, InFacts, FS_Subset, FS_CardinalityType
  <2>6. \A j \in Sigchld!Children : j > sg_forked => sg_cpc'[j] = "none"
    BY <2>1, <2>2
  <2> QED
    BY <1>4, <2>1, <2>2, <2>4, <2>5, <2>6, InFacts, SameCardinality DEF Sigchld!HandlerReaps
<1>5. CASE Sigchld!HandlerFindsNone
  BY <1>5 DEF Sigchld!HandlerFindsNone, Sigchld!In
<1>6. CASE Sigchld!HandlerReturns
  BY <1>6 DEF Sigchld!HandlerReturns, Sigchld!In
<1>7. ASSUME NEW i \in Sigchld!Children, Sigchld!Exit(i)
      PROVE  Sigchld!HandlerInv'
  <2>1. Sigchld!In("reaped")' = Sigchld!In("reaped")
    BY <1>7 DEF Sigchld!Exit, Sigchld!In
  <2>2. sg_pending' \in BOOLEAN /\ sg_pending'
    BY <1>7 DEF Sigchld!Exit
  <2> QED
    BY <1>7, <2>1, <2>2 DEF Sigchld!Exit
<1>8. CASE UNCHANGED Sigchld!vars
  BY <1>8 DEF Sigchld!vars, Sigchld!In
<1> QED
  BY <1>1, <1>2, <1>3, <1>4, <1>5, <1>6, <1>7, <1>8 DEF Sigchld!Next, Sigchld!Main,
    Sigchld!Ended

-----------------------------------------------------------------------------
(***************************************************************************)
(* Proof that pshm_writer.c and pshm_reader.c implement BlockTransfer, for *)
(* an input of any length, the empty one included, and whichever of them   *)
(* is started first.                                                       *)
(***************************************************************************)

Pshm ==
  INSTANCE PshmTransfer WITH
    names <- x1, write_sem <- x2, read_sem <- x3, size <- x4, addr <- x5,
    buf <- x6, wpc <- x7, rpc <- x8, next <- x9, put <- x10, out <- x11

\* What the reader has printed of what the writer has copied.
PshmBlocks ==
  INSTANCE BlockTransfer WITH
    in <- x10, out <- x11, ended <- (x8 \in {"unlink", "done"})

ps_names == x1
ps_write_sem == x2
ps_read_sem == x3
ps_size == x4
ps_addr == x5
ps_buf == x6
ps_wpc == x7
ps_rpc == x8
ps_next == x9
ps_put == x10
ps_out == x11

USE DEF ps_names, ps_write_sem, ps_read_sem, ps_size, ps_addr, ps_buf, ps_wpc, ps_rpc,
        ps_next, ps_put, ps_out

\* Neither program has begun.
LEMMA PshmInit == N \in Nat /\ Pshm!Init => Pshm!Inv
<1> SUFFICES ASSUME N \in Nat, Pshm!Init
             PROVE  Pshm!Inv
  OBVIOUS
<1>1. ps_size \in BOOLEAN
  BY DEF Pshm!Init
<1>2. ps_out \in Seq(0..N) /\ Len(ps_out) = 0
  BY DEF Pshm!Init
<1> QED
  BY <1>1, <1>2 DEF Pshm!Init, Pshm!Inv, Pshm!TypeOK, Pshm!TurnInv, Pshm!Turn, Pshm!Away,
    Pshm!Over, Pshm!Names

\* Each semaphore is posted only by who took the token from the other.
LEMMA PshmTypes == ASSUME N \in Nat, Pshm!Inv, [Pshm!Next]_Pshm!vars
                   PROVE  Pshm!TypeOK'
<1> USE DEF Pshm!Inv, Pshm!TypeOK, Pshm!TurnInv, Pshm!Turn, Pshm!Away, Pshm!Over,
  Pshm!WriterGoto, Pshm!ReaderGoto, Pshm!shared, Pshm!writer,
            Pshm!reader
<1>1. CASE Pshm!CreateShm \/ Pshm!CreateWriterSem \/ Pshm!OpenReaderSem
  <2>1. CASE Pshm!CreateShm
    <3>1. ps_names' \subseteq Pshm!Names /\ ps_size' \in BOOLEAN
      BY <2>1 DEF Pshm!CreateShm, Pshm!Names
    <3> QED
      BY <2>1, <3>1 DEF Pshm!CreateShm
  <2>2. CASE Pshm!CreateWriterSem
    BY <2>2 DEF Pshm!CreateWriterSem, Pshm!Names
  <2>3. CASE Pshm!OpenReaderSem
    BY <2>3 DEF Pshm!OpenReaderSem
  <2> QED
    BY <1>1, <2>1, <2>2, <2>3
<1>2. CASE Pshm!WriterWaits \/ Pshm!ReadInput
  <2>1. CASE Pshm!WriterWaits
    BY <2>1 DEF Pshm!WriterWaits
  <2>2. CASE Pshm!ReadInput /\ ps_next < N
    BY <2>2 DEF Pshm!ReadInput
  <2>3. CASE Pshm!ReadInput /\ ps_next = N
    <3>1. ps_size' \in BOOLEAN
      BY <2>3 DEF Pshm!ReadInput
    <3> QED
      BY <2>3, <3>1 DEF Pshm!ReadInput
  <2> QED
    BY <1>2, <2>1, <2>2, <2>3 DEF Pshm!ReadInput
<1>3. CASE Pshm!Copy
  BY <1>3 DEF Pshm!Copy
<1>4. CASE Pshm!WriterPosts \/ Pshm!WriterUnlinks
  BY <1>4 DEF Pshm!WriterPosts, Pshm!WriterUnlinks
<1>5. CASE Pshm!CreateReaderSem \/ Pshm!OpenWriterSem \/ Pshm!OpenShm
  BY <1>5 DEF Pshm!CreateReaderSem, Pshm!OpenWriterSem, Pshm!OpenShm, Pshm!Names
<1>6. CASE Pshm!ReaderWaits \/ Pshm!ReaderStats \/ Pshm!ReaderUnlinks
  BY <1>6 DEF Pshm!ReaderWaits, Pshm!ReaderStats, Pshm!ReaderUnlinks
<1>7. CASE Pshm!ReaderPrints
  <2>1. Append(ps_out, ps_addr) \in Seq(0..N)
    BY AppendProperties
  <2>2. ps_rpc' \in {"wait", "post"} /\ ps_write_sem' \in 0..1
    BY <1>7 DEF Pshm!ReaderPrints
  <2> QED BY <1>7, <2>1, <2>2 DEF Pshm!ReaderPrints
<1>8. CASE UNCHANGED Pshm!vars
  BY <1>8 DEF Pshm!vars
<1> QED
  BY <1>1, <1>2, <1>3, <1>4, <1>5, <1>6, <1>7, <1>8 DEF Pshm!Next, Pshm!Writer, Pshm!Reader,
    Pshm!Ended

\* The token goes round.
LEMMA PshmTurn == ASSUME N \in Nat, Pshm!Inv, [Pshm!Next]_Pshm!vars
                  PROVE  Pshm!TurnInv'
<1> USE DEF Pshm!Inv, Pshm!TypeOK, Pshm!TurnInv, Pshm!Turn, Pshm!Away, Pshm!Over,
  Pshm!WriterGoto, Pshm!ReaderGoto, Pshm!shared, Pshm!writer,
            Pshm!reader
<1>1. CASE Pshm!CreateShm \/ Pshm!CreateWriterSem \/ Pshm!OpenReaderSem
  BY <1>1 DEF Pshm!CreateShm, Pshm!CreateWriterSem, Pshm!OpenReaderSem
<1>2. CASE Pshm!WriterWaits
  BY <1>2 DEF Pshm!WriterWaits
<1>3. CASE Pshm!ReadInput
  <2>1. CASE ps_next < N
    BY <1>3, <2>1 DEF Pshm!ReadInput
  <2>2. CASE ps_next = N
    <3>1. ps_size' = FALSE /\ ps_wpc = "read" /\ ps_wpc' = "postLast"
      BY <1>3, <2>2 DEF Pshm!ReadInput
    <3> QED
      BY <1>3, <2>2, <3>1 DEF Pshm!ReadInput
  <2> QED
    BY <1>3, <2>1, <2>2 DEF Pshm!ReadInput
<1>4. CASE Pshm!Copy
  BY <1>4 DEF Pshm!Copy
<1>5. CASE Pshm!WriterPosts
  BY <1>5 DEF Pshm!WriterPosts
<1>6. CASE Pshm!WriterUnlinks
  BY <1>6 DEF Pshm!WriterUnlinks
<1>7. CASE Pshm!CreateReaderSem \/ Pshm!OpenWriterSem \/ Pshm!OpenShm
  BY <1>7 DEF Pshm!CreateReaderSem, Pshm!OpenWriterSem, Pshm!OpenShm
<1>8. CASE Pshm!ReaderWaits
  BY <1>8 DEF Pshm!ReaderWaits
<1>9. CASE Pshm!ReaderStats \/ Pshm!ReaderUnlinks
  BY <1>9 DEF Pshm!ReaderStats, Pshm!ReaderUnlinks
<1>10. CASE Pshm!ReaderPrints
  <2>1. Len(Append(ps_out, ps_addr)) = Len(ps_out) + 1
    BY AppendProperties
  <2> QED
    BY <1>10, <2>1 DEF Pshm!ReaderPrints
<1>11. CASE UNCHANGED Pshm!vars
  BY <1>11 DEF Pshm!vars
<1> QED
  BY <1>1, <1>2, <1>3, <1>4, <1>5, <1>6, <1>7, <1>8, <1>9, <1>10, <1>11
  DEF Pshm!Next, Pshm!Writer, Pshm!Reader, Pshm!Ended

\* A copy puts the next block in the object, a print takes it out, and the reader
\* finds the object empty only when every block is out.
LEMMA PshmStep ==
  ASSUME N \in Nat, Pshm!Inv, [Pshm!Next]_Pshm!vars
  PROVE  [PshmBlocks!BPut \/ PshmBlocks!BGet \/ PshmBlocks!BEnd
         ]_<<ps_put, ps_out, ps_rpc \in {"unlink", "done"}>>
<1> USE DEF Pshm!Inv, Pshm!TypeOK, Pshm!TurnInv, Pshm!Turn, Pshm!Away, Pshm!Over,
  Pshm!WriterGoto, Pshm!ReaderGoto, Pshm!shared, Pshm!writer,
            Pshm!reader
<1>1. CASE Pshm!Copy
  BY <1>1 DEF Pshm!Copy, PshmBlocks!BPut
<1>2. CASE Pshm!ReaderPrints
  BY <1>2 DEF Pshm!ReaderPrints, PshmBlocks!BGet
<1>3. CASE Pshm!ReaderStats
  BY <1>3 DEF Pshm!ReaderStats, PshmBlocks!BEnd
<1>4. CASE Pshm!CreateShm \/ Pshm!CreateWriterSem \/ Pshm!OpenReaderSem \/ Pshm!WriterWaits
  BY <1>4 DEF Pshm!CreateShm, Pshm!CreateWriterSem, Pshm!OpenReaderSem, Pshm!WriterWaits
<1>5. CASE Pshm!ReadInput \/ Pshm!WriterPosts \/ Pshm!WriterUnlinks
  BY <1>5 DEF Pshm!ReadInput, Pshm!WriterPosts, Pshm!WriterUnlinks
<1>6. CASE \/ Pshm!CreateReaderSem \/ Pshm!OpenWriterSem \/ Pshm!OpenShm \/ Pshm!ReaderWaits
           \/ Pshm!ReaderUnlinks
  BY <1>6 DEF Pshm!CreateReaderSem, Pshm!OpenWriterSem, Pshm!OpenShm, Pshm!ReaderWaits,
    Pshm!ReaderUnlinks
<1>7. CASE UNCHANGED Pshm!vars
  BY <1>7 DEF Pshm!vars
<1> QED
  BY <1>1, <1>2, <1>3, <1>4, <1>5, <1>6, <1>7 DEF Pshm!Next, Pshm!Writer, Pshm!Reader,
    Pshm!Ended

-----------------------------------------------------------------------------
(***************************************************************************)
(* Proofs about the programs of chapter 64, for any number of bytes typed  *)
(* and any pty: what is typed reaches the program on the slave in order,   *)
(* and its output the terminal and the typescript.                         *)
(***************************************************************************)

Pty ==
  INSTANCE PtyRelay WITH
    N <- NumTyped,
    tool <- x1, typed <- x2, unread <- x3, eof <- x4, toSlave <- x5,
    toMaster <- x6, child <- x7, got <- x8, wrote <- x9, shown <- x10,
    script <- x11, term <- x12, ready <- x13, rpc <- x14, kpc <- x15

py_tool == x1
py_typed == x2
py_unread == x3
py_eof == x4
py_toSlave == x5
py_toMaster == x6
py_child == x7
py_got == x8
py_wrote == x9
py_shown == x10
py_script == x11
py_term == x12
py_ready == x13
py_rpc == x14
py_kpc == x15

USE DEF py_tool, py_typed, py_unread, py_eof, py_toSlave, py_toMaster, py_child,
        py_got, py_wrote, py_shown, py_script, py_term, py_ready, py_rpc, py_kpc

\* What appending a number does.
LEMMA IntAppends ==
  \A s \in Seq(Pty!Values), x \in Pty!Values :
    /\ Append(s, x) \in Seq(Pty!Values) /\ Append(s, x) # <<>>
    /\ Len(Append(s, x)) = Len(s) + 1 /\ Append(s, x)[Len(s) + 1] = x
BY AppendProperties

\* Sequences of numbers, as they are moved.
LEMMA IntMoves ==
  /\ \A s, t, u \in Seq(Pty!Values) : (s \o t) \o u = s \o (t \o u)
  /\ \A s, t \in Seq(Pty!Values), x \in Pty!Values : s \o Append(t, x) = Append(s \o t, x)
  /\ \A s, t \in Seq(Pty!Values) : t # <<>> =>
       /\ Append(s, Head(t)) \o Tail(t) = s \o t
       /\ Head(t) \in Pty!Values /\ Tail(t) \in Seq(Pty!Values)
       /\ Append(s, Head(t)) \in Seq(Pty!Values)
<1>1. ASSUME NEW s \in Seq(Pty!Values), NEW t \in Seq(Pty!Values), NEW u \in Seq(Pty!Values)
      PROVE  (s \o t) \o u = s \o (t \o u)
  BY ConcatAssociative
<1>2. ASSUME NEW s \in Seq(Pty!Values), NEW t \in Seq(Pty!Values), NEW x \in Pty!Values
      PROVE  s \o Append(t, x) = Append(s \o t, x)
  BY AppendLast
<1>3. ASSUME NEW s \in Seq(Pty!Values), NEW t \in Seq(Pty!Values), t # <<>>
      PROVE  /\ Append(s, Head(t)) \o Tail(t) = s \o t
             /\ Head(t) \in Pty!Values /\ Tail(t) \in Seq(Pty!Values)
             /\ Append(s, Head(t)) \in Seq(Pty!Values)
  BY <1>3, MoveHead
<1> QED BY <1>1, <1>2, <1>3

\* A sequence is a prefix of itself and of what is appended to it.
LEMMA PrefixFacts ==
  ASSUME NEW s \in Seq(Pty!Values), NEW t \in Seq(Pty!Values)
  PROVE  Pty!IsPrefix(s, s \o t) /\ Pty!IsPrefix(s, s) /\ Pty!IsPrefix(<<>>, s)
<1>1. SubSeq(s \o t, 1, Len(s)) = s /\ Len(s) <= Len(s \o t)
  BY FirstIsPrefix
<1>2. SubSeq(s, 1, Len(s)) = s /\ Len(s) \in Nat
  BY SubSeqFull, LenProperties
<1>3. Len(<<>>) = 0 /\ SubSeq(<<>>, 1, 0) = <<>> /\ SubSeq(s, 1, 0) = <<>>
  BY SubSeqEmpty, EmptySeq
<1> QED BY <1>1, <1>2, <1>3 DEF Pty!IsPrefix

\* The first n numbers.
LEMMA UptoFacts ==
  ASSUME NEW n \in Nat
  PROVE  /\ Pty!Upto(n) \in Seq(Pty!Values) /\ Len(Pty!Upto(n)) = n
         /\ Append(Pty!Upto(n), n + 1) = Pty!Upto(n + 1) /\ n + 1 \in Pty!Values
         /\ n + 1 \in Nat
<1>1. Pty!Upto(n) \in Seq(Pty!Values) /\ Len(Pty!Upto(n)) = n
  BY SMT DEF Pty!Upto, Pty!Values
<1>2. Pty!Upto(n + 1) \in Seq(Pty!Values) /\ Len(Pty!Upto(n + 1)) = n + 1
  BY SMT DEF Pty!Upto, Pty!Values
<1>3. /\ Append(Pty!Upto(n), n + 1) \in Seq(Pty!Values)
      /\ Len(Append(Pty!Upto(n), n + 1)) = n + 1
      /\ \A i \in 1..n : Append(Pty!Upto(n), n + 1)[i] = Pty!Upto(n)[i]
      /\ Append(Pty!Upto(n), n + 1)[n + 1] = n + 1
  <2>1. n + 1 \in Pty!Values
    BY DEF Pty!Values
  <2> QED BY <1>1, <2>1, AppendProperties
<1>4. \A i \in 1..(n + 1) : Append(Pty!Upto(n), n + 1)[i] = Pty!Upto(n + 1)[i]
  BY <1>3 DEF Pty!Upto
<1> HIDE DEF Pty!Upto
<1> QED BY <1>1, <1>2, <1>3, <1>4, SeqEqual DEF Pty!Values

\* What comes first of the first n numbers is the first few of them.
LEMMA UptoPrefix ==
  ASSUME NEW s \in Seq(Pty!Values), NEW t \in Seq(Pty!Values), NEW n \in Nat,
         s \o t = Pty!Upto(n)
  PROVE  s = Pty!Upto(Len(s))
<1>1. Len(s) \in Nat /\ Len(t) \in Nat /\ Len(s) <= n
  <2>1. Len(s) \in Nat /\ Len(t) \in Nat /\ Len(s \o t) = Len(s) + Len(t)
    BY LenProperties, ConcatProperties
  <2>2. Len(s \o t) = n
    BY UptoFacts
  <2> QED BY <2>1, <2>2
<1>2. \A i \in 1..Len(s) : s[i] = i
  <2>1. ASSUME NEW i \in 1..Len(s)
        PROVE  (s \o t)[i] = s[i]
    <3>1. i \in 1..Len(s) + Len(t) /\ i <= Len(s)
      BY <1>1
    <3> QED BY <3>1, ConcatProperties
  <2>2. \A i \in 1..Len(s) : i \in 1..n
    BY <1>1
  <2>3. \A i \in 1..n : Pty!Upto(n)[i] = i
    BY DEF Pty!Upto
  <2> QED BY <2>1, <2>2, <2>3
<1>3. Pty!Upto(Len(s)) \in Seq(Pty!Values) /\ Len(Pty!Upto(Len(s))) = Len(s)
  BY <1>1, UptoFacts
<1>4. \A i \in 1..Len(s) : Pty!Upto(Len(s))[i] = i
  BY <1>1 DEF Pty!Upto
<1> QED BY <1>2, <1>3, <1>4, SeqEqual

\* The type of every variable, and the bytes in hand.
LEMMA RelayStarts == Pty!Init => Pty!RelayInv
<1> SUFFICES ASSUME Pty!Init PROVE Pty!RelayInv
  OBVIOUS
<1> USE DEF Pty!Init, Pty!Over
<1>1. <<>> \in Seq(Pty!Values) /\ Len(<<>>) = 0 /\ <<>> \o <<>> = <<>>
  BY EmptySeq, ConcatEmptySeq
<1>2. Pty!Upto(0) = <<>>
  BY UptoFacts, EmptySeq
<1>3. Pty!RelayTyped
  BY <1>1 DEF Pty!RelayTyped, Pty!Scripts
<1>4. Pty!InputInOrder
  BY <1>1, <1>2 DEF Pty!InputInOrder
<1>5. Pty!OutputInOrder
  BY <1>1 DEF Pty!OutputInOrder, Pty!IsPrefix
<1>6. Pty!RelayKnows
  BY DEF Pty!RelayKnows, Pty!Scripts
<1> QED BY <1>3, <1>4, <1>5, <1>6 DEF Pty!RelayInv

\* Types: a byte is moved whole.
LEMMA RelayTypes ==
  Pty!RelayTyped /\ Pty!InputInOrder /\ [Pty!Next]_Pty!vars => Pty!RelayTyped'
<1> SUFFICES ASSUME Pty!RelayTyped, Pty!InputInOrder, [Pty!Next]_Pty!vars
             PROVE Pty!RelayTyped'
  OBVIOUS
<1>10. CASE UNCHANGED Pty!vars
  <2>1. /\ py_tool' = py_tool /\ py_typed' = py_typed /\ py_unread' = py_unread
        /\ py_eof' = py_eof
        /\ py_toSlave' = py_toSlave /\ py_toMaster' = py_toMaster /\ py_child' = py_child
        /\ py_got' = py_got
        /\ py_wrote' = py_wrote /\ py_shown' = py_shown /\ py_script' = py_script
        /\ py_term' = py_term
        /\ py_ready' = py_ready /\ py_rpc' = py_rpc /\ py_kpc' = py_kpc
    BY <1>10 DEF Pty!vars
  <2>2. /\ py_typed' \in Nat /\ py_unread' \in Seq(Pty!Values)
        /\ py_toSlave' \in Seq(Pty!Values)
        /\ py_toMaster' \in Seq(Pty!Values) /\ py_got' \in Seq(Pty!Values)
        /\ py_wrote' \in Seq(Pty!Values)
        /\ py_shown' \in Seq(Pty!Values) /\ py_script' \in Seq(Pty!Values)
    BY <2>1 DEF Pty!RelayTyped
  <2>3. /\ py_tool' \in Pty!Scripts \cup {"unbuffer", "drivi"} /\ py_eof' \in BOOLEAN
        /\ py_child' \in {"fork", "run", "write", "gone"}
        /\ py_term' \in {"cooked", "raw"} /\ py_ready' \subseteq {"stdin", "master"}
        /\ py_rpc' \in {"start", "wait", "in", "out", "no fork", "kill", "hup", "done",
                        "failed"}
        /\ py_kpc' \in {"none", "read", "zombie", "reaped"}
    BY <2>1 DEF Pty!RelayTyped
  <2> QED BY <2>2, <2>3 DEF Pty!RelayTyped
<1> USE DEF Pty!RelayTyped, Pty!user, Pty!slave, Pty!outputs
<1>1. CASE Pty!Type
  <2>1. py_typed + 1 \in Nat /\ Append(py_unread, py_typed + 1) \in Seq(Pty!Values)
    <3>1. py_typed + 1 \in Nat /\ py_typed + 1 \in Pty!Values
      BY UptoFacts, Zenon
    <3> QED BY <3>1, AppendProperties
  <2> QED BY <1>1, <2>1 DEF Pty!Type
<1>2. CASE Pty!HangUp \/ Pty!Exec \/ Pty!ChildExits
  <2>1. CASE Pty!HangUp
    BY <2>1 DEF Pty!HangUp
  <2>2. CASE Pty!Exec
    BY <2>2 DEF Pty!Exec
  <2>3. CASE Pty!ChildExits
    BY <2>3 DEF Pty!ChildExits
  <2> QED BY <1>2, <2>1, <2>2, <2>3
<1>3. CASE Pty!Work \/ Pty!Discard
  <2>1. py_got' \in Seq(Pty!Values) /\ py_toSlave' \in Seq(Pty!Values)
    <3>1. CASE Pty!Work
      BY <3>1, MoveHead DEF Pty!Work
    <3>2. CASE Pty!Discard
      BY <3>2, MoveHead DEF Pty!Discard
    <3> QED BY <1>3, <3>1, <3>2
  <2>2. py_child' \in {"fork", "run", "write", "gone"}
    BY <1>3 DEF Pty!Work, Pty!Discard, Pty!Rest
  <2> QED BY <1>3, <2>1, <2>2 DEF Pty!Work, Pty!Discard
<1>4. CASE Pty!Reply
  <2>1. Pty!Last(py_got) \in Pty!Values
    <3>1. py_got # <<>>
      BY <1>4 DEF Pty!Reply, Pty!InputInOrder
    <3>2. py_got[Len(py_got)] \in Pty!Values
      BY <3>1, LastIn, Zenon
    <3> QED BY <3>2 DEF Pty!Last
  <2>2. py_toMaster' \in Seq(Pty!Values) /\ py_wrote' \in Seq(Pty!Values)
    BY <1>4, <2>1, AppendProperties DEF Pty!Reply
  <2>3. py_child' \in {"fork", "run", "write", "gone"}
    BY <1>4 DEF Pty!Reply, Pty!Rest
  <2> QED BY <1>4, <2>2, <2>3 DEF Pty!Reply
<1>5. CASE Pty!Start \/ Pty!Wait \/ Pty!KillReader \/ Pty!Hup
  <2>1. CASE Pty!Start
    BY <2>1 DEF Pty!Start
  <2>2. CASE Pty!Wait
    <3>1. py_ready' \subseteq {"stdin", "master"}
      BY <2>2 DEF Pty!Wait
    <3> QED BY <2>2, <3>1 DEF Pty!Wait
  <2>3. CASE Pty!KillReader \/ Pty!Hup
    BY <2>3 DEF Pty!KillReader, Pty!Hup, Pty!ExitRelay
  <2> QED BY <1>5, <2>1, <2>2, <2>3
<1>6. CASE Pty!CopyIn
  <2>1. py_toSlave \o py_unread \in Seq(Pty!Values) /\ <<>> \in Seq(Pty!Values)
    BY ConcatProperties, EmptySeq
  <2>2. py_unread' \in Seq(Pty!Values) /\ py_toSlave' \in Seq(Pty!Values)
    BY <1>6, <2>1 DEF Pty!CopyIn
  <2>3. py_rpc' \in {"out", "done", "failed"} /\ py_term' \in {"cooked", "raw"}
    BY <1>6 DEF Pty!CopyIn, Pty!ExitRelay
  <2>4. py_ready' \subseteq {"stdin", "master"}
    BY <1>6 DEF Pty!CopyIn
  <2> QED BY <1>6, <2>2, <2>3, <2>4 DEF Pty!CopyIn
<1>7. CASE Pty!CopyOut
  <2>1. py_shown \o py_toMaster \in Seq(Pty!Values) /\ <<>> \in Seq(Pty!Values)
    BY ConcatProperties, EmptySeq
  <2>2. /\ py_shown' \in Seq(Pty!Values) /\ py_toMaster' \in Seq(Pty!Values)
        /\ py_script' \in Seq(Pty!Values)
    BY <1>7, <2>1 DEF Pty!CopyOut
  <2>3. /\ py_rpc' \in {"wait", "kill", "done", "failed", "out"}
        /\ py_term' \in {"cooked", "raw"}
    BY <1>7 DEF Pty!CopyOut, Pty!ExitRelay
  <2>4. py_ready' \subseteq {"stdin", "master"}
    BY <1>7 DEF Pty!CopyOut
  <2> QED BY <1>7, <2>2, <2>3, <2>4 DEF Pty!CopyOut
<1>8. CASE Pty!ReadStdin
  <2>1. py_toSlave \o py_unread \in Seq(Pty!Values) /\ <<>> \in Seq(Pty!Values)
    BY ConcatProperties, EmptySeq
  <2> QED BY <1>8, <2>1 DEF Pty!ReadStdin
<1>9. CASE Pty!Command
  <2>1. /\ Append(py_toSlave, Head(py_unread)) \in Seq(Pty!Values)
        /\ Tail(py_unread) \in Seq(Pty!Values)
    BY <1>9, MoveHead DEF Pty!Command
  <2> QED BY <1>9, <2>1 DEF Pty!Command
<1> QED BY <1>1, <1>2, <1>3, <1>4, <1>5, <1>6, <1>7, <1>8, <1>9, <1>10 DEF Pty!Next,
  Pty!Child, Pty!Relay

\* What is typed stays in its order on its way to the slave.
LEMMA InputStep ==
  Pty!RelayTyped /\ Pty!InputInOrder /\ Pty!RelayKnows /\ [Pty!Next]_Pty!vars =>
    Pty!InputInOrder'
<1> SUFFICES ASSUME Pty!RelayTyped, Pty!InputInOrder, Pty!RelayKnows, [Pty!Next]_Pty!vars
             PROVE Pty!InputInOrder'
  OBVIOUS
<1> DEFINE sent == py_got \o py_toSlave
<1>0. /\ sent = py_got \o py_toSlave
      /\ sent \in Seq(Pty!Values) /\ Len(sent) = Len(py_got) + Len(py_toSlave)
      /\ Len(py_got) \in Nat
      /\ Len(py_toSlave) \in Nat /\ py_typed \in Nat
      /\ py_got \in Seq(Pty!Values) /\ py_toSlave \in Seq(Pty!Values)
      /\ py_unread \in Seq(Pty!Values)
  BY ConcatProperties, LenProperties DEF Pty!RelayTyped
<1> HIDE DEF sent
\* What is passed on is a prefix of what was typed.
<1>p. ASSUME NEW s \in Seq(Pty!Values), NEW t \in Seq(Pty!Values), NEW n \in Nat,
             s \o t = Pty!Upto(n)
      PROVE  s = Pty!Upto(Len(s))
  BY <1>p, UptoPrefix
\* A step that neither sends nor loses a byte.
<1>q. ASSUME py_got' = py_got, py_toSlave' = py_toSlave,
             Pty!Passing' => Pty!Passing /\ py_unread' = py_unread /\ py_typed' = py_typed,
             py_child' = "write" => py_child = "write",
             py_tool' = "drivi" /\ py_child' = "gone" =>
               py_tool = "drivi" /\ py_child = "gone"
      PROVE  Pty!InputInOrder'
  BY <1>q DEF Pty!InputInOrder, sent
<1>1. CASE Pty!Type
  <2>1. /\ UNCHANGED <<py_tool, py_got, py_toSlave, py_child>> /\ Pty!Passing' = Pty!Passing
        /\ py_typed' = py_typed + 1 /\ py_unread' = Append(py_unread, py_typed + 1)
    BY <1>1 DEF Pty!Type, Pty!Passing, Pty!Over, Pty!slave
  <2>2. Pty!Passing =>
          sent \o Append(py_unread, py_typed + 1) = Append(sent \o py_unread, py_typed + 1)
    <3>1. py_typed + 1 \in Pty!Values
      BY <1>0, UptoFacts
    <3> QED BY <1>0, <3>1, AppendLast
  <2>3. Append(Pty!Upto(py_typed), py_typed + 1) = Pty!Upto(py_typed + 1)
    BY <1>0, UptoFacts
  <2> QED BY <2>1, <2>2, <2>3 DEF Pty!InputInOrder, sent
<1>2. CASE Pty!Work \/ Pty!Discard
  <2>1. /\ py_toSlave # <<>> /\ py_got' = Append(py_got, Head(py_toSlave))
        /\ py_toSlave' = Tail(py_toSlave)
        /\ py_child' \in {"run", "write", Pty!Rest(Head(py_toSlave))} /\ py_child = "run"
        /\ UNCHANGED <<py_tool, py_typed, py_unread>> /\ Pty!Passing' = Pty!Passing
    BY <1>2 DEF Pty!Work, Pty!Discard, Pty!Passing, Pty!Over, Pty!user
  <2>2. py_got' \o py_toSlave' = py_got \o py_toSlave
    <3>1. Append(py_got, Head(py_toSlave)) \o Tail(py_toSlave) = py_got \o py_toSlave
      BY <1>0, <2>1, IntMoves
    <3> QED BY <3>1, <2>1, Zenon
  <2>3. /\ py_got' \in Seq(Pty!Values) /\ py_got' # <<>> /\ py_toSlave' \in Seq(Pty!Values)
        /\ Head(py_toSlave) \in Pty!Values
        /\ Len(py_got') = Len(py_got) + 1 /\ py_got'[Len(py_got) + 1] = Head(py_toSlave)
    <3>1. Head(py_toSlave) \in Pty!Values /\ py_toSlave' \in Seq(Pty!Values)
      BY <1>0, <2>1, IntMoves
    <3>2. /\ Append(py_got, Head(py_toSlave)) \in Seq(Pty!Values)
          /\ Append(py_got, Head(py_toSlave)) # <<>>
          /\ Len(Append(py_got, Head(py_toSlave))) = Len(py_got) + 1
          /\ Append(py_got, Head(py_toSlave))[Len(py_got) + 1] = Head(py_toSlave)
      BY <3>1, <1>0, IntAppends
    <3> QED BY <3>1, <3>2, <2>1
  <2>4. py_tool = "drivi" /\ py_child' = "gone" => Len(py_got') = NumTyped
    <3>1. py_got' = Pty!Upto(Len(py_got'))
      <4>1. py_got' \o py_toSlave' = Pty!Upto(Len(py_got) + Len(py_toSlave))
        BY <1>0, <2>2 DEF Pty!InputInOrder, sent
      <4>2. Len(py_got) + Len(py_toSlave) \in Nat
        BY <1>0
      <4> QED BY <4>1, <4>2, <2>3, <1>p, Zenon
    <3>2. Head(py_toSlave) = Len(py_got')
      BY <1>0, <2>3, <3>1 DEF Pty!Upto
    <3> QED BY <2>1, <3>2 DEF Pty!Rest
  <2> QED BY <2>1, <2>2, <2>3, <2>4 DEF Pty!InputInOrder, sent
<1>3. CASE Pty!Reply
  <2>1. /\ UNCHANGED <<py_tool, py_got, py_toSlave, py_typed, py_unread>>
        /\ Pty!Passing' = Pty!Passing
        /\ py_child' = Pty!Rest(Pty!Last(py_got)) /\ py_child = "write"
    BY <1>3 DEF Pty!Reply, Pty!Passing, Pty!Over, Pty!user
  <2>2. py_got # <<>> /\ py_got = Pty!Upto(Len(py_got))
    <3>1. py_got # <<>> /\ py_got \o py_toSlave = Pty!Upto(Len(py_got) + Len(py_toSlave))
      BY <1>0, <2>1 DEF Pty!InputInOrder, sent
    <3>2. Len(py_got) + Len(py_toSlave) \in Nat
      BY <1>0
    <3> QED BY <3>1, <3>2, <1>0, <1>p, Zenon
  <2>3. Pty!Last(py_got) = Len(py_got)
    <3>1. Len(py_got) \in 1..Len(py_got)
      BY <1>0, <2>2, LastIn, Zenon
    <3> QED BY <2>2, <3>1 DEF Pty!Last, Pty!Upto
  <2> QED BY <2>1, <2>3 DEF Pty!InputInOrder, Pty!Rest
\* What is read from the terminal and written to the master.
<1>4. ASSUME py_toSlave' = py_toSlave \o py_unread, py_unread' = <<>>,
             UNCHANGED <<py_tool, py_got, py_child, py_typed>>,
             Pty!Passing
      PROVE  Pty!InputInOrder'
  <2>1. py_got \o (py_toSlave \o py_unread) = sent \o py_unread
    <3>1. (py_got \o py_toSlave) \o py_unread = py_got \o (py_toSlave \o py_unread)
      <4>1. Regrouped(py_got, py_toSlave, py_unread)
        BY <1>0, SplitFlow
      <4> QED BY <4>1 DEF Regrouped
    <3> QED BY <3>1, <1>0, Zenon
  <2>2. /\ sent \o py_unread \in Seq(Pty!Values)
        /\ (sent \o py_unread) \o <<>> = sent \o py_unread
    BY <1>0, ConcatProperties, ConcatEmptySeq
  <2>3. sent \o py_unread = Pty!Upto(py_typed) /\ Len(Pty!Upto(py_typed)) = py_typed
    BY <1>0, <1>4, UptoFacts DEF Pty!InputInOrder, sent
  <2> QED BY <1>4, <2>1, <2>2, <2>3 DEF Pty!InputInOrder, sent
<1>5. CASE Pty!CopyIn
  <2>1. /\ py_rpc = "in" /\ py_tool \in {"better_script", "unbuffer"} /\ Pty!Passing
        /\ UNCHANGED <<py_tool, py_got, py_child, py_typed>>
    BY <1>5 DEF Pty!CopyIn, Pty!Passing, Pty!Over, Pty!slave
  <2>2. CASE py_toSlave' = py_toSlave \o py_unread /\ py_unread' = <<>>
    BY <1>4, <2>1, <2>2
  <2>3. CASE py_toSlave' = py_toSlave /\ py_unread' = py_unread
    BY <1>q, <2>1, <2>3
  <2>4. CASE py_toSlave' = py_toSlave /\ py_rpc' = "failed"
    <3>1. ~Pty!Passing'
      BY <2>1, <2>4 DEF Pty!Passing, Pty!Over
    <3> QED BY <1>q, <2>1, <2>4, <3>1
  <2> QED BY <1>5, <2>2, <2>3, <2>4 DEF Pty!CopyIn, Pty!ExitRelay
<1>6. CASE Pty!ReadStdin
  <2>1. /\ py_kpc = "read" /\ py_tool = "fork_script" /\ Pty!Passing
        /\ UNCHANGED <<py_tool, py_got, py_child, py_typed>>
    BY <1>6 DEF Pty!ReadStdin, Pty!Passing, Pty!RelayKnows, Pty!slave
  <2>2. CASE py_toSlave' = py_toSlave \o py_unread
    BY <1>4, <1>6, <2>1, <2>2 DEF Pty!ReadStdin
  <2>3. CASE py_toSlave' = py_toSlave /\ py_kpc' = "zombie"
    <3>1. ~Pty!Passing'
      BY <2>1, <2>3 DEF Pty!Passing
    <3> QED BY <1>q, <2>1, <2>3, <3>1
  <2> QED BY <1>6, <2>2, <2>3 DEF Pty!ReadStdin
<1>7. CASE Pty!Command
  <2>1. /\ py_unread # <<>> /\ py_toSlave' = Append(py_toSlave, Head(py_unread))
        /\ py_unread' = Tail(py_unread)
        /\ UNCHANGED <<py_tool, py_got, py_child, py_typed>> /\ Pty!Passing
    BY <1>7 DEF Pty!Command, Pty!Passing, Pty!Over, Pty!slave
  <2>2. /\ Head(py_unread) \in Pty!Values
        /\ Append(sent, Head(py_unread)) \in Seq(Pty!Values)
        /\ Tail(py_unread) \in Seq(Pty!Values)
        /\ Append(sent, Head(py_unread)) \o Tail(py_unread) = sent \o py_unread
    <3>1. \A s \in Seq(Pty!Values) :
            /\ Append(s, Head(py_unread)) \in Seq(Pty!Values)
            /\ Append(s, Head(py_unread)) \o Tail(py_unread) = s \o py_unread
      BY <1>0, <2>1, IntMoves
    <3>2. Head(py_unread) \in Pty!Values /\ Tail(py_unread) \in Seq(Pty!Values)
      BY <1>0, <2>1, IntMoves
    <3> QED BY <1>0, <3>1, <3>2
  <2>3. py_got' \o py_toSlave' = Append(sent, Head(py_unread))
    <3>1. py_got \o Append(py_toSlave, Head(py_unread))
            = Append(py_got \o py_toSlave, Head(py_unread))
      BY <1>0, <2>2, AppendLast
    <3> QED BY <3>1, <1>0, <2>1
  <2>4. sent \o py_unread = Pty!Upto(py_typed)
    BY <2>1 DEF Pty!InputInOrder, sent
  <2>5. Append(sent, Head(py_unread)) = Pty!Upto(Len(Append(sent, Head(py_unread))))
    BY <1>0, <2>2, <2>4, <1>p
  <2> QED BY <2>1, <2>2, <2>3, <2>4, <2>5 DEF Pty!InputInOrder, sent
<1>8. CASE Pty!HangUp \/ Pty!Exec \/ Pty!ChildExits
  <2>1. /\ UNCHANGED <<py_tool, py_got, py_typed, py_unread, py_toSlave>>
        /\ Pty!Passing' = Pty!Passing
        /\ \/ py_child' = py_child \/ py_child' = "run"
           \/ py_tool # "drivi" /\ py_child' = "gone"
    <3>1. CASE Pty!HangUp
      BY <3>1 DEF Pty!HangUp, Pty!Passing, Pty!Over, Pty!user, Pty!slave
    <3>2. CASE Pty!Exec
      BY <3>2 DEF Pty!Exec, Pty!Passing, Pty!Over, Pty!user, Pty!slave
    <3>3. CASE Pty!ChildExits
      BY <3>3 DEF Pty!ChildExits, Pty!Passing, Pty!Over, Pty!user, Pty!slave
    <3> QED BY <1>8, <3>1, <3>2, <3>3
  <2> QED BY <1>q, <2>1
<1>9. CASE Pty!Start \/ Pty!Wait \/ Pty!CopyOut \/ Pty!KillReader \/ Pty!Hup
  <2>1. UNCHANGED <<py_tool, py_got, py_child, py_typed, py_unread, py_toSlave>>
    BY <1>9 DEF Pty!Start, Pty!Wait, Pty!CopyOut, Pty!KillReader, Pty!Hup, Pty!slave,
      Pty!user
  <2>2. Pty!Passing' => Pty!Passing
    <3>1. CASE Pty!Start \/ Pty!Wait \/ Pty!CopyOut
      BY <3>1, <2>1 DEF Pty!Start, Pty!Wait, Pty!CopyOut, Pty!Passing, Pty!Over,
        Pty!RelayKnows
    <3>2. CASE Pty!KillReader \/ Pty!Hup
      BY <3>2, <2>1 DEF Pty!KillReader, Pty!Hup, Pty!Passing, Pty!Over, Pty!RelayKnows
    <3> QED BY <1>9, <3>1, <3>2
  <2> QED BY <1>q, <2>1, <2>2
<1>10. CASE UNCHANGED Pty!vars
  BY <1>q, <1>10 DEF Pty!vars, Pty!Passing, Pty!Over
<1> QED BY <1>1, <1>2, <1>3, <1>5, <1>6, <1>7, <1>8, <1>9, <1>10 DEF Pty!Next, Pty!Child,
  Pty!Relay

\* What the child writes stays in its order on its way to the terminal.
LEMMA OutputStep ==
  Pty!RelayTyped /\ Pty!InputInOrder /\ Pty!OutputInOrder /\ [Pty!Next]_Pty!vars =>
    Pty!OutputInOrder'
<1> SUFFICES ASSUME Pty!RelayTyped, Pty!InputInOrder, Pty!OutputInOrder, [Pty!Next]_Pty!vars
             PROVE Pty!OutputInOrder'
  OBVIOUS
<1>0. /\ py_shown \in Seq(Pty!Values) /\ py_toMaster \in Seq(Pty!Values)
      /\ py_wrote \in Seq(Pty!Values) /\ py_got \in Seq(Pty!Values)
      /\ py_script \in Seq(Pty!Values)
  BY DEF Pty!RelayTyped
<1>1. ASSUME UNCHANGED <<py_tool, py_shown, py_toMaster, py_wrote, py_script>>,
             Pty!Over => Pty!Over'
      PROVE  Pty!OutputInOrder'
  BY <1>1 DEF Pty!OutputInOrder
<1>2. CASE Pty!Reply
  <2>1. /\ py_toMaster' = Append(py_toMaster, Pty!Last(py_got))
        /\ py_wrote' = Append(py_wrote, Pty!Last(py_got))
        /\ UNCHANGED <<py_tool, py_shown, py_script>> /\ Pty!Over' = Pty!Over
        /\ py_child = "write"
    BY <1>2 DEF Pty!Reply, Pty!Over, Pty!outputs
  <2>2. Pty!Last(py_got) \in Pty!Values
    BY <1>0, <2>1, LastIn DEF Pty!InputInOrder, Pty!Last
  <2>3. py_shown \o Append(py_toMaster, Pty!Last(py_got))
          = Append(py_shown \o py_toMaster, Pty!Last(py_got))
    BY <1>0, <2>2, AppendLast
  <2> QED BY <2>1, <2>3 DEF Pty!OutputInOrder
<1>3. CASE Pty!CopyOut
  <2>1. py_rpc = "out" /\ py_tool' = py_tool /\ py_wrote' = py_wrote /\ ~Pty!Over
    BY <1>3 DEF Pty!CopyOut, Pty!Over, Pty!slave
  <2>2. CASE UNCHANGED <<py_shown, py_toMaster, py_script>>
    BY <2>1, <2>2 DEF Pty!OutputInOrder
  <2>3. CASE /\ py_shown' = py_shown \o py_toMaster /\ py_toMaster' = <<>>
             /\ \/ py_tool \in Pty!Scripts /\ py_rpc' = "failed" /\ py_script' = py_script
                \/ py_script' = IF py_tool \in Pty!Scripts THEN py_shown' ELSE py_script
    <3>1. /\ py_shown \o py_toMaster \in Seq(Pty!Values)
          /\ (py_shown \o py_toMaster) \o <<>> = py_shown \o py_toMaster
      BY <1>0, ConcatProperties, ConcatEmptySeq
    <3>2. py_shown' \o py_toMaster' = py_wrote'
      BY <2>1, <2>3, <3>1 DEF Pty!OutputInOrder
    <3>3. py_tool \notin Pty!Scripts => py_script' = <<>>
      BY <2>3 DEF Pty!OutputInOrder
    <3>4. py_tool \in Pty!Scripts =>
            py_script' = py_shown' \/ (py_script' = py_shown /\ Pty!Over')
      BY <2>1, <2>3 DEF Pty!OutputInOrder, Pty!Over
    <3>5. /\ Pty!IsPrefix(py_shown, py_shown') /\ Pty!IsPrefix(py_shown', py_shown')
          /\ Pty!IsPrefix(<<>>, py_shown')
      BY <1>0, <2>3, <3>1, PrefixFacts
    <3>6. Pty!IsPrefix(py_script', py_shown')
      BY <3>3, <3>4, <3>5
    <3> QED BY <2>1, <3>2, <3>3, <3>4, <3>6 DEF Pty!OutputInOrder
  <2> QED BY <1>3, <2>1, <2>2, <2>3 DEF Pty!CopyOut, Pty!ExitRelay, Pty!outputs
<1>4. CASE \/ Pty!Type \/ Pty!HangUp \/ Pty!Exec \/ Pty!Work \/ Pty!Discard
           \/ Pty!ChildExits \/ Pty!ReadStdin
  BY <1>1, <1>4 DEF Pty!Type, Pty!HangUp, Pty!Exec, Pty!Work, Pty!Discard, Pty!ChildExits, Pty!ReadStdin,
    Pty!Over, Pty!slave, Pty!outputs
<1>5. CASE Pty!Start \/ Pty!Wait \/ Pty!CopyIn \/ Pty!KillReader \/ Pty!Command \/ Pty!Hup
  BY <1>1, <1>5 DEF Pty!Start, Pty!Wait, Pty!CopyIn, Pty!KillReader, Pty!Command, Pty!Hup,
    Pty!Over, Pty!slave, Pty!outputs
<1>6. CASE UNCHANGED Pty!vars
  BY <1>1, <1>6 DEF Pty!vars, Pty!Over
<1> QED BY <1>2, <1>3, <1>4, <1>5, <1>6 DEF Pty!Next, Pty!Child, Pty!Relay

\* Where it is, the relay knows what there is left to do.
LEMMA KnowsStep ==
  Pty!RelayTyped /\ Pty!RelayKnows /\ [Pty!Next]_Pty!vars => Pty!RelayKnows'
<1> SUFFICES ASSUME Pty!RelayTyped, Pty!RelayKnows, [Pty!Next]_Pty!vars
             PROVE Pty!RelayKnows'
  OBVIOUS
<1>0. Append(py_unread, py_typed + 1) # <<>> /\ \A x : Append(py_toMaster, x) # <<>>
  BY AppendNotEmpty DEF Pty!RelayTyped
<1> USE DEF Pty!RelayKnows, Pty!Over, Pty!user, Pty!slave, Pty!outputs, Pty!ExitRelay,
  Pty!Scripts
<1>1. CASE Pty!Type
  BY <1>0, <1>1 DEF Pty!Type
<1>2. CASE Pty!HangUp
  BY <1>2 DEF Pty!HangUp
<1>3. CASE Pty!Exec
  BY <1>3 DEF Pty!Exec
<1>4. CASE Pty!Work \/ Pty!Discard
  BY <1>4 DEF Pty!Work, Pty!Discard
<1>5. CASE Pty!Reply
  BY <1>0, <1>5 DEF Pty!Reply
<1>6. CASE Pty!ChildExits
  BY <1>6 DEF Pty!ChildExits
<1>7. CASE Pty!Start
  BY <1>7 DEF Pty!Start
<1>8. CASE Pty!Wait
  BY <1>8 DEF Pty!Wait, Pty!StdinReady, Pty!MasterReady
<1>9. CASE Pty!CopyIn
  BY <1>9 DEF Pty!CopyIn
<1>10. CASE Pty!CopyOut
  BY <1>10 DEF Pty!CopyOut, Pty!MasterReady
<1>11. CASE Pty!ReadStdin
  BY <1>11 DEF Pty!ReadStdin, Pty!StdinReady
<1>12. CASE Pty!KillReader
  BY <1>12 DEF Pty!KillReader
<1>13. CASE Pty!Command
  BY <1>13 DEF Pty!Command
<1>14. CASE Pty!Hup
  BY <1>14 DEF Pty!Hup
<1>15. CASE UNCHANGED Pty!vars
  BY <1>15 DEF Pty!vars
<1> QED BY <1>1, <1>2, <1>3, <1>4, <1>5, <1>6, <1>7, <1>8, <1>9, <1>10, <1>11, <1>12, <1>13,
  <1>14, <1>15 DEF Pty!Next, Pty!Child, Pty!Relay

\* The invariant is what the run checks, and more.
LEMMA RelayMeans == Pty!RelayInv => Pty!RelayIsFaithful
<1> SUFFICES ASSUME Pty!RelayInv PROVE Pty!RelayIsFaithful
  OBVIOUS
<1>1. Len(py_got \o py_toSlave) = Len(py_got) + Len(py_toSlave)
  BY ConcatProperties DEF Pty!RelayInv, Pty!RelayTyped
<1>2. py_got \o py_toSlave = [i \in 1..Len(py_got) + Len(py_toSlave) |-> i]
  BY <1>1 DEF Pty!RelayInv, Pty!InputInOrder, Pty!Upto
<1>3. py_toMaster = <<>> => py_shown = py_wrote
  BY ConcatEmptySeq DEF Pty!RelayInv, Pty!RelayTyped, Pty!OutputInOrder
<1> QED BY <1>2, <1>3 DEF Pty!RelayInv, Pty!InputInOrder, Pty!OutputInOrder, Pty!RelayKnows,
  Pty!RelayIsFaithful

-----------------------------------------------------------------------------
(***************************************************************************)
(* Proofs about the locks of chapter 55, for any length of the file and    *)
(* any number of retries.                                                  *)
(***************************************************************************)

Lock ==
  INSTANCE FileLocks WITH
    tool <- x1, locks <- x2, pc <- x3, want <- x4, files <- x5, tries <- x6,
    clock <- x7

fl_tool == x1
fl_locks == x2
fl_pc == x3
fl_want == x4
fl_files == x5
fl_tries == x6
fl_clock == x7

USE DEF fl_tool, fl_locks, fl_pc, fl_want, fl_files, fl_tries, fl_clock

\* The processes are numbers.
LEMMA ProcNumbers == 1 \in Lock!Procs /\ 2 \in Lock!Procs /\ 3 \in Lock!Procs /\ Lock!Procs \subseteq Int
BY DEF Lock!Procs

\* What the programs ask for.
LEMMA WhatIsWanted ==
  /\ \A u \in {"r", "w"} : [B |-> {1}, t |-> u] \in Lock!Wants
  /\ Lock!Commands \subseteq Lock!Wants /\ Lock!Nothing \in Lock!Wants
  /\ \A a \in Lock!Procs, i \in Int, u \in {"r", "w"} : [p |-> a, b |-> i, t |-> u] \in Lock!Locks
<1>1. \A D \in SUBSET Int, u \in {"r", "w", "u"} : [B |-> D, t |-> u] \in Lock!Wants
  BY DEF Lock!Wants
<1>0. \A D \in {{1}, {2}, {1, 2}} : D \in SUBSET Int
  OBVIOUS
<1>2. ASSUME NEW w \in Lock!Commands
      PROVE  w \in Lock!Wants
  <2>1. PICK D \in {{1}, {2}, {1, 2}}, u \in {"r", "w", "u"} : w = [B |-> D, t |-> u]
    BY DEF Lock!Commands
  <2> QED BY <1>0, <1>1, <2>1
<1>3. Lock!Nothing \in Lock!Wants
  BY <1>1 DEF Lock!Nothing
<1>4. \A a \in Lock!Procs, i \in Int, u \in {"r", "w"} : [p |-> a, b |-> i, t |-> u] \in Lock!Locks
  BY DEF Lock!Locks
<1>5. \A u \in {"r", "w"} : [B |-> {1}, t |-> u] \in Lock!Wants
  BY <1>0, <1>1
<1> QED BY <1>2, <1>3, <1>4, <1>5

\* The locks are of no process and no byte.
LEMMA LocksBegin == Lock!Init => Lock!LocksInv
<1> SUFFICES ASSUME Lock!Init PROVE Lock!LocksInv
  OBVIOUS
<1> USE DEF Lock!Init, Lock!Procs, Lock!Tools
<1>1. Lock!LocksTypeOK
  <2>1. <<0, 1>> \in Lock!Tried
    BY DEF Lock!Tried
  <2> QED BY <2>1, WhatIsWanted DEF Lock!LocksTypeOK, Lock!PCs
<1>2. Lock!Excludes /\ Lock!NoCircles
  BY DEF Lock!Excludes, Lock!NoCircles, Lock!Edge
<1>3. Lock!DeadInv
  BY DEF Lock!DeadInv
<1>4. Lock!StarveInv
  BY DEF Lock!StarveInv
<1>5. Lock!PrefInv
  BY DEF Lock!PrefInv
<1>6. fl_tool = "lockfile" => Lock!FileInv
  <2>1. fl_tool = "lockfile" => fl_files = {}
    OBVIOUS
  <2> QED BY <2>1 DEF Lock!FileInv
<1> QED BY <1>1, <1>2, <1>3, <1>4, <1>5, <1>6 DEF Lock!LocksInv

\* What Placed does to a lock of a and of another.
LEMMA PlacedFacts ==
  ASSUME NEW a \in Lock!Procs, NEW w \in Lock!Wants, Lock!LocksTypeOK
  PROVE  /\ Lock!Placed(a, w) \subseteq Lock!Locks
         /\ \A l \in Lock!Placed(a, w) :
              l \in fl_locks \/ (l.p = a /\ l.b \in w.B /\ l.t = w.t /\ w.t # "u")
         /\ \A l \in fl_locks : l.p # a => l \in Lock!Placed(a, w)
<1>1. CASE w.t = "u"
  BY <1>1 DEF Lock!Placed, Lock!LocksTypeOK
<1>2. CASE w.t # "u"
  <2>1. w.t \in {"r", "w"} /\ w.B \subseteq Int
    BY <1>2 DEF Lock!Wants
  <2>2. \A l \in [p : {a}, b : w.B, t : {w.t}] : /\ l \in Lock!Locks
                                                /\ l.p = a /\ l.b \in w.B /\ l.t = w.t
    BY <2>1 DEF Lock!Locks
  <2> QED BY <1>2, <2>2 DEF Lock!Placed, Lock!LocksTypeOK
<1> QED BY <1>1, <1>2

\* A lock that nobody's blocks excludes none.
LEMMA PlacedExcludes ==
  ASSUME NEW a \in Lock!Procs, NEW w \in Lock!Wants,
         Lock!LocksTypeOK, Lock!Excludes, Lock!Blockers(a, w) = {}, fl_locks' = Lock!Placed(a, w)
  PROVE  Lock!Excludes'
<1> SUFFICES ASSUME NEW l \in fl_locks', NEW m \in fl_locks', l.p # m.p, l.b = m.b
             PROVE  l.t = "r" /\ m.t = "r"
  BY DEF Lock!Excludes
<1>1. \A k \in fl_locks : k.p # a /\ k.b \in w.B /\ w.t # "u" => k.t # "w" /\ w.t # "w"
  BY DEF Lock!Blockers
<1>2. \A k \in fl_locks : k.t \in {"r", "w"}
  BY DEF Lock!LocksTypeOK, Lock!Locks
<1>t. w.t \in {"r", "w", "u"}
  BY DEF Lock!Wants
<1>3. CASE l \in fl_locks /\ m \in fl_locks
  BY <1>3 DEF Lock!Excludes
<1>p. \A k \in fl_locks' : k \in fl_locks \/ (k.p = a /\ k.b \in w.B /\ k.t = w.t /\ w.t # "u")
  BY PlacedFacts
<1>b. l.b = m.b /\ l.p # m.p
  OBVIOUS
<1>4. CASE l \in fl_locks /\ m \notin fl_locks
  <2>0. m \in fl_locks'
    OBVIOUS
  <2>1. m.p = a /\ m.b \in w.B /\ m.t = w.t /\ w.t # "u"
    BY <1>4, <1>p, <2>0
  <2> QED BY <1>1, <1>2, <1>t, <1>4, <2>1
<1>5. CASE l \notin fl_locks /\ m \in fl_locks
  <2>0. l \in fl_locks'
    OBVIOUS
  <2>1. l.p = a /\ l.b \in w.B /\ l.t = w.t /\ w.t # "u"
    BY <1>5, <1>p, <2>0
  <2> QED BY <1>1, <1>2, <1>t, <1>5, <2>1
<1>6. CASE l \notin fl_locks /\ m \notin fl_locks
  BY <1>6, <1>p
<1> QED BY <1>3, <1>4, <1>5, <1>6

\* Circle looks for a way back along at most three edges, of which there are no more.
LEMMA CircleMeans ==
  ASSUME NEW a \in Lock!Procs, NEW w, Lock!LocksTypeOK
  PROVE  Lock!Circle(a, w) <=> \E q \in Lock!WaitsFor(a, w) :
                            \/ q = a \/ Lock!Edge(q, a)
                            \/ \E r \in Lock!Procs : Lock!Edge(q, r) /\ Lock!Edge(r, a)
<1> DEFINE more(S) == S \union UNION {Lock!WaitsFor(q, fl_want[q]) : q \in {r \in S : fl_pc[r] = "wait"}}
<1>1. \A q, v : Lock!WaitsFor(q, v) \subseteq Lock!Procs
  BY DEF Lock!WaitsFor, Lock!Blockers, Lock!LocksTypeOK, Lock!Locks
<1>2. \A S, x : x \in more(S) <=> x \in S \/ \E q \in S : Lock!Edge(q, x)
  BY DEF Lock!Edge
<1>3. Lock!Circle(a, w) <=> a \in more(more(Lock!WaitsFor(a, w)))
  BY DEF Lock!Circle
<1> HIDE DEF more
<1>4. Lock!Circle(a, w) <=> \/ a \in more(Lock!WaitsFor(a, w))
                            \/ \E q \in more(Lock!WaitsFor(a, w)) : Lock!Edge(q, a)
  BY <1>2, <1>3
<1>5. \A q, r : Lock!Edge(q, r) => r \in Lock!Procs
  BY <1>1 DEF Lock!Edge
<1> QED BY <1>2, <1>4, <1>5

\* The types are kept.
LEMMA LocksTypes == ASSUME Lock!LocksTypeOK, Lock!Next PROVE Lock!LocksTypeOK'
<1>0. /\ fl_locks \subseteq Lock!Locks
      /\ \A a \in Lock!Procs : Lock!Of(a) \subseteq fl_locks /\ fl_want[a] \in Lock!Wants
  BY DEF Lock!Of, Lock!LocksTypeOK
<1>c. /\ "start" \in Lock!PCs /\ "wait" \in Lock!PCs /\ "exited" \in Lock!PCs
      /\ "flock" \in Lock!PCs
      /\ "flock nb" \in Lock!PCs /\ "sleep" \in Lock!PCs /\ "mkfifo" \in Lock!PCs
      /\ "open fifo" \in Lock!PCs
      /\ "failed" \in Lock!PCs /\ "second" \in Lock!PCs /\ "locked" \in Lock!PCs
      /\ "pause" \in Lock!PCs
  BY DEF Lock!PCs
<1>g. \A a \in Lock!Procs, x \in Lock!PCs : Lock!Go(a, x) => fl_pc' \in [Lock!Procs -> Lock!PCs]
  BY DEF Lock!Go, Lock!LocksTypeOK
<1>v. \A a \in Lock!Procs, w \in Lock!Wants : [fl_want EXCEPT ![a] = w] \in [Lock!Procs -> Lock!Wants]
  BY DEF Lock!LocksTypeOK
<1>p. \A a \in Lock!Procs, w \in Lock!Wants : Lock!Placed(a, w) \subseteq Lock!Locks
  BY PlacedFacts
<1>s. ASSUME fl_locks' \subseteq Lock!Locks, fl_pc' \in [Lock!Procs -> Lock!PCs], fl_want' \in [Lock!Procs -> Lock!Wants],
             UNCHANGED <<fl_tool, fl_tries, fl_clock>>
      PROVE  Lock!LocksTypeOK'
  BY <1>s DEF Lock!LocksTypeOK
<1>k. UNCHANGED fl_pc => fl_pc' \in [Lock!Procs -> Lock!PCs]
  BY DEF Lock!LocksTypeOK
<1>m. UNCHANGED fl_want => fl_want' \in [Lock!Procs -> Lock!Wants]
  BY DEF Lock!LocksTypeOK
<1>1. ASSUME NEW a \in Lock!Procs, Lock!FcntlCommand(a)
      PROVE  Lock!LocksTypeOK'
  <2>1. fl_locks' \subseteq Lock!Locks
    BY <1>1, <1>0, <1>p, WhatIsWanted DEF Lock!FcntlCommand
  <2>2. fl_want' \in [Lock!Procs -> Lock!Wants]
    BY <1>1, <1>v, <1>m, WhatIsWanted DEF Lock!FcntlCommand
  <2>3. fl_pc' \in [Lock!Procs -> Lock!PCs]
    BY <1>1, <1>c, <1>g, <1>k DEF Lock!FcntlCommand
  <2> QED BY <1>1, <1>s, <2>1, <2>2, <2>3 DEF Lock!FcntlCommand
<1>2. ASSUME NEW a \in Lock!Procs, Lock!FcntlWakes(a)
      PROVE  Lock!LocksTypeOK'
  <2>1. fl_locks' \subseteq Lock!Locks /\ fl_want' \in [Lock!Procs -> Lock!Wants] /\ fl_pc' \in [Lock!Procs -> Lock!PCs]
    BY <1>2, <1>0, <1>c, <1>g, <1>p, <1>v, WhatIsWanted DEF Lock!FcntlWakes
  <2> QED BY <1>2, <1>s, <2>1 DEF Lock!FcntlWakes
<1>3. ASSUME NEW a \in Lock!Procs, Lock!TFlock(a)
      PROVE  Lock!LocksTypeOK'
  <2>1. fl_locks' \subseteq Lock!Locks
    BY <1>3, <1>0, <1>p DEF Lock!TFlock
  <2>2. fl_want' \in [Lock!Procs -> Lock!Wants]
    BY <1>3, <1>v, <1>m, WhatIsWanted DEF Lock!TFlock
  <2>3. fl_pc' \in [Lock!Procs -> Lock!PCs]
    BY <1>3, <1>c, <1>g DEF Lock!TFlock
  <2> QED BY <1>3, <1>s, <2>1, <2>2, <2>3 DEF Lock!TFlock
<1>4. ASSUME NEW a \in Lock!Procs, Lock!LockOwn(a)
      PROVE  Lock!LocksTypeOK'
  <2>1. fl_locks' \subseteq Lock!Locks
    BY <1>4, <1>0, ProcNumbers, WhatIsWanted DEF Lock!LockOwn
  <2>2. fl_pc' \in [Lock!Procs -> Lock!PCs]
    BY <1>4, <1>c, <1>g DEF Lock!LockOwn
  <2> QED BY <1>4, <1>s, <1>m, <2>1, <2>2 DEF Lock!LockOwn
<1>5. CASE Lock!Mkfifo
  <2>1. fl_locks' \subseteq Lock!Locks
    BY <1>5, <1>0, ProcNumbers DEF Lock!Mkfifo
  <2>2. fl_pc' \in [Lock!Procs -> Lock!PCs]
    BY <1>5, <1>c, <1>g, ProcNumbers DEF Lock!Mkfifo
  <2> QED BY <1>5, <1>s, <1>m, <2>1, <2>2 DEF Lock!Mkfifo
<1>6. CASE Lock!Sync
  <2>1. fl_locks' \subseteq Lock!Locks
    BY <1>6, <1>0, ProcNumbers DEF Lock!Sync
  <2>2. [fl_pc EXCEPT ![1] = "second", ![2] = "second"] \in [Lock!Procs -> Lock!PCs]
    BY <1>c DEF Lock!LocksTypeOK
  <2>3. fl_pc' \in [Lock!Procs -> Lock!PCs]
    BY <1>6, <1>c, <1>g, <2>2, ProcNumbers DEF Lock!Sync
  <2> QED BY <1>6, <1>s, <1>m, <2>1, <2>3 DEF Lock!Sync
<1>7. ASSUME NEW a \in Lock!Procs, Lock!LockOther(a) \/ Lock!FlockPref(a) \/ Lock!Remove(a)
      PROVE  Lock!LocksTypeOK'
  <2>1. fl_locks' \subseteq Lock!Locks
    BY <1>7, <1>0 DEF Lock!LockOther, Lock!FlockPref, Lock!Remove
  <2>2. fl_pc' \in [Lock!Procs -> Lock!PCs]
    BY <1>7, <1>c, <1>g DEF Lock!LockOther, Lock!FlockPref, Lock!Remove
  <2> QED BY <1>7, <1>s, <1>m, <2>1, <2>2 DEF Lock!LockOther, Lock!FlockPref, Lock!Remove
<1>8. ASSUME NEW a \in Lock!Procs, Lock!StarveReader(a)
      PROVE  Lock!LocksTypeOK'
  <2>1. fl_locks' \subseteq Lock!Locks
    BY <1>8, <1>0, <1>p, WhatIsWanted DEF Lock!StarveReader
  <2>2. fl_pc' \in [Lock!Procs -> Lock!PCs]
    BY <1>8, <1>c, <1>g DEF Lock!StarveReader
  <2> QED BY <1>8, <1>s, <1>m, <2>1, <2>2 DEF Lock!StarveReader
<1>9. CASE Lock!StarveWriter
  <2>1. fl_locks' \subseteq Lock!Locks
    BY <1>9, <1>0, <1>p, ProcNumbers, WhatIsWanted DEF Lock!StarveWriter
  <2>2. fl_pc' \in [Lock!Procs -> Lock!PCs]
    BY <1>9, <1>c, <1>g, ProcNumbers DEF Lock!StarveWriter
  <2> QED BY <1>9, <1>s, <1>m, <2>1, <2>2 DEF Lock!StarveWriter
<1>10. CASE Lock!Second
  BY <1>10 DEF Lock!Second, Lock!LocksTypeOK
<1>11. CASE Lock!CreateLocks
  <2>2. ASSUME NEW l \in fl_locks'
        PROVE  l \in Lock!Locks
    <3> DEFINE even == {i \in 0..FileLen - 1 : i % 2 = 0}
    <3>1. l \in [p : {1}, b : even, t : {"w"}]
      BY <1>11 DEF Lock!CreateLocks
    <3>2. even \subseteq Int
      OBVIOUS
    <3> HIDE DEF even
    <3>3. /\ l = [p |-> l.p, b |-> l.b, t |-> l.t]
          /\ l.p = 1 /\ l.b \in even /\ l.t = "w"
      BY <3>1
    <3> QED BY <3>2, <3>3, ProcNumbers, WhatIsWanted
  <2>3. fl_pc' \in [Lock!Procs -> Lock!PCs]
    BY <1>11, <1>c, <1>g, ProcNumbers DEF Lock!CreateLocks
  <2> QED BY <1>11, <1>s, <1>m, <2>2, <2>3 DEF Lock!CreateLocks
<1>12. ASSUME NEW a \in Lock!Procs, Lock!Lockfile(a)
       PROVE  Lock!LocksTypeOK'
  <2>0. fl_pc' \in [Lock!Procs -> Lock!PCs]
    BY <1>12, <1>c, <1>g, <1>k DEF Lock!Lockfile
  <2>1. fl_tries[a][1] \in Int /\ fl_tries[a][2] \in 1..3
    BY DEF Lock!Tried, Lock!LocksTypeOK
  <2>t. \A i \in Int, j \in 1..3 : <<i + 1, j>> \in Lock!Tried /\ (j <= 2 => <<0, j + 1>> \in Lock!Tried)
    BY DEF Lock!Tried
  <2>2. fl_tries' \in [Lock!Procs -> Lock!Tried]
    <3>1. CASE UNCHANGED fl_tries
      BY <3>1 DEF Lock!LocksTypeOK
    <3>2. CASE fl_tries' = [fl_tries EXCEPT ![a] = <<fl_tries[a][1] + 1, fl_tries[a][2]>>]
      BY <2>1, <2>t, <3>2 DEF Lock!LocksTypeOK
    <3>3. CASE fl_tries' = [fl_tries EXCEPT ![a] = <<0, fl_tries[a][2] + 1>>] /\ fl_tries[a][2] <= 2
      BY <2>1, <2>t, <3>3 DEF Lock!LocksTypeOK
    <3> QED BY <1>12, <3>1, <3>2, <3>3 DEF Lock!Lockfile
  <2>3. UNCHANGED <<fl_tool, fl_locks, fl_want, fl_clock>>
    BY <1>12 DEF Lock!Lockfile
  <2> QED BY <2>0, <2>2, <2>3 DEF Lock!LocksTypeOK
<1> QED
  BY <1>1, <1>2, <1>3, <1>4, <1>5, <1>6, <1>7, <1>8, <1>9, <1>10, <1>11, <1>12 DEF
    Lock!Next,
    Lock!Step

\* No step lets a lock in beside one that it excludes.
LEMMA LocksStayApart ==
  ASSUME Lock!LocksTypeOK, Lock!Excludes, fl_tool = "flock_dead" => Lock!DeadInv, Lock!Next PROVE Lock!Excludes'
<1>0. \A a \in Lock!Procs : fl_locks' \in {fl_locks, fl_locks \ Lock!Of(a)} => Lock!Excludes'
  BY DEF Lock!Excludes, Lock!Of
<1>w. \A a \in Lock!Procs : fl_want[a] \in Lock!Wants
  BY DEF Lock!LocksTypeOK
<1>1. ASSUME NEW a \in Lock!Procs, Lock!FcntlCommand(a)
      PROVE  Lock!Excludes'
  BY <1>0, <1>1, WhatIsWanted, PlacedExcludes DEF Lock!FcntlCommand
<1>2. ASSUME NEW a \in Lock!Procs, Lock!FcntlWakes(a) \/ Lock!TFlock(a)
      PROVE  Lock!Excludes'
  BY <1>0, <1>w, <1>2, PlacedExcludes DEF Lock!FcntlWakes, Lock!TFlock
<1>3. ASSUME NEW a \in Lock!Procs, Lock!LockOwn(a)
      PROVE  Lock!Excludes'
  <2>1. Lock!DeadInv /\ fl_locks' = fl_locks \union {[p |-> a, b |-> a, t |-> "w"]}
    BY <1>3 DEF Lock!LockOwn
  <2>2. ASSUME NEW l \in fl_locks'
        PROVE  l.b = l.p
    <3>1. CASE l \in fl_locks
      BY <2>1, <3>1 DEF Lock!DeadInv
    <3>2. CASE l = [p |-> a, b |-> a, t |-> "w"]
      BY <3>2
    <3> QED BY <2>1, <3>1, <3>2
  <2> QED BY <2>2 DEF Lock!Excludes
<1>4. CASE Lock!Mkfifo \/ Lock!Sync \/ Lock!Second
  BY <1>4, <1>0, ProcNumbers DEF Lock!Mkfifo, Lock!Sync, Lock!Second
<1>5. ASSUME NEW a \in Lock!Procs, Lock!LockOther(a) \/ Lock!FlockPref(a) \/ Lock!Remove(a) \/ Lock!Lockfile(a)
      PROVE  Lock!Excludes'
  BY <1>5, <1>0 DEF Lock!LockOther, Lock!FlockPref, Lock!Remove, Lock!Lockfile
<1>6. ASSUME NEW a \in Lock!Procs, Lock!StarveReader(a)
      PROVE  Lock!Excludes'
  BY <1>0, <1>6, WhatIsWanted, PlacedExcludes DEF Lock!StarveReader
<1>7. CASE Lock!StarveWriter
  BY <1>0, <1>7, ProcNumbers, WhatIsWanted, PlacedExcludes DEF Lock!StarveWriter
<1>8. CASE Lock!CreateLocks
  <2>1. \A l \in fl_locks' : l.p = 1
    BY <1>8 DEF Lock!CreateLocks
  <2> QED BY <2>1 DEF Lock!Excludes
<1> QED
  BY <1>1, <1>2, <1>3, <1>4, <1>5, <1>6, <1>7, <1>8 DEF Lock!Next, Lock!Step

\* Which steps a program takes.
LEMMA ToolSteps ==
  ASSUME Lock!Next
  PROVE  /\ fl_tool' = fl_tool
         /\ fl_tool = "i_fcntl" => \E a \in Lock!Procs : Lock!FcntlCommand(a) \/ Lock!FcntlWakes(a)
         /\ fl_tool = "flock_dead" => Lock!Mkfifo \/ Lock!Sync \/ \E a \in Lock!Procs : Lock!LockOwn(a) \/ Lock!LockOther(a)
         /\ fl_tool = "lock_starve" => Lock!StarveWriter \/ Lock!Second \/ \E a \in Lock!Procs : Lock!StarveReader(a)
         /\ fl_tool = "flock_pref" => Lock!CreateLocks \/ \E a \in Lock!Procs : Lock!FlockPref(a)
         /\ fl_tool = "lockfile" => \E a \in Lock!Procs : Lock!Lockfile(a) \/ Lock!Remove(a)
BY DEF Lock!Next, Lock!Step, Lock!FcntlCommand, Lock!FcntlWakes, Lock!TFlock, Lock!LockOwn,
  Lock!LockOther, Lock!StarveReader,
  Lock!FlockPref,
       Lock!Lockfile, Lock!Remove, Lock!Mkfifo, Lock!Sync, Lock!StarveWriter, Lock!Second, Lock!CreateLocks

\* Who does not wait closes no circle.
LEMMA NoneThrough ==
  ASSUME NEW a \in Lock!Procs, Lock!NoCircles, \A q \in Lock!Procs : ~Lock!Edge(a, q)',
         \A q, r \in Lock!Procs : Lock!Edge(q, r)' => Lock!Edge(q, r) \/ r = a
  PROVE  Lock!NoCircles'
BY DEF Lock!NoCircles

\* A process waits for another only.
LEMMA EdgeFacts ==
  ASSUME NEW q \in Lock!Procs, NEW r \in Lock!Procs
  PROVE  Lock!Edge(q, r) <=> /\ fl_pc[q] = "wait"
                             /\ \E l \in fl_locks :
                                  /\ l.p = r /\ r # q
                                  /\ l.b \in fl_want[q].B
                                  /\ "w" \in {l.t, fl_want[q].t}
                                  /\ fl_want[q].t # "u"
BY DEF Lock!Edge, Lock!WaitsFor, Lock!Blockers

\* i_fcntl_locking.c: a process goes to sleep only where no circle is closed, and one
\* that is awake closes none with what it places.
LEMMA CirclesStep ==
  ASSUME Lock!LocksTypeOK, Lock!NoCircles, fl_tool = "i_fcntl", Lock!Next PROVE Lock!NoCircles'
<1>1. PICK a \in Lock!Procs : Lock!FcntlCommand(a) \/ Lock!FcntlWakes(a)
  BY ToolSteps
<1>w. fl_want[a] \in Lock!Wants /\ fl_pc \in [Lock!Procs -> Lock!PCs] /\ fl_want \in [Lock!Procs -> Lock!Wants]
  BY DEF Lock!LocksTypeOK
<1>2. CASE /\ fl_pc'[a] # "wait" /\ \A q \in Lock!Procs \ {a} : fl_pc'[q] = fl_pc[q] /\ fl_want'[q] = fl_want[q]
           /\ \A l \in fl_locks' : l \in fl_locks \/ l.p = a
  <2>1. \A q \in Lock!Procs : ~Lock!Edge(a, q)'
    BY <1>2 DEF Lock!Edge
  <2>2. ASSUME NEW q \in Lock!Procs, NEW r \in Lock!Procs, Lock!Edge(q, r)', r # a
        PROVE  Lock!Edge(q, r)
    <3>1. q # a
      BY <2>1, <2>2
    <3>2. /\ fl_pc'[q] = "wait"
          /\ \E l \in fl_locks' : /\ l.p = r /\ r # q /\ l.b \in fl_want'[q].B
                                  /\ "w" \in {l.t, fl_want'[q].t} /\ fl_want'[q].t # "u"
      BY <2>2 DEF Lock!Edge, Lock!WaitsFor, Lock!Blockers
    <3> QED BY <1>2, <2>2, <3>1, <3>2, EdgeFacts
  <2> QED BY <2>1, <2>2, NoneThrough
<1>3. CASE Lock!FcntlWakes(a)
  <2>1. /\ fl_pc'[a] = "start"
        /\ \A q \in Lock!Procs \ {a} : fl_pc'[q] = fl_pc[q] /\ fl_want'[q] = fl_want[q]
    BY <1>3, <1>w DEF Lock!FcntlWakes, Lock!Go
  <2>2. \A l \in fl_locks' : l \in fl_locks \/ l.p = a
    BY <1>3, <1>w, PlacedFacts DEF Lock!FcntlWakes
  <2> QED BY <1>2, <2>1, <2>2
<1>4. CASE Lock!FcntlCommand(a)
  <2>0. fl_pc[a] = "start"
    BY <1>4 DEF Lock!FcntlCommand
  <2>1. CASE Lock!Go(a, "exited") /\ fl_locks' = fl_locks \ Lock!Of(a) /\ UNCHANGED fl_want
    <3>1. /\ fl_pc'[a] = "exited"
          /\ \A q \in Lock!Procs \ {a} : fl_pc'[q] = fl_pc[q] /\ fl_want'[q] = fl_want[q]
      BY <1>w, <2>1 DEF Lock!Go
    <3>2. \A l \in fl_locks' : l \in fl_locks
      BY <2>1
    <3> QED BY <1>2, <3>1, <3>2
  <2>2. ASSUME NEW w \in Lock!Commands, fl_locks' = Lock!Placed(a, w), UNCHANGED <<fl_pc, fl_want>>
        PROVE  Lock!NoCircles'
    <3>1. \A l \in fl_locks' : l \in fl_locks \/ l.p = a
      BY <2>2, WhatIsWanted, PlacedFacts
    <3> QED BY <1>2, <2>0, <2>2, <3>1
  <2>3. ASSUME NEW w \in Lock!Commands, ~Lock!Circle(a, w), Lock!Go(a, "wait"),
               fl_want' = [fl_want EXCEPT ![a] = w], UNCHANGED fl_locks
        PROVE  Lock!NoCircles'
    <3>1. /\ fl_pc'[a] = "wait" /\ fl_want'[a] = w
          /\ \A q \in Lock!Procs \ {a} : fl_pc'[q] = fl_pc[q] /\ fl_want'[q] = fl_want[q]
      BY <1>w, <2>3, WhatIsWanted DEF Lock!Go
    <3>2. \A q \in Lock!Procs \ {a}, r \in Lock!Procs : Lock!Edge(q, r)' <=> Lock!Edge(q, r)
      BY <2>3, <3>1 DEF Lock!Edge, Lock!WaitsFor, Lock!Blockers
    <3>3. \A q \in Lock!Procs : Lock!Edge(a, q)' => q \in Lock!WaitsFor(a, w) /\ q # a
      BY <2>3, <3>1 DEF Lock!Edge, Lock!WaitsFor, Lock!Blockers
    <3>4. \A q \in Lock!WaitsFor(a, w) :
            ~Lock!Edge(q, a) /\ \A r \in Lock!Procs : ~(Lock!Edge(q, r) /\ Lock!Edge(r, a))
      BY <2>3, CircleMeans
    <3> QED BY <3>2, <3>3, <3>4 DEF Lock!NoCircles
  <2> QED BY <1>4, <2>1, <2>2, <2>3 DEF Lock!FcntlCommand
<1> QED BY <1>1, <1>3, <1>4

\* flock_dead.c: neither process gets past the other's lock.
LEMMA DeadStep ==
  ASSUME Lock!LocksTypeOK, Lock!DeadInv, fl_tool = "flock_dead", Lock!Next PROVE Lock!DeadInv'
<1>w. fl_pc \in [Lock!Procs -> Lock!PCs]
  BY DEF Lock!LocksTypeOK
<1>o. /\ Lock!Own(1) \notin Lock!Of(2)
      /\ Lock!Own(2) \notin Lock!Of(1)
      /\ Lock!Of(1) \subseteq fl_locks
      /\ Lock!Of(2) \subseteq fl_locks
  BY DEF Lock!Own, Lock!Of
<1>g. \A x : \A a \in {1, 2} : Lock!Go(a, x) => fl_pc'[a] = x /\ fl_pc'[3 - a] = fl_pc[3 - a] /\ fl_pc'[3] = fl_pc[3]
  BY <1>w DEF Lock!Go, Lock!Procs
<1>n. 3 - 1 = 2 /\ 3 - 2 = 1
  OBVIOUS
<1>e. Lock!Own(1)' = Lock!Own(1) /\ Lock!Own(2)' = Lock!Own(2)
  BY DEF Lock!Own
<1>1. ASSUME NEW a \in Lock!Procs, Lock!LockOther(a)
      PROVE  FALSE
  <2>1. a \in {1, 2} /\ fl_pc[a] = "second" /\ 3 - a \in {1, 2} /\ 3 - a # a
    <3>1. a = 1 \/ a = 2 \/ a = 3
      BY DEF Lock!Procs
    <3> QED BY <1>1, <1>n, <3>1 DEF Lock!LockOther, Lock!DeadInv
  <2>2. Lock!Own(3 - a) \in fl_locks
    BY <1>n, <2>1 DEF Lock!DeadInv
  <2>3. Lock!Own(3 - a) \in Lock!Blockers(a, [B |-> {3 - a}, t |-> "r"])
    BY <2>1, <2>2 DEF Lock!Own, Lock!Blockers
  <2> QED BY <1>1, <2>3 DEF Lock!LockOther
<1>2. ASSUME NEW a \in Lock!Procs, Lock!LockOwn(a)
      PROVE  Lock!DeadInv'
  <2>1. /\ a \in {1, 2} /\ fl_pc[a] = "start" /\ fl_locks' = fl_locks \union {Lock!Own(a)}
        /\ fl_pc'[a] = (IF a = 1 THEN "mkfifo" ELSE "open fifo")
        /\ fl_pc'[3 - a] = fl_pc[3 - a] /\ fl_pc'[3] = fl_pc[3]
    BY <1>2, <1>g DEF Lock!LockOwn, Lock!Own
  <2>2. Lock!Own(a).b = Lock!Own(a).p
    BY DEF Lock!Own
  <2> QED BY <1>n, <2>1, <2>2 DEF Lock!DeadInv
<1>3. CASE Lock!Mkfifo
  <2>1. CASE Lock!Go(1, "open fifo") /\ UNCHANGED fl_locks
    <3>1. fl_pc'[1] = "open fifo" /\ fl_pc'[2] = fl_pc[2] /\ fl_pc'[3] = fl_pc[3] /\ fl_pc[1] = "mkfifo"
      BY <1>3, <1>g, <1>n, <2>1 DEF Lock!Mkfifo
    <3> QED BY <2>1, <3>1, <1>e DEF Lock!DeadInv
  <2>2. CASE Lock!Go(1, "failed") /\ fl_locks' = fl_locks \ Lock!Of(1)
    <3>1. fl_pc'[1] = "failed" /\ fl_pc'[2] = fl_pc[2] /\ fl_pc'[3] = fl_pc[3] /\ fl_pc[1] = "mkfifo"
      BY <1>3, <1>g, <1>n, <2>2 DEF Lock!Mkfifo
    <3> QED BY <1>o, <1>e, <2>2, <3>1 DEF Lock!DeadInv
  <2> QED BY <1>3, <2>1, <2>2 DEF Lock!Mkfifo
<1>4. CASE Lock!Sync
  <2>1. CASE /\ fl_pc[1] = "open fifo" /\ fl_pc[2] = "open fifo"
             /\ fl_pc' = [fl_pc EXCEPT ![1] = "second", ![2] = "second"]
             /\ UNCHANGED fl_locks
    <3>1. fl_pc'[1] = "second" /\ fl_pc'[2] = "second" /\ fl_pc'[3] = fl_pc[3]
      <4>1. DOMAIN fl_pc = Lock!Procs /\ fl_pc' = [fl_pc EXCEPT ![1] = "second", ![2] = "second"]
        BY <1>w, <2>1
      <4> HIDE <2>1
      <4> QED BY <4>1, ProcNumbers
    <3> QED BY <1>e, <2>1, <3>1 DEF Lock!DeadInv
  <2>2. CASE fl_pc[2] = "open fifo" /\ Lock!Go(2, "failed") /\ fl_locks' = fl_locks \ Lock!Of(2)
    <3>1. fl_pc'[2] = "failed" /\ fl_pc'[1] = fl_pc[1] /\ fl_pc'[3] = fl_pc[3]
      BY <1>g, <1>n, <2>2
    <3> QED BY <1>o, <1>e, <2>2, <3>1 DEF Lock!DeadInv
  <2> QED BY <1>4, <2>1, <2>2 DEF Lock!Sync
<1> QED BY <1>1, <1>2, <1>3, <1>4, ToolSteps

\* create_locks.c and flock_pref_t.c: a byte is tried only once all are locked.
LEMMA PrefStep ==
  ASSUME Lock!LocksTypeOK, Lock!PrefInv, fl_tool = "flock_pref", Lock!Next, FileLen \in Int PROVE Lock!PrefInv'
<1>w. fl_pc \in [Lock!Procs -> Lock!PCs]
  BY DEF Lock!LocksTypeOK
<1>1. CASE Lock!CreateLocks
  <2>1. fl_pc'[1] = "pause" /\ \A p \in Lock!Procs \ {1} : fl_pc'[p] = fl_pc[p]
    BY <1>1, <1>w DEF Lock!CreateLocks, Lock!Go, Lock!Procs
  <2>2. \A i \in 0..FileLen - 1 : i % 2 = 0 => [p |-> 1, b |-> i, t |-> "w"] \in fl_locks'
    BY <1>1 DEF Lock!CreateLocks
  <2>3. \A l \in fl_locks' : l.p = 1
    BY <1>1 DEF Lock!CreateLocks
  <2> QED BY <2>1, <2>2, <2>3 DEF Lock!PrefInv
<1>2. ASSUME NEW a \in Lock!Procs, Lock!FlockPref(a)
      PROVE  Lock!PrefInv'
  <2>1. PICK n \in 0..(FileLen - 1) \div 2 :
          Lock!Go(a, IF Lock!Blockers(a, [B |-> {2 * n}, t |-> "w"]) # {} THEN "exited" ELSE "failed")
    BY <1>2 DEF Lock!FlockPref
  <2>2. 2 * n \in 0..FileLen - 1 /\ (2 * n) % 2 = 0
    OBVIOUS
  <2>3. [p |-> 1, b |-> 2 * n, t |-> "w"] \in fl_locks /\ a # 1
    BY <1>2, <2>2 DEF Lock!FlockPref, Lock!PrefInv, Lock!Procs
  <2>4. [p |-> 1, b |-> 2 * n, t |-> "w"] \in Lock!Blockers(a, [B |-> {2 * n}, t |-> "w"])
    BY <2>3 DEF Lock!Blockers
  <2>5. Lock!Go(a, "exited")
    BY <2>1, <2>4
  <2>6. fl_pc'[1] = fl_pc[1] /\ \A p \in Lock!Procs : fl_pc'[p] # "failed"
    BY <1>w, <2>3, <2>5 DEF Lock!Go, Lock!PrefInv, Lock!Procs
  <2> QED BY <1>2, <2>6 DEF Lock!FlockPref, Lock!PrefInv
<1> QED BY <1>1, <1>2, ToolSteps

\* lockfile_imp.c: a file that is there is not made again.
LEMMA FileStep ==
  ASSUME Lock!LocksTypeOK, Lock!FileInv, fl_tool = "lockfile", Lock!Next PROVE Lock!FileInv'
<1>w. fl_pc \in [Lock!Procs -> Lock!PCs] /\ fl_tries \in [Lock!Procs -> Lock!Tried]
  BY DEF Lock!LocksTypeOK
<1>g. \A x : \A a \in Lock!Procs : Lock!Go(a, x) => fl_pc'[a] = x /\ \A q \in Lock!Procs \ {a} : fl_pc'[q] = fl_pc[q]
  BY <1>w DEF Lock!Go
<1>o. \A a \in Lock!Procs, i \in 1..2 : Lock!Wanted(a)[i] \in {1, 2}
  BY DEF Lock!Wanted
<1>1. ASSUME NEW a \in Lock!Procs, Lock!Lockfile(a)
      PROVE  Lock!FileInv'
  <2> DEFINE retry_n == fl_tries[a][1]
             file_n == fl_tries[a][2]
  <2>t. retry_n \in Int /\ file_n \in 1..3
    BY <1>w DEF Lock!Tried
  <2>s. fl_pc[a] = "start"
    BY <1>1 DEF Lock!Lockfile
  <2> HIDE DEF retry_n, file_n
  <2>1. CASE file_n > 2 /\ Lock!Go(a, "locked") /\ UNCHANGED <<fl_files, fl_tries>>
    <3>1. file_n = 3
      BY <2>1, <2>t
    <3> QED BY <1>g, <2>1, <2>s, <3>1 DEF Lock!FileInv, file_n
  <2>2. CASE Lock!Go(a, "failed") /\ UNCHANGED <<fl_files, fl_tries>>
    BY <1>g, <2>2 DEF Lock!FileInv
  <2>3. CASE UNCHANGED <<fl_pc, fl_files>> /\ fl_tries' = [fl_tries EXCEPT ![a] = <<retry_n + 1, file_n>>]
    <3>1. fl_tries'[a][2] = file_n /\ \A q \in Lock!Procs \ {a} : fl_tries'[q] = fl_tries[q]
      BY <1>w, <2>3
    <3> QED BY <2>3, <3>1 DEF Lock!FileInv, file_n
  <2>4. CASE /\ file_n <= 2 /\ UNCHANGED fl_pc /\ ~\E f \in fl_files : f[1] = Lock!Wanted(a)[file_n]
             /\ fl_tries' = [fl_tries EXCEPT ![a] = <<0, file_n + 1>>]
             /\ fl_files' = fl_files \union {<<Lock!Wanted(a)[file_n], a>>}
    <3>1. fl_tries'[a][2] = file_n + 1 /\ \A q \in Lock!Procs \ {a} : fl_tries'[q] = fl_tries[q]
      BY <1>w, <2>4
    <3>2. Lock!Wanted(a)[file_n] \in {1, 2}
      BY <1>o, <2>4, <2>t
    <3>3. fl_files' \subseteq {1, 2} \X Lock!Procs
      BY <2>4, <3>2 DEF Lock!FileInv
    <3>4. \A f, g \in fl_files' : f[1] = g[1] => f = g
      BY <2>4 DEF Lock!FileInv
    <3>5. ASSUME NEW p \in Lock!Procs, fl_pc'[p] \in {"start", "locked"}, NEW i \in 1..2, i < fl_tries'[p][2]
          PROVE  <<Lock!Wanted(p)[i], p>> \in fl_files'
      <4>1. CASE p = a
        <5>1. i < file_n \/ i = file_n
          BY <2>t, <3>1, <3>5, <4>1
        <5>2. CASE i < file_n
          BY <2>4, <3>5, <4>1, <5>2 DEF Lock!FileInv, file_n
        <5>3. CASE i = file_n
          BY <2>4, <4>1, <5>3
        <5> QED BY <5>1, <5>2, <5>3
      <4>2. CASE p # a
        BY <2>4, <3>1, <3>5, <4>2 DEF Lock!FileInv
      <4> QED BY <4>1, <4>2
    <3>6. \A p \in Lock!Procs : fl_pc'[p] = "locked" => fl_tries'[p][2] = 3
      BY <2>4, <2>s, <3>1 DEF Lock!FileInv
    <3> QED BY <3>3, <3>4, <3>5, <3>6 DEF Lock!FileInv
  <2> QED BY <1>1, <2>1, <2>2, <2>3, <2>4 DEF Lock!Lockfile, retry_n, file_n
<1>2. ASSUME NEW a \in Lock!Procs, Lock!Remove(a)
      PROVE  Lock!FileInv'
  <2>1. \A q \in Lock!Procs \ {a} : \A x : <<x, q>> \notin Lock!Owned(a)
    BY DEF Lock!Owned
  <2>2. fl_pc'[a] = "exited" /\ \A q \in Lock!Procs \ {a} : fl_pc'[q] = fl_pc[q]
    BY <1>2, <1>g DEF Lock!Remove
  <2>3. fl_files' = fl_files \ Lock!Owned(a) /\ UNCHANGED fl_tries
    BY <1>2 DEF Lock!Remove
  <2> QED BY <2>1, <2>2, <2>3 DEF Lock!FileInv
<1> QED BY <1>1, <1>2, ToolSteps

\* lock_starve.c: nobody but the readers has a lock until the last of them is done.
LEMMA StarveStep ==
  ASSUME Lock!LocksTypeOK, Lock!StarveInv, fl_tool = "lock_starve", Lock!Next PROVE Lock!StarveInv'
<1> DEFINE want_r == [B |-> {1}, t |-> "r"]
           want_w == [B |-> {1}, t |-> "w"]
<1>w. fl_pc \in [Lock!Procs -> Lock!PCs] /\ fl_clock \in 0..20
  BY DEF Lock!LocksTypeOK
<1>g. \A x : \A a \in Lock!Procs : Lock!Go(a, x) => fl_pc'[a] = x /\ \A q \in Lock!Procs \ {a} : fl_pc'[q] = fl_pc[q]
  BY <1>w DEF Lock!Go
<1>n. \A a \in Lock!Procs : a = 1 \/ a = 2 \/ a = 3
  BY DEF Lock!Procs
<1>e. \A a \in {2, 3} : Lock!Reading(a)' = Lock!Reading(a) /\ Lock!Reading(a).p = a
  BY DEF Lock!Reading
<1>f. want_r \in Lock!Wants /\ want_w \in Lock!Wants
  BY WhatIsWanted
<1>1. ASSUME NEW a \in Lock!Procs, Lock!StarveReader(a)
      PROVE  Lock!StarveInv'
  <2>1. a \in {2, 3} /\ UNCHANGED fl_clock
    BY <1>1, <1>n DEF Lock!StarveReader
  <2>2. CASE fl_pc[a] = "start"
    <3>1. fl_clock = 5 * (a - 2)
      BY <1>1, <2>1, <2>2 DEF Lock!StarveReader, Lock!Due
    <3>2. Lock!Blockers(a, want_r) = {}
      <4>1. \A l \in fl_locks : l.t = "r"
        BY <2>1, <2>2 DEF Lock!StarveInv
      <4> QED BY <4>1 DEF Lock!Blockers
    <3>3. Lock!Go(a, "sleep") /\ fl_locks' = Lock!Placed(a, want_r)
      BY <1>1, <2>2, <3>2 DEF Lock!StarveReader
    <3>4. /\ \A l \in fl_locks' : l \in fl_locks \/ (l.p = a /\ l.t = "r")
          /\ \A l \in fl_locks : l.p # a => l \in fl_locks'
      BY <1>f, <3>3, PlacedFacts
    <3>5. Lock!Reading(a) \in fl_locks'
      BY <3>3 DEF Lock!Placed, Lock!Reading
    <3>6. fl_pc'[a] = "sleep" /\ \A q \in Lock!Procs \ {a} : fl_pc'[q] = fl_pc[q]
      BY <1>g, <3>3
    <3>7. fl_pc[1] # "locked"
      BY <2>1, <2>2 DEF Lock!StarveInv
    <3>8. \A l \in fl_locks' : \/ l.p \in {2, 3} /\ l.t = "r" /\ fl_pc'[l.p] = "sleep"
      BY <2>1, <3>4, <3>6, <3>7, ProcNumbers DEF Lock!StarveInv
    <3>9. ASSUME NEW p \in {2, 3}
          PROVE  /\ fl_pc'[p] \in {"start", "sleep", "exited"}
                 /\ fl_pc'[p] = "start" => fl_clock <= 5 * (p - 2)
                 /\ fl_pc'[p] = "sleep" => /\ Lock!Reading(p) \in fl_locks'
                                           /\ 5 * (p - 2) <= fl_clock /\ fl_clock <= 5 * (p - 2) + 6
                 /\ fl_pc'[p] = "exited" => fl_clock >= 5 * (p - 2) + 6
      <4>1. CASE p = a
        BY <3>1, <3>5, <3>6, <4>1
      <4>2. CASE p # a
        BY <1>e, <3>4, <3>6, <4>2, ProcNumbers DEF Lock!StarveInv
      <4> QED BY <4>1, <4>2
    <3>10. fl_pc'[1] = fl_pc[1]
      BY <2>1, <3>6, ProcNumbers
    <3> QED BY <1>e, <2>1, <3>7, <3>8, <3>9, <3>10 DEF Lock!StarveInv
  <2>3. CASE fl_pc[a] # "start"
    <3>1. Lock!Go(a, "exited") /\ fl_locks' = fl_locks \ Lock!Of(a) /\ fl_clock = Lock!Due(a)
      BY <1>1, <2>3 DEF Lock!StarveReader
    <3>2. fl_pc[a] = "sleep" /\ fl_clock = 5 * (a - 2) + 6
      <4>1. fl_pc[a] = "sleep"
        BY <1>w, <2>1, <2>3, <3>1 DEF Lock!Due
      <4> QED BY <2>1, <3>1, <4>1 DEF Lock!Due
    <3>3. fl_pc'[a] = "exited" /\ \A q \in Lock!Procs \ {a} : fl_pc'[q] = fl_pc[q]
      BY <1>g, <3>1
    <3>4. \A l : l \in fl_locks' <=> l \in fl_locks /\ l.p # a
      BY <3>1 DEF Lock!Of
    <3>5. fl_pc[1] # "locked" /\ fl_pc'[1] = fl_pc[1]
      BY <2>1, <3>2, <3>3, ProcNumbers DEF Lock!StarveInv
    <3>6. \A l \in fl_locks' : l.p \in {2, 3} /\ l.t = "r" /\ fl_pc'[l.p] = "sleep"
      BY <3>3, <3>4, <3>5, ProcNumbers DEF Lock!StarveInv
    <3>7. ASSUME NEW p \in {2, 3}
          PROVE  /\ fl_pc'[p] \in {"start", "sleep", "exited"}
                 /\ fl_pc'[p] = "start" => fl_clock <= 5 * (p - 2)
                 /\ fl_pc'[p] = "sleep" => /\ Lock!Reading(p) \in fl_locks'
                                           /\ 5 * (p - 2) <= fl_clock /\ fl_clock <= 5 * (p - 2) + 6
                 /\ fl_pc'[p] = "exited" => fl_clock >= 5 * (p - 2) + 6
      <4>1. CASE p = a
        BY <3>2, <3>3, <4>1
      <4>2. CASE p # a
        BY <1>e, <3>3, <3>4, <4>2, ProcNumbers DEF Lock!StarveInv
      <4> QED BY <4>1, <4>2
    <3> QED BY <1>e, <2>1, <3>5, <3>6, <3>7 DEF Lock!StarveInv
  <2> QED BY <2>2, <2>3
<1>2. CASE Lock!StarveWriter
  <2>1. UNCHANGED fl_clock
    BY <1>2 DEF Lock!StarveWriter
  <2>2. CASE fl_pc[1] = "start" /\ fl_clock = Lock!Due(1) /\ Lock!Go(1, "wait") /\ UNCHANGED fl_locks
    <3>1. fl_clock = 1 /\ fl_pc'[1] = "wait" /\ fl_pc'[2] = fl_pc[2] /\ fl_pc'[3] = fl_pc[3]
      BY <1>g, <2>2, ProcNumbers DEF Lock!Due
    <3>2. \A l \in fl_locks : l.p \in {2, 3} /\ l.t = "r" /\ fl_pc'[l.p] = "sleep"
      BY <2>2, <3>1 DEF Lock!StarveInv
    <3> QED BY <1>e, <2>1, <2>2, <3>1, <3>2 DEF Lock!StarveInv
  <2>3. CASE /\ fl_pc[1] = "wait" /\ Lock!Blockers(1, want_w) = {}
             /\ Lock!Go(1, "locked") /\ fl_locks' = Lock!Placed(1, want_w)
    <3>1. \A a \in {2, 3} : Lock!Reading(a) \notin fl_locks
      BY <2>3 DEF Lock!Blockers, Lock!Reading
    <3>2. \A a \in {2, 3} : fl_pc[a] # "sleep"
      BY <3>1 DEF Lock!StarveInv
    <3>3. \A a \in {2, 3} : fl_pc[a] \in {"start", "exited"} /\ (fl_pc[a] = "start" => fl_clock <= 5 * (a - 2))
      BY <3>2 DEF Lock!StarveInv
    <3>4. fl_clock >= 1 /\ \A a \in {2, 3} : fl_pc[a] = "exited" => fl_clock >= 5 * (a - 2) + 6
      BY <2>3 DEF Lock!StarveInv
    <3>5. fl_pc[2] = "exited"
      BY <1>w, <3>3, <3>4
    <3>6. fl_pc[3] = "exited"
      BY <1>w, <3>3, <3>4, <3>5
    <3>7. fl_pc'[1] = "locked" /\ fl_pc'[2] = fl_pc[2] /\ fl_pc'[3] = fl_pc[3]
      BY <1>g, <2>3, ProcNumbers
    <3>8. \A l \in fl_locks : FALSE
      BY <2>3, <3>5, <3>6 DEF Lock!StarveInv
    <3>9. \A l \in fl_locks' : l.p = 1
      BY <1>f, <2>3, <3>8, PlacedFacts, ProcNumbers
    <3> QED BY <2>1, <3>4, <3>5, <3>6, <3>7, <3>9 DEF Lock!StarveInv
  <2>4. CASE /\ fl_pc[1] = "locked" /\ \A p \in Lock!Procs \ {1} : fl_pc[p] \in {"failed", "exited"}
             /\ Lock!Go(1, "exited") /\ fl_locks' = fl_locks \ Lock!Of(1)
    <3>1. /\ fl_pc'[1] = "exited"
          /\ fl_pc'[2] = fl_pc[2]
          /\ fl_pc'[3] = fl_pc[3]
          /\ fl_pc[2] = "exited"
          /\ fl_pc[3] = "exited"
      BY <1>g, <2>4, ProcNumbers DEF Lock!StarveInv
    <3>2. \A l \in fl_locks : l.p = 1
      BY <3>1 DEF Lock!StarveInv
    <3>3. fl_locks' = {}
      BY <2>4, <3>2 DEF Lock!Of
    <3> QED BY <2>1, <2>4, <3>1, <3>3 DEF Lock!StarveInv
  <2> QED BY <1>2, <2>2, <2>3, <2>4 DEF Lock!StarveWriter
<1>3. CASE Lock!Second
  <2>1. fl_clock' = fl_clock + 1 /\ UNCHANGED <<fl_pc, fl_locks>> /\ \A p \in Lock!Procs : Lock!Due(p) > fl_clock
    BY <1>3 DEF Lock!Second
  <2>2. ASSUME NEW p \in {2, 3}
        PROVE  /\ fl_pc[p] = "start" => fl_clock < 5 * (p - 2)
               /\ fl_pc[p] = "sleep" => fl_clock < 5 * (p - 2) + 6
    BY <2>1, ProcNumbers DEF Lock!Due
  <2> QED BY <1>e, <1>w, <2>1, <2>2 DEF Lock!StarveInv
<1> QED BY <1>1, <1>2, <1>3, ToolSteps

\* The invariant is kept by every step of every program.
LEMMA LocksStep ==
  ASSUME FileLen \in Int, Lock!LocksInv, [Lock!Next]_Lock!vars
  PROVE  Lock!LocksInv'
<1>1. CASE Lock!Next
  <2>1. Lock!LocksTypeOK' /\ Lock!Excludes'
    BY <1>1, LocksTypes, LocksStayApart DEF Lock!LocksInv
  <2>2. fl_tool' = fl_tool
    BY <1>1, ToolSteps
  <2> QED BY <1>1, <2>1, <2>2, CirclesStep, DeadStep, StarveStep, PrefStep, FileStep DEF
    Lock!LocksInv
<1>2. CASE UNCHANGED Lock!vars
  <2> USE <1>2 DEF Lock!vars, Lock!LocksInv
  <2>1. Lock!LocksTypeOK' /\ Lock!Excludes'
    BY DEF Lock!LocksTypeOK, Lock!Excludes
  <2>2. Lock!NoCircles' <=> Lock!NoCircles
    BY DEF Lock!NoCircles, Lock!Edge, Lock!WaitsFor, Lock!Blockers
  <2>3. (Lock!DeadInv' <=> Lock!DeadInv) /\ (Lock!StarveInv' <=> Lock!StarveInv)
    BY DEF Lock!DeadInv, Lock!Own, Lock!StarveInv, Lock!Reading
  <2>4. (Lock!PrefInv' <=> Lock!PrefInv) /\ (Lock!FileInv' <=> Lock!FileInv)
    BY DEF Lock!PrefInv, Lock!FileInv
  <2> QED BY <2>1, <2>2, <2>3, <2>4
<1> QED BY <1>1, <1>2

\* What the invariant says of the locks.
LEMMA LocksInvMeans == Lock!LocksInv => Lock!LocksExclude
<1> SUFFICES ASSUME Lock!LocksInv PROVE Lock!LocksExclude
  OBVIOUS
<1>t. Lock!LocksTypeOK
  BY DEF Lock!LocksInv
<1>1. \A l, m \in fl_locks : l.p # m.p /\ l.b = m.b => l.t = "r" /\ m.t = "r"
  BY DEF Lock!LocksInv, Lock!Excludes
<1>2. ASSUME fl_tool = "i_fcntl", NEW a \in Lock!Procs, fl_pc[a] = "wait", Lock!Circle(a, fl_want[a])
      PROVE  FALSE
  <2>1. Lock!NoCircles
    BY <1>2 DEF Lock!LocksInv
  <2>2. PICK q \in Lock!WaitsFor(a, fl_want[a]) :
          \/ q = a \/ Lock!Edge(q, a)
          \/ \E r \in Lock!Procs : Lock!Edge(q, r) /\ Lock!Edge(r, a)
    BY <1>2, <1>t, CircleMeans
  <2>3. Lock!Edge(a, q) /\ q \in Lock!Procs
    BY <1>2, <1>t DEF Lock!Edge, Lock!WaitsFor, Lock!Blockers, Lock!LocksTypeOK, Lock!Locks
  <2> QED BY <2>1, <2>2, <2>3 DEF Lock!NoCircles
<1>3. fl_tool = "flock_dead" => "exited" \notin {fl_pc[1], fl_pc[2]}
  BY DEF Lock!LocksInv, Lock!DeadInv
<1>4. fl_tool = "lock_starve" => /\ fl_pc[1] = "locked" => fl_pc[2] = "exited" /\ fl_pc[3] = "exited"
                                 /\ \A p \in Lock!Procs : fl_pc[p] # "failed"
  <2>1. \A p \in Lock!Procs : p = 1 \/ p \in {2, 3}
    BY DEF Lock!Procs
  <2> QED BY <2>1 DEF Lock!LocksInv, Lock!StarveInv
<1>5. fl_tool = "flock_pref" => \A p \in Lock!Procs : fl_pc[p] # "failed"
  BY DEF Lock!LocksInv, Lock!PrefInv
<1>6. ASSUME fl_tool = "lockfile", NEW p \in Lock!Procs, fl_pc[p] = "locked"
      PROVE  /\ \A i \in 1..2 : <<i, p>> \in fl_files
             /\ \A q \in Lock!Procs \ {p} : fl_pc[q] # "locked" /\ Lock!Owned(q) = {}
  <2>1. \A q \in Lock!Procs : fl_pc[q] = "locked" => \A i \in 1..2 : <<Lock!Wanted(q)[i], q>> \in fl_files
    <3>1. \A q \in Lock!Procs : fl_pc[q] = "locked" => fl_tries[q][2] = 3
      BY <1>6 DEF Lock!LocksInv, Lock!FileInv
    <3>2. \A q \in Lock!Procs : fl_pc[q] = "locked" =>
            \A i \in 1..2 : i < fl_tries[q][2] => <<Lock!Wanted(q)[i], q>> \in fl_files
      BY <1>6 DEF Lock!LocksInv, Lock!FileInv
    <3>3. \A i \in 1..2 : i < 3
      OBVIOUS
    <3> QED BY <3>1, <3>2, <3>3
  <2>2. \A q \in Lock!Procs, i \in 1..2 : \E j \in 1..2 : Lock!Wanted(q)[j] = i
    BY DEF Lock!Wanted
  <2>3. ASSUME NEW q \in Lock!Procs, fl_pc[q] = "locked", NEW i \in 1..2
        PROVE  <<i, q>> \in fl_files
    <3>1. PICK j \in 1..2 : Lock!Wanted(q)[j] = i
      BY <2>2
    <3> QED BY <2>1, <2>3, <3>1
  <2>4. \A f \in fl_files : f[1] \in 1..2 /\ f = <<f[1], f[2]>>
    BY <1>6 DEF Lock!LocksInv, Lock!FileInv
  <2>5. \A f, g \in fl_files : f[1] = g[1] => f = g
    BY <1>6 DEF Lock!LocksInv, Lock!FileInv
  <2>6. \A f \in fl_files : f[2] = p
    BY <1>6, <2>3, <2>4, <2>5
  <2>7. \A q \in Lock!Procs \ {p} : fl_pc[q] # "locked"
    <3>0. 1 \in 1..2
      OBVIOUS
    <3>1. \A q \in Lock!Procs : fl_pc[q] = "locked" => <<1, q>> \in fl_files
      BY <2>3, <3>0
    <3>2. \A q \in Lock!Procs : <<1, q>>[2] = q
      OBVIOUS
    <3>3. \A q \in Lock!Procs : fl_pc[q] = "locked" => <<1, q>>[2] = p
      BY <2>6, <3>1
    <3> QED BY <3>2, <3>3
  <2> QED BY <1>6, <2>3, <2>6, <2>7 DEF Lock!Owned
<1> QED BY <1>1, <1>2, <1>3, <1>4, <1>5, <1>6 DEF Lock!LocksExclude

-----------------------------------------------------------------------------
(***************************************************************************)
(* A program whose proofs are in its own module: the signals of chapters   *)
(* 20 to 24.                                                               *)
(***************************************************************************)
Sig ==
  INSTANCE Signals WITH
    Sent <- SignalsSent,
    tool <- x1, pend <- x2, mask <- x3, pc <- x4, step <- x5, out <- x6,
    mess <- x7, flag <- x8

\* Bounds of the servers that fork, and of telnet_sv.c, in the run.
ForkConnects == [inetd_echo |-> 3, is_shell |-> 2]
ForkBounds == [inetd_echo |-> 1, is_shell |-> 2]
TelnetLoads ==
  {[clients |-> 1, keys |-> 2, sizes |-> 2, stops |-> 0],
   [clients |-> 2, keys |-> 0, sizes |-> 0, stops |-> 1]}

\* What sig_sender.c sends in the run: pairs of a number and a value.
SentSignals == <<<<10, 1>>, <<34, 1>>, <<2, 0>>, <<10, 2>>, <<34, 2>>, <<3, 0>>, <<2, 0>>, <<34, 3>>>>

\* The real-time signals sent have values that grow.
ASSUME SignalsAssumption == Sig!SignalsFit

-----------------------------------------------------------------------------
Programs ==
  {"sem_data_transfer", "pshm", "sigchild_handler", "pty_relay", "signal_io",
   "pipes", "file_locks", "timers", "signals", "echo", "fork_servers",
   "telnet"}

\* Slots from the n-th on are not used.
Spare(n) ==
  /\ IF n > 1 THEN TRUE ELSE x1 = 0
  /\ IF n > 2 THEN TRUE ELSE x2 = 0
  /\ IF n > 3 THEN TRUE ELSE x3 = 0
  /\ IF n > 4 THEN TRUE ELSE x4 = 0
  /\ IF n > 5 THEN TRUE ELSE x5 = 0
  /\ IF n > 6 THEN TRUE ELSE x6 = 0
  /\ IF n > 7 THEN TRUE ELSE x7 = 0
  /\ IF n > 8 THEN TRUE ELSE x8 = 0
  /\ IF n > 9 THEN TRUE ELSE x9 = 0
  /\ IF n > 10 THEN TRUE ELSE x10 = 0
  /\ IF n > 11 THEN TRUE ELSE x11 = 0
  /\ IF n > 12 THEN TRUE ELSE x12 = 0
  /\ IF n > 13 THEN TRUE ELSE x13 = 0
  /\ IF n > 14 THEN TRUE ELSE x14 = 0
  /\ IF n > 15 THEN TRUE ELSE x15 = 0
  /\ IF n > 16 THEN TRUE ELSE x16 = 0
  /\ IF n > 17 THEN TRUE ELSE x17 = 0
  /\ IF n > 18 THEN TRUE ELSE x18 = 0
  /\ IF n > 19 THEN TRUE ELSE x19 = 0
  /\ IF n > 20 THEN TRUE ELSE x20 = 0
  /\ IF n > 21 THEN TRUE ELSE x21 = 0
  /\ IF n > 22 THEN TRUE ELSE x22 = 0

MCInit ==
  /\ prog \in Programs /\ Init
  /\ CASE prog = "sem_data_transfer" -> Spare(1)
       [] prog = "pshm" -> Pshm!Init /\ Spare(12)
       [] prog = "sigchild_handler" -> Sigchld!Init /\ Spare(7)
       [] prog = "pty_relay" -> Pty!Init /\ Spare(16)
       [] prog = "signal_io" -> Sigio!Init /\ Spare(9)
       [] prog = "pipes" -> Pipe!Init /\ Spare(9)
       [] prog = "file_locks" -> Lock!Init /\ Spare(8)
       [] prog = "timers" -> Timer!Init /\ Spare(11)
       [] prog = "signals" -> Sig!Init /\ Spare(9)
       [] prog = "echo" -> Echo!Init /\ Spare(11)
       [] prog = "fork_servers" -> Fork!Init /\ Spare(14)
       [] prog = "telnet" -> Login!Init

From16 == <<x16, x17, x18, x19, x20, x21, x22>>
From14 == <<x14, x15, From16>>
From12 == <<x12, x13, From14>>
From11 == <<x11, From12>>
From9 == <<x9, x10, From11>>
From8 == <<x8, From9>>
From7 == <<x7, From8>>

\* Program p takes the step A, which leaves the slots in rest alone.
Of(p, A, rest) == prog = p /\ A /\ UNCHANGED <<prog, vars, rest>>
OfTransfer(A) == prog = "sem_data_transfer" /\ A /\ UNCHANGED <<prog, slots>>

MCNext ==
  \/ OfTransfer(Next)
  \/ Of("pshm", Pshm!Next, From12)
  \/ Of("sigchild_handler", Sigchld!Next, From7)
  \/ Of("pty_relay", Pty!Next, From16)
  \/ Of("signal_io", Sigio!Next, From9)
  \/ Of("pipes", Pipe!Next, From9)
  \/ Of("file_locks", Lock!Next, From8)
  \/ Of("timers", Timer!Next, From11)
  \/ Of("signals", Sig!Next, From9)
  \/ Of("echo", Echo!Next, From11)
  \/ Of("fork_servers", Fork!Next, From14)
  \/ Of("telnet", Login!Next, <<>>)

\* The fairness of each program's own FairSpec: its processes, its threads and the
\* kernel that delivers a signal go on.
FirstOfAny ==
  \/ OfTransfer(Writer)
  \/ Of("pshm", Pshm!Writer, From12)
  \/ Of("sigchild_handler", Sigchld!Main, From7)
  \/ Of("pty_relay", Pty!Relay, From16)
  \/ Of("signal_io", Sigio!Program, From9)
  \/ Of("pipes", Pipe!ParentStep, From9)
  \/ Of("signals", Sig!Peers, From9)
  \/ Of("echo", Echo!Server, From11)
  \/ Of("fork_servers", Fork!Server, From14)
  \/ Of("telnet", Login!Programs, <<>>)

SecondOfAny ==
  \/ OfTransfer(Reader)
  \/ Of("pshm", Pshm!Reader, From12)
  \/ Of("pty_relay", Pty!Child, From16)
  \/ Of("signal_io", Sigio!Deliver, From9)
  \/ Of("pipes", Pipe!ChildStep, From9)
  \/ Of("signals", Sig!Main, From9)
  \/ Of("fork_servers", Fork!Children, From14)

ThirdOfAny ==
  \/ Of("pty_relay", Pty!ReadStdin, From16)
  \/ Of("pipes", Pipe!OtherStep, From9)
  \/ Of("signals", Sig!Deliver, From9)
  \/ Of("fork_servers", Fork!SigchldHandler, From14)

ChildExits(i) == Of("sigchild_handler", Sigchld!Exit(i), From7)

ForkReaders == Of("fork_servers", Fork!Readers, From14)

\* drivi.c's script is a file: its lines are there without anyone who types.
ScriptLines == Of("pty_relay", x1 = "drivi" /\ Pty!Type, From16)

MCSpec == /\ MCInit /\ [][MCNext]_allVars
          /\ WF_allVars(FirstOfAny) /\ WF_allVars(SecondOfAny) /\ WF_allVars(ThirdOfAny)
          /\ \A i \in Sigchld!Children : WF_allVars(ChildExits(i))
          /\ WF_allVars(ScriptLines) /\ WF_allVars(ForkReaders)

-----------------------------------------------------------------------------
\* pshm_writer.c and pshm_reader.c transfer the blocks in order, each once,
\* whichever of the two is started first.
PshmIsTransfer ==
  /\ prog = "pshm" => PshmBlocks!BInit
  /\ [][prog = "pshm" => [PshmBlocks!BPut \/ PshmBlocks!BGet \/ PshmBlocks!BEnd
                         ]_<<x10, x11, x8 \in {"unlink", "done"}>>]_allVars

\* sigchild_handler.c: merged SIGCHLDs do not put childrenLeft out of step, and main
\* does not sleep on a child that has ended already.  pshm_writer.c and
\* pshm_reader.c: no semaphore exceeds 1.
CountsAgree ==
  /\ prog = "sigchild_handler" =>
       Sigchld!TypeOK /\ Sigchld!CountAgrees /\ Sigchld!ZombieIsAnnounced
  /\ prog = "pshm" => Pshm!TypeOK

\* Chapters 44 and 64: what comes out of a pipe is what went in; what is typed reaches
\* the program on the slave, and its output the terminal and the typescript.
BytesArrive == /\ prog = "pipes" => Pipe!PipesDeliver
               /\ prog = "pty_relay" => Pty!RelayIsFaithful

\* Chapters 60, 61, 63 and 64: a client that is answered is sent its own message, no
\* request is dropped, and children, signals and sizes of windows are accounted for.
ServersAreSound ==
  /\ prog = "echo" => Echo!EchoIsOwn
  /\ prog = "fork_servers" => Fork!ServersAreSound
  /\ prog = "telnet" => Login!TelnetIsSound

\* Chapter 55: locks exclude, and the demonstrations show what they say.
LocksExclude == prog = "file_locks" => Lock!LocksExclude

\* Chapter 23: expirations are reported once, and a sleep that is resumed lasts as long
\* as it should.
TimersKeepTime == prog = "timers" => Timer!TimersKeepTime

\* Chapters 20 to 24 and 63: what signals come to, which of them may be lost included,
\* and that input is announced.
SignalsArrive == /\ prog = "signals" => Sig!SignalsArrive
                 /\ prog = "signal_io" => Sigio!InputIsAnnounced

\* Each program ends; the relays when their child has, the SIGIO programs with their
\* input read.
EveryProgramEnds ==
  /\ prog = "sem_data_transfer" => ProgramEnds
  /\ <>CASE prog = "pshm" -> Pshm!BothEnded
         [] prog = "sigchild_handler" -> Sigchld!ProgramEnded
         [] prog = "pty_relay" -> Pty!DriviEnded
         [] prog = "pipes" -> Pipe!AllExited
         [] prog = "signals" -> Sig!PeersEnded
         [] OTHER -> TRUE
  /\ (prog = "pty_relay" /\ Pty!ChildGone) ~> (prog = "pty_relay" => Pty!RelayEnded)
  /\ (prog = "signal_io" /\ Sigio!InputWaits) ~> (prog = "signal_io" => Sigio!InputDone)
  /\ []<>CASE prog = "echo" -> Echo!EchoSettled
           [] prog = "fork_servers" -> Fork!ClientsDone
           [] prog = "telnet" -> Login!TelnetSettled
           [] OTHER -> TRUE

\* telnet_sv.c is to handle clients concurrently (64_Pseudoterminals/README.md:87-96):
\* whoever connects, and in whatever order the two connections of each come, it stays up.
\* It does not, and Processes_telnet.cfg shows why.
ServerStaysUp == prog = "telnet" => Login!StaysUp

-----------------------------------------------------------------------------
(***************************************************************************)
(* Theorems about the programs a run checks: a behaviour is one of one     *)
(* program, and keeps that program's invariant.                            *)
(***************************************************************************)
ProgramsInv ==
  /\ prog = "pshm" => Pshm!Inv
  /\ prog = "sigchild_handler" => Sigchld!HandlerInv
  /\ prog = "file_locks" => Lock!LocksInv
  /\ prog = "timers" => Timer!TimersInv
  /\ prog = "pipes" => Pipe!PipesInv
  /\ prog = "pty_relay" => Pty!RelayInv
  /\ prog = "echo" => Echo!EchoInv
  /\ prog = "fork_servers" => Fork!ForkInv
  /\ prog = "telnet" => Login!TelnetInv
  /\ prog = "signals" => Sig!SigInv
  /\ prog = "signal_io" => Sigio!SigioInv

\* A step is a step of the program that was chosen.
LEMMA OneProgramRuns ==
  ASSUME [MCNext]_allVars
  PROVE  /\ prog' = prog
         /\ prog = "pshm" => [Pshm!Next]_Pshm!vars
         /\ prog = "sigchild_handler" => [Sigchld!Next]_Sigchld!vars
         /\ prog = "file_locks" => [Lock!Next]_Lock!vars
         /\ prog = "timers" => [Timer!Next]_Timer!vars
         /\ prog = "pipes" => [Pipe!Next]_Pipe!vars
         /\ prog = "pty_relay" => [Pty!Next]_Pty!vars
         /\ prog = "echo" => [Echo!Next]_Echo!vars
         /\ prog = "fork_servers" => [Fork!Next]_Fork!vars
         /\ prog = "telnet" => [Login!Next]_Login!vars
         /\ prog = "signals" => [Sig!Next]_Sig!vars
         /\ prog = "signal_io" => [Sigio!Next]_Sigio!vars
<1>1. CASE MCNext
  BY <1>1 DEF MCNext, Of, OfTransfer
<1>2. CASE UNCHANGED allVars
  BY <1>2 DEF allVars, slots, Pshm!vars, Pshm!shared, Pshm!writer, Pshm!reader,
    Sigchld!vars, Lock!vars, Timer!vars, Pipe!vars, Pty!vars,
    Echo!vars, Fork!vars, Login!vars, Sig!vars, Sigio!vars
<1> QED BY <1>1, <1>2

\* The program that was chosen starts as it does.
LEMMA ProgramsBegin == MCInit => ProgramsInv
<1> SUFFICES ASSUME MCInit PROVE ProgramsInv
  OBVIOUS
<1>1. /\ prog = "pshm" => Pshm!Init
      /\ prog = "sigchild_handler" => Sigchld!Init
      /\ prog = "file_locks" => Lock!Init
      /\ prog = "timers" => Timer!Init
      /\ prog = "pipes" => Pipe!Init
      /\ prog = "pty_relay" => Pty!Init
      /\ prog = "echo" => Echo!Init
      /\ prog = "fork_servers" => Fork!Init
      /\ prog = "telnet" => Login!Init
      /\ prog = "signals" => Sig!Init
      /\ prog = "signal_io" => Sigio!Init
  BY DEF MCInit
<1>2. prog = "pshm" => Pshm!Inv
  BY <1>1, PshmInit, SemTransferAssumption
<1>3. prog = "sigchild_handler" => Sigchld!HandlerInv
  BY <1>1, HandlerInit, ProcessesAssumption
<1>4. prog = "file_locks" => Lock!LocksInv
  BY <1>1, LocksBegin
<1>5. prog = "timers" => Timer!TimersInv
  BY <1>1, TimersBegin
<1>6. prog = "pipes" => Pipe!PipesInv
  BY <1>1, PipesStart
<1>7. prog = "pty_relay" => Pty!RelayInv
  BY <1>1, RelayStarts
<1>8. prog = "echo" => Echo!EchoInv
  BY <1>1, EchoStart
<1>9. prog = "fork_servers" => Fork!ForkInv
  BY <1>1, ForkStart
<1>10. prog = "telnet" => Login!TelnetInv
  BY <1>1, TelnetStart
<1>11. prog = "signals" => Sig!SigInv
  BY <1>1, SignalsAssumption, Sig!SignalsInit
<1>12. prog = "signal_io" => Sigio!SigioInv
  BY <1>1, SigioInit
<1> QED BY <1>2, <1>3, <1>4, <1>5, <1>6, <1>7, <1>8, <1>9, <1>10, <1>11, <1>12
  DEF ProgramsInv

\* The invariant of each program is kept by its steps.
LEMMA ProgramsStep == ProgramsInv /\ [MCNext]_allVars => ProgramsInv'
<1> SUFFICES ASSUME ProgramsInv, [MCNext]_allVars PROVE ProgramsInv'
  OBVIOUS
<1>1. prog' = prog
  BY OneProgramRuns
<1>2. prog = "pshm" => Pshm!Inv'
  BY OneProgramRuns, PshmTypes, PshmTurn, SemTransferAssumption DEF ProgramsInv, Pshm!Inv
<1>3. prog = "sigchild_handler" => Sigchld!HandlerInv'
  BY OneProgramRuns, HandlerStep, ProcessesAssumption DEF ProgramsInv
<1>4. prog = "file_locks" => Lock!LocksInv'
  <2>1. FileLen \in Int
    BY ProcessesAssumption
  <2> QED BY <2>1, OneProgramRuns, LocksStep DEF ProgramsInv
<1>5. prog = "timers" => Timer!TimersInv'
  BY OneProgramRuns, TimersStep DEF ProgramsInv
<1>6. prog = "pipes" => Pipe!PipesInv'
  BY OneProgramRuns, PipesStep DEF ProgramsInv
<1>7. prog = "pty_relay" => Pty!RelayInv'
  BY OneProgramRuns, RelayTypes, InputStep, OutputStep, KnowsStep
    DEF ProgramsInv, Pty!RelayInv
<1>8. prog = "echo" => Echo!EchoInv'
  BY OneProgramRuns, EchoStep DEF ProgramsInv
<1>9. prog = "fork_servers" => Fork!ForkInv'
  BY OneProgramRuns, ForkStep DEF ProgramsInv
<1>10. prog = "telnet" => Login!TelnetInv'
  BY OneProgramRuns, TelnetStep DEF ProgramsInv
<1>11. prog = "signals" => Sig!SigInv'
  BY OneProgramRuns, SignalsAssumption, Sig!SignalsStep DEF ProgramsInv
<1>12. prog = "signal_io" => Sigio!SigioInv'
  BY OneProgramRuns, SigioStep DEF ProgramsInv
<1> QED BY <1>1, <1>2, <1>3, <1>4, <1>5, <1>6, <1>7, <1>8, <1>9, <1>10, <1>11, <1>12
  DEF ProgramsInv

\* The invariants hold in every reachable state.
LEMMA ProgramsInvariance == MCSpec => []ProgramsInv
BY ProgramsBegin, ProgramsStep, PTL DEF MCSpec

\* sigchild_handler.c: childrenLeft counts each child once, however many SIGCHLDs were
\* merged, and sigsuspend is never called with a child that has ended and no SIGCHLD
\* to tell of it.  pshm_writer.c, pshm_reader.c: no semaphore exceeds 1.
THEOREM ChildrenAreCounted == MCSpec => []CountsAgree
<1>1. ProgramsInv => CountsAgree
  BY DEF ProgramsInv, CountsAgree, Sigchld!HandlerInv, Sigchld!ZombieIsAnnounced, Pshm!Inv
<1> QED BY <1>1, ProgramsInvariance, PTL

\* pshm_writer.c and pshm_reader.c transfer the input, block by block and in order,
\* whichever of the two is started first.
THEOREM PshmRefines == MCSpec => PshmIsTransfer
<1>1. MCInit => (prog = "pshm" => PshmBlocks!BInit)
  <2>1. MCInit => (prog = "pshm" => Pshm!Init)
    BY DEF MCInit
  <2> QED BY <2>1 DEF Pshm!Init, PshmBlocks!BInit
<1>2. ProgramsInv /\ [MCNext]_allVars =>
        (prog = "pshm" => [PshmBlocks!BPut \/ PshmBlocks!BGet \/ PshmBlocks!BEnd
                          ]_<<x10, x11, x8 \in {"unlink", "done"}>>)
  BY OneProgramRuns, PshmStep, SemTransferAssumption DEF ProgramsInv
<1> QED BY <1>1, <1>2, ProgramsInvariance, PTL DEF MCSpec, PshmIsTransfer

\* The programs of chapter 55: locks exclude each other, a deadlock is seen by whoever
\* closes the circle, and a writer waits as long as readers come.
THEOREM LocksAreExclusive == MCSpec => []LocksExclude
<1>1. ProgramsInv => LocksExclude
  BY LocksInvMeans DEF ProgramsInv, LocksExclude
<1> QED BY <1>1, ProgramsInvariance, PTL

\* The programs of chapter 23: each expiration is reported once, and a sleep lasts as
\* long as it was asked to, whatever signals interrupt it, up to a tick for each where
\* it is resumed with what remained.
THEOREM TimersAreKept == MCSpec => []TimersKeepTime
<1>1. ProgramsInv => TimersKeepTime
  BY TimersInvMeans DEF ProgramsInv, TimersKeepTime
<1> QED BY <1>1, ProgramsInvariance, PTL

\* The programs of chapters 44 and 64: what comes out of a pipe is what went in, in its
\* order, and nothing is left behind by a program that has ended; what is typed reaches
\* the program on the slave, and its output the terminal and the typescript, in order;
\* a relay that ends in success, and any but better_script.c that ends at all, has put
\* the terminal back.
THEOREM BytesAreDelivered == MCSpec => []BytesArrive
<1>1. ProgramsInv => BytesArrive
  BY PipesMean, RelayMeans DEF ProgramsInv, BytesArrive
<1> QED BY <1>1, ProgramsInvariance, PTL

\* The servers of chapters 60, 61, 63 and 64: a request that has reached echo_sv.c is
\* queued or being served until its own answer is sent; a client that is through has all
\* it is owed; children are counted and none that ends is forgotten; the SIGCHLD handler
\* of telnet_sv.c is called no more often than children end, stop or go on; a terminal
\* has the row and the column of one size.
THEOREM ServersAreRight == MCSpec => []ServersAreSound
<1>1. ProgramsInv => ServersAreSound
  BY EchoMeans, ForkMeans, TelnetMeans DEF ProgramsInv, ServersAreSound
<1> QED BY <1>1, ProgramsInvariance, PTL

\* Chapters 20 to 24 and 63: peers that wait for each other's signals never do so both;
\* a receiver sees every real-time signal in its order, and a standard signal at least
\* once and no more often than sent; no letter is printed twice or out of order; the
\* counts of t_sigsuspend.c never exceed what was sent, and a SIGQUIT ends it; while
\* there is input, a signal, the flag or the program's own reading will have it read.
THEOREM SignalsAreSeen == MCSpec => []SignalsArrive
<1>1. ProgramsInv => SignalsArrive
  BY SignalsAssumption, Sig!SignalsMeans DEF ProgramsInv, SignalsArrive, Sigio!SigioInv
<1> QED BY <1>1, ProgramsInvariance, PTL
=============================================================================
