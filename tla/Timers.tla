-------------------------------- MODULE Timers --------------------------------
(***************************************************************************)
(* 23_Timers_and_Sleeping.  sequential.c and ptmr_sigev_signal.c report    *)
(* the expirations of POSIX timers from sigwaitinfo and from a handler,    *)
(* demo_timerfd.c reads them from a descriptor, real_timer.c counts        *)
(* SIGALRMs with a flag, posix_timers.c has a timer interrupt its sleeps.  *)
(* t_nanosleep.c, t_clock_nanosleep.c and abstime_sleep.c sleep on after a *)
(* SIGINT, "t_clock_relative" being t_clock_nanosleep.c without its third  *)
(* argument; timed_read.c bounds a read by an alarm; imp_alarm.c is        *)
(* alarm(2) made of setitimer.                                             *)
(*                                                                         *)
(* Time is in half seconds: a second has two "nanoseconds".  Any time may  *)
(* pass between two steps of a program, none after a sleep is over.        *)
(***************************************************************************)
EXTENDS Integers, Sequences

CONSTANTS MaxClock, MaxSignals

VARIABLES
  tool,
  clock,
  timer,    \* of each timer, the time left (0: not armed) and its interval
  expired,  \* of each timer, how often it has expired
  queued,   \* of each timer, expirations the program has not been told of
  told,     \* of each timer, expirations it has reported
  pc,
  until,    \* the end of the sleep in progress; when the alarm is due
  req,      \* what was asked for: see each program
  begun     \* when that was

vars == <<tool, clock, timer, expired, queued, told, pc, until, req, begun>>

Timers == 1..2
Signalled == {"sequential", "ptmr_sigev_signal"}
Relative == {"t_nanosleep", "t_clock_relative"}
Sleepers == Relative \union {"t_clock_nanosleep", "abstime_sleep"}
Tools == Signalled \union Sleepers
           \union {"demo_timerfd", "real_timer", "posix_timers", "timed_read", "imp_alarm"}

\* req of the sleepers: seconds, nanoseconds, how many signals; else a counter.
Requests == {0, 1} \X {0, 1} \X {0}

Init ==
  /\ tool \in Tools /\ pc = "start"
  /\ clock \in IF tool \in Sleepers THEN 0..1 ELSE {0}
  /\ timer = [i \in Timers |-> <<0, 0>>]
  /\ expired = [i \in Timers |-> 0] /\ queued = expired /\ told = expired
  /\ until = 0 /\ begun = 0
  /\ req \in IF tool \in Sleepers THEN Requests ELSE {<<0, 0, 0>>}

Arm(i, value, interval) == timer' = [timer EXCEPT ![i] = <<value, interval>>]

Sleeping == pc = "sleep"

\* Half a second passes.  A timer that expires starts over if it has an interval.
Tick ==
  /\ IF tool = "posix_timers" THEN Sleeping ELSE clock < MaxClock /\ pc \notin {"done", "refused"}
  /\ Sleeping => clock < until /\ \A i \in Timers : queued[i] = 0
  /\ LET due == {i \in Timers : timer[i][1] = 1} IN
     /\ clock' = clock + 1
     /\ timer' = [i \in Timers |-> IF i \in due THEN <<timer[i][2], timer[i][2]>>
                                  ELSE IF timer[i][1] > 0 THEN <<timer[i][1] - 1, timer[i][2]>>
                                  ELSE timer[i]]
     /\ expired' = [i \in Timers |-> expired[i] + (IF i \in due THEN 1 ELSE 0)]
     /\ queued' = [i \in Timers |-> queued[i] + (IF i \in due THEN 1 ELSE 0)]
  /\ UNCHANGED <<tool, told, pc, until, req, begun>>

-----------------------------------------------------------------------------
\* itimerspecFromStr: secs[/nsecs][:int-secs[/int-nsecs]], here with the parts that
\* are absent as 0.
Specs == {<<1, 0>>, <<2, 1>>, <<1, 2>>}

\* sequential.c, ptmr_sigev_signal.c: one timer after the other is armed.
CreateTimer ==
  /\ tool \in Signalled /\ pc = "start" /\ req[1] < 2
  /\ \E s \in Specs : Arm(req[1] + 1, s[1], s[2])
  /\ req' = [req EXCEPT ![1] = @ + 1]
  /\ UNCHANGED <<tool, clock, expired, queued, told, pc, until, begun>>

BlockSignal ==
  /\ tool \in Signalled /\ pc = "start" /\ req[1] = 2
  /\ pc' = "wait" /\ UNCHANGED <<tool, clock, timer, expired, queued, told, until, req, begun>>

\* sequential.c has no handler: until its signal is blocked it is the end of it.
Killed ==
  /\ tool = "sequential" /\ pc = "start" /\ \E i \in Timers : queued[i] > 0
  /\ pc' = "done" /\ UNCHANGED <<tool, clock, timer, expired, queued, told, until, req, begun>>

\* Mutant: the expirations of a timer beyond the one signalled are not asked for.
ReportNoOverrun(i) ==
  /\ tool \in Signalled /\ queued[i] > 0
  /\ pc = "wait" \/ (tool = "ptmr_sigev_signal" /\ pc = "start")
  /\ told' = [told EXCEPT ![i] = @ + 1] /\ queued' = [queued EXCEPT ![i] = 0]
  /\ UNCHANGED <<tool, clock, timer, expired, pc, until, req, begun>>

\* A signal per timer is queued; it is reported with timer_getoverrun, by the handler
\* or after sigwaitinfo.
Report(i) ==
  /\ tool \in Signalled /\ queued[i] > 0
  /\ pc = "wait" \/ (tool = "ptmr_sigev_signal" /\ pc = "start")
  /\ LET overrun == queued[i] - 1 IN told' = [told EXCEPT ![i] = @ + 1 + overrun]
  /\ queued' = [queued EXCEPT ![i] = 0]
  /\ UNCHANGED <<tool, clock, timer, expired, pc, until, req, begun>>

-----------------------------------------------------------------------------
\* demo_timerfd.c: read waits for an expiration and gets the number since the last;
\* at max-exp, 3 here, the program ends.
TimerfdSettime ==
  /\ tool = "demo_timerfd" /\ pc = "start" /\ pc' = "read"
  /\ \E s \in Specs : Arm(1, s[1], s[2])
  /\ UNCHANGED <<tool, clock, expired, queued, told, until, req, begun>>

ReadTimerfd ==
  /\ tool = "demo_timerfd" /\ pc = "read" /\ queued[1] > 0
  /\ told' = [told EXCEPT ![1] = @ + queued[1]] /\ queued' = [queued EXCEPT ![1] = 0]
  /\ pc' = IF told'[1] < 3 THEN "read" ELSE "done"
  /\ UNCHANGED <<tool, clock, timer, expired, until, req, begun>>

\* real_timer.c: req is <<maxSigs, sigCnt, gotAlarm>>.
Setitimer ==
  /\ tool = "real_timer" /\ pc = "start" /\ pc' = "loop"
  /\ \E s \in Specs : Arm(1, s[1], s[2]) /\ req' = <<IF s[2] = 0 THEN 1 ELSE 3, 0, 0>>
  /\ UNCHANGED <<tool, clock, expired, queued, told, until, begun>>

SigalrmHandler ==
  /\ tool = "real_timer" /\ pc = "loop" /\ queued[1] > 0
  /\ queued' = [queued EXCEPT ![1] = 0] /\ req' = [req EXCEPT ![3] = 1]
  /\ UNCHANGED <<tool, clock, timer, expired, told, pc, until, begun>>

GotAlarm ==
  /\ tool = "real_timer" /\ pc = "loop" /\ req[3] = 1
  /\ req' = <<req[1], req[2] + 1, 0>>
  /\ pc' = IF req[2] + 1 >= req[1] THEN "done" ELSE pc
  /\ UNCHANGED <<tool, clock, timer, expired, queued, told, until, begun>>

-----------------------------------------------------------------------------
\* posix_timers.c: req[1] is intCount, req[2] tells nanosleep, sleep and the last
\* sleep apart.  A signal ends a sleep early; its handler does nothing.
PosixStart ==
  /\ tool = "posix_timers" /\ pc = "start" /\ pc' = "sleep"
  /\ Arm(1, 10, 4) /\ until' = clock + 3 /\ begun' = clock
  /\ UNCHANGED <<tool, clock, expired, queued, told, req>>

PosixWakes ==
  /\ tool = "posix_timers" /\ Sleeping /\ (clock = until \/ queued[1] > 0)
  /\ queued' = [queued EXCEPT ![1] = 0] /\ begun' = clock
  /\ IF req[2] = 2 THEN pc' = "done" /\ told' = [told EXCEPT ![1] = clock - begun]
                        /\ UNCHANGED <<timer, until, req>>
     ELSE /\ UNCHANGED <<pc, told>>
          /\ IF req[2] = 0 THEN until' = clock + 20 /\ req' = <<req[1], 1, 0>> /\ UNCHANGED timer
             ELSE IF req[1] + 1 < 5
             THEN until' = clock + 3 /\ req' = <<req[1] + 1, 0, 0>> /\ UNCHANGED timer
             ELSE Arm(1, 0, 0) /\ until' = clock + 20 /\ req' = <<0, 2, 0>>
  /\ UNCHANGED <<tool, clock, expired>>

-----------------------------------------------------------------------------
\* abstime_sleep.c adds the two parts without a carry, which the kernel refuses;
\* t_clock_nanosleep.c carries if the sleep is absolute.
NoCarry == tool = "abstime_sleep" /\ (clock % 2) + req[2] >= 2

\* In its relative mode it adds the arguments to a request that holds no value: any
\* sleep may be asked for, and what is no time is refused.
Sleep ==
  /\ tool \in Sleepers /\ pc = "start" /\ begun' = clock
  /\ req' \in IF tool = "t_clock_relative" THEN Requests ELSE {req}
  /\ \/ (NoCarry \/ tool = "t_clock_relative") /\ pc' = "refused" /\ UNCHANGED until
     \/ ~NoCarry /\ pc' = "sleep" /\ until' = clock + 2 * req'[1] + req'[2]
  /\ UNCHANGED <<tool, clock, timer, expired, queued, told>>

\* SIGINT.  A relative sleep goes on with the time that remained, which is rounded up
\* to the timer's granularity.
Interrupted ==
  /\ tool \in Sleepers /\ Sleeping /\ clock < until /\ req[3] < MaxSignals
  /\ req' = [req EXCEPT ![3] = @ + 1]
  /\ until' \in IF tool \in Relative THEN {until, until + 1} ELSE {until}
  /\ UNCHANGED <<tool, clock, timer, expired, queued, told, pc, begun>>

SleepComplete ==
  /\ tool \in Sleepers /\ Sleeping /\ clock = until /\ pc' = "done"
  /\ told' = [told EXCEPT ![1] = clock - begun]
  /\ UNCHANGED <<tool, clock, timer, expired, queued, until, req, begun>>

-----------------------------------------------------------------------------
\* timed_read.c: alarm(3), then a read that its SIGALRM, or input, ends.  A signal
\* that comes before the read is handled and does not end it.
Alarm ==
  /\ tool = "timed_read" /\ pc = "start" /\ pc' = "armed" /\ Arm(1, 6, 0)
  /\ begun' = clock /\ queued' = [queued EXCEPT ![1] = 0]
  /\ UNCHANGED <<tool, clock, expired, told, until, req>>

EnterRead ==
  /\ tool = "timed_read" /\ pc = "armed" /\ pc' = "read"
  /\ queued' = [queued EXCEPT ![1] = 0]
  /\ UNCHANGED <<tool, clock, timer, expired, told, until, req, begun>>

ReadReturns ==
  /\ tool = "timed_read" /\ pc = "read" /\ pc' = "start"
  /\ queued[1] > 0 \/ req[2] < MaxSignals      \* or input has come
  /\ req' = [req EXCEPT ![2] = IF queued[1] > 0 THEN @ ELSE @ + 1]
  /\ queued' = [queued EXCEPT ![1] = 0]
  /\ UNCHANGED <<tool, clock, timer, expired, told, until, begun>>

\* imp_alarm(seconds): told[1] is what it returns, until when the alarm set is due.
\* With 0 the interval passed is uninitialised, so that setitimer may refuse it.
ImpAlarm ==
  /\ tool = "imp_alarm"
  /\ \/ /\ \E seconds \in 0..2 : Arm(1, 2 * seconds, 0) /\ until' = clock + 2 * seconds
        /\ told' = [told EXCEPT ![1] = timer[1][1] \div 2]
     \/ told' = [told EXCEPT ![1] = -1] /\ UNCHANGED <<timer, until>>
  /\ UNCHANGED <<tool, clock, expired, queued, pc, req, begun>>

-----------------------------------------------------------------------------
Next ==
  \/ Tick \/ CreateTimer \/ BlockSignal \/ Killed \/ \E i \in Timers : Report(i)
  \/ TimerfdSettime \/ ReadTimerfd \/ Setitimer \/ SigalrmHandler \/ GotAlarm
  \/ PosixStart \/ PosixWakes \/ Sleep \/ Interrupted \/ SleepComplete
  \/ Alarm \/ EnterRead \/ ReadReturns \/ ImpAlarm

-----------------------------------------------------------------------------
(***************************************************************************)
(*   - Every expiration of a timer is reported once, in a signal's overrun *)
(*     count or a read's if the program was late.                          *)
(*   - real_timer.c ends with maxSigs alarms counted, none twice.          *)
(*   - A sleep resumed after signals lasts as long as the kernel was asked *)
(*     for; a relative one may last longer, by a tick for each signal      *)
(*     (23-2), an absolute one not at all.  What is left of a timer that   *)
(*     posix_timers.c has disarmed does not cut its last sleep short.      *)
(*   - timed_read.c's read is interrupted by the alarm that was set for it *)
(*     and not by that of an earlier read which input has ended.           *)
(*   - After imp_alarm has replaced, disabled or failed to disable an      *)
(*     alarm, what runs is what is left of the last one asked for.         *)
(* Not said, because neither is so: that timed_read.c's read always comes  *)
(* to an end (its lines 2-3), and that imp_alarm returns 0 only if no time *)
(* was left (its lines 2-3).                                               *)
(***************************************************************************)
TimersKeepTime ==
  /\ tool \in Signalled \union {"demo_timerfd"} =>
       \A i \in Timers : told[i] + queued[i] = expired[i]
  /\ tool = "real_timer" => /\ req[2] + req[3] + queued[1] <= expired[1]
                            /\ pc = "done" => req[2] = req[1]
  /\ tool \in Sleepers /\ pc = "done" =>
       LET asked == 2 * req[1] + req[2] IN
       /\ told[1] >= asked
       /\ told[1] <= asked + (IF tool \in Relative THEN req[3] ELSE 0)
  /\ tool = "posix_timers" /\ pc = "done" => told[1] = 20
  /\ tool = "timed_read" /\ pc = "read" /\ queued[1] > 0 => clock >= begun + 6
  /\ tool = "imp_alarm" => timer[1][1] = IF until > clock THEN until - clock ELSE 0

-----------------------------------------------------------------------------
(***************************************************************************)
(* The invariant from which TimersKeepTime follows (proved in MCProcesses).*)
(***************************************************************************)
Times == Nat \X Nat
Reqs == Nat \X Nat \X Nat

\* The type of every variable but pc, which no part of the invariant needs.
TimersTypeOK ==
  /\ tool \in Tools
  /\ clock \in Nat /\ until \in Nat /\ begun \in Nat
  /\ timer \in [Timers -> Times]
  /\ expired \in [Timers -> Nat] /\ queued \in [Timers -> Nat]
  /\ told \in [Timers -> Int]
  /\ req \in Reqs

\* real_timer.c: an alarm is queued, flagged or counted; the loop ends with the last.
RealInv ==
  /\ req[2] + req[3] + queued[1] <= expired[1]
  /\ pc \in {"start", "loop", "done"}
  /\ pc = "loop" => req[2] < req[1]
  /\ pc = "done" => req[2] = req[1]

\* A sleep ends when what was asked for has passed since it began, and not much later.
Asked == 2 * req[1] + req[2]
Slack == IF tool \in Relative THEN req[3] ELSE 0
SleepInv ==
  /\ Sleeping => begun + Asked <= until /\ until <= begun + Asked + Slack
  /\ pc = "done" => Asked <= told[1] /\ told[1] <= Asked + Slack
  /\ pc \in {"start", "sleep", "done", "refused"}

\* posix_timers.c: in the last sleep the timer is disarmed and has nothing queued.
PosixInv ==
  /\ pc \in {"start", "sleep", "done"}
  /\ pc = "start" => req[2] = 0
  /\ Sleeping /\ req[2] = 2 => until = begun + 20 /\ timer[1][1] = 0 /\ queued[1] = 0
  /\ pc = "done" => told[1] = 20

\* timed_read.c: the alarm that runs is the one set last, and is due after six ticks.
ReadInv ==
  /\ timer[1][2] = 0
  /\ pc \in {"armed", "read"} =>
       /\ timer[1][1] > 0 => begun + 6 <= clock + timer[1][1]
       /\ queued[1] > 0 => clock >= begun + 6

\* imp_alarm.c: the timer has no interval, and is what is left until it is due.
AlarmInv ==
  /\ timer[1][2] = 0
  /\ timer[1][1] = IF until > clock THEN until - clock ELSE 0

TimersInv ==
  /\ TimersTypeOK
  /\ tool \in Signalled \union {"demo_timerfd"} =>
       \A i \in Timers : told[i] + queued[i] = expired[i]
  /\ tool = "real_timer" => RealInv
  /\ tool \in Sleepers => SleepInv
  /\ tool = "posix_timers" => PosixInv
  /\ tool = "timed_read" => ReadInv
  /\ tool = "imp_alarm" => AlarmInv
=============================================================================
