--------------------------- MODULE ThreadMultijoin ---------------------------
(***************************************************************************)
(* 30_Thread_Synchronhization/thread_multijoin.c: main joins with whichever*)
(* thread has terminated, told by a condition variable.  pthread_cond_wait *)
(* may return without a signal; pthread calls do not fail.                 *)
(***************************************************************************)
EXTENDS Integers, FiniteSets

CONSTANT N     \* argc - 1, the number of threads, at least 1

Idx == 0..(N - 1)

VARIABLES
  state,        \* thread[i].state: TS_ALIVE, TS_TERMINATED or TS_JOINED
  numLive,
  numUnjoined,
  mutex,        \* holder of threadMutex: an index, Main or None
  tpc,          \* tpc[i]: where thread i is
  mpc,          \* where main is
  idx,          \* main's loop index
  waiting       \* main waits on threadDied and has not been signalled

vars == <<state, numLive, numUnjoined, mutex, tpc, mpc, idx, waiting>>

Main == -1
None == -2

Init ==
  /\ state = [i \in Idx |-> "ALIVE"]
  /\ numLive = 0
  /\ numUnjoined = 0
  /\ mutex = None
  /\ tpc = [i \in Idx |-> "none"]
  /\ mpc = "create"
  /\ idx = 0
  /\ waiting = FALSE

\* The process, and with it every thread, is still there.
Running == mpc \notin {"exited", "failed"}

ThreadAt(i, l) == Running /\ tpc[i] = l
ThreadGoto(i, l) == tpc' = [tpc EXCEPT ![i] = l]

-----------------------------------------------------------------------------
(* threadFunc.                                                             *)

\* The sleep is over and threadMutex free.
Terminate(i) ==
  /\ ThreadAt(i, "work")
  /\ mutex = None
  /\ mutex' = i
  /\ numUnjoined' = numUnjoined + 1
  /\ state' = [state EXCEPT ![i] = "TERMINATED"]
  /\ ThreadGoto(i, "unlock")
  /\ UNCHANGED <<numLive, mpc, idx, waiting>>

ThreadUnlock(i) ==
  /\ ThreadAt(i, "unlock")
  /\ mutex' = None
  /\ ThreadGoto(i, "signal")
  /\ UNCHANGED <<state, numLive, numUnjoined, mpc, idx, waiting>>

\* Mutant: pthread_cond_signal is forgotten.
SilentEnd(i) ==
  /\ ThreadAt(i, "signal")
  /\ ThreadGoto(i, "ended")
  /\ UNCHANGED <<state, numLive, numUnjoined, mutex, mpc, idx, waiting>>

Signal(i) ==
  /\ ThreadAt(i, "signal")
  /\ waiting' = FALSE
  /\ ThreadGoto(i, "ended")
  /\ UNCHANGED <<state, numLive, numUnjoined, mutex, mpc, idx>>

Thread(i) == Terminate(i) \/ ThreadUnlock(i) \/ Signal(i)

-----------------------------------------------------------------------------
(* main.                                                                   *)

Create ==
  /\ mpc = "create" /\ idx < N
  /\ tpc' = [tpc EXCEPT ![idx] = "work"]
  /\ idx' = idx + 1
  /\ UNCHANGED <<state, numLive, numUnjoined, mutex, mpc, waiting>>

AllCreated ==
  /\ mpc = "create" /\ idx = N
  /\ numLive' = N
  /\ mpc' = "lock"
  /\ UNCHANGED <<state, numUnjoined, mutex, tpc, idx, waiting>>

Lock ==
  /\ mpc = "lock" /\ numLive > 0
  /\ mutex = None
  /\ mutex' = Main
  /\ mpc' = "test"
  /\ UNCHANGED <<state, numLive, numUnjoined, tpc, idx, waiting>>

Wait ==
  /\ mpc = "test" /\ numUnjoined = 0
  /\ mutex' = None
  /\ waiting' = TRUE
  /\ mpc' = "wait"
  /\ UNCHANGED <<state, numLive, numUnjoined, tpc, idx>>

\* `s == pthread_cond_wait(...)' compares the 0 that s got from the lock with
\* the 0 of a successful wait: the test is true, and main exits with an error.
WaitReturns ==
  /\ mpc = "wait" /\ mutex = None
  /\ mutex' = Main
  /\ waiting' = FALSE
  /\ mpc' = "failed"
  /\ UNCHANGED <<state, numLive, numUnjoined, tpc, idx>>

Wake == ~waiting /\ WaitReturns       \* threadDied was signalled
SpuriousWake == waiting /\ WaitReturns \* it was not

StartScan ==
  /\ mpc = "test" /\ numUnjoined > 0
  /\ idx' = 0
  /\ mpc' = "scan"
  /\ UNCHANGED <<state, numLive, numUnjoined, mutex, tpc, waiting>>

\* Mutant: numUnjoined is reset as if one thread had terminated.
JoinOnce ==
  /\ mpc = "scan" /\ idx < N
  /\ state[idx] = "TERMINATED" /\ tpc[idx] = "ended"
  /\ state' = [state EXCEPT ![idx] = "JOINED"]
  /\ numLive' = numLive - 1
  /\ numUnjoined' = 0
  /\ idx' = idx + 1
  /\ UNCHANGED <<mutex, tpc, mpc, waiting>>

\* pthread_join blocks until the thread has returned; main holds threadMutex.
Join ==
  /\ mpc = "scan" /\ idx < N
  /\ state[idx] = "TERMINATED" /\ tpc[idx] = "ended"
  /\ state' = [state EXCEPT ![idx] = "JOINED"]
  /\ numLive' = numLive - 1
  /\ numUnjoined' = numUnjoined - 1
  /\ idx' = idx + 1
  /\ UNCHANGED <<mutex, tpc, mpc, waiting>>

Skip ==
  /\ mpc = "scan" /\ idx < N
  /\ state[idx] # "TERMINATED"
  /\ idx' = idx + 1
  /\ UNCHANGED <<state, numLive, numUnjoined, mutex, tpc, mpc, waiting>>

Unlock ==
  /\ mpc = "scan" /\ idx = N
  /\ mutex' = None
  /\ mpc' = "lock"
  /\ UNCHANGED <<state, numLive, numUnjoined, tpc, idx, waiting>>

Exit ==
  /\ mpc = "lock" /\ numLive = 0
  /\ mpc' = "exited"
  /\ UNCHANGED <<state, numLive, numUnjoined, mutex, tpc, idx, waiting>>

MainStep == \/ Create \/ AllCreated \/ Lock \/ Wait \/ Wake
            \/ StartScan \/ Join \/ Skip \/ Unlock \/ Exit

Ended == ~Running /\ UNCHANGED vars

Next == MainStep \/ SpuriousWake \/ (\E i \in Idx : Thread(i)) \/ Ended

Spec == Init /\ [][Next]_vars

\* Every thread that can run does; a mutex that is free again and again is
\* got by each of the threads that want it.  No spurious wakeup is owed.
FairSpec == Spec /\ SF_vars(MainStep) /\ \A i \in Idx : SF_vars(Thread(i))

-----------------------------------------------------------------------------
\* The type of every variable; the counters stay between 0 and N.
TypeOK ==
  /\ state \in [Idx -> {"ALIVE", "TERMINATED", "JOINED"}]
  /\ numLive \in 0..N /\ numUnjoined \in 0..N
  /\ mutex \in Idx \cup {Main, None}
  /\ tpc \in [Idx -> {"none", "work", "unlock", "signal", "ended"}]
  /\ mpc \in {"create", "lock", "test", "wait", "scan", "exited", "failed"}
  /\ idx \in 0..N /\ waiting \in BOOLEAN

Count(s) == Cardinality({i \in Idx : state[i] = s})

\* The two counters agree with the states in every state, mutex held or not:
\* main waits only when no thread is left to join, and leaves only when none
\* is left at all.
CountersAgree ==
  /\ numUnjoined = Count("TERMINATED")
  /\ mpc # "create" => numLive = N - Count("JOINED")

\* Main ends, in one way or the other: it is never left waiting for a
\* termination that was signalled before it waited.
MainEnds == <>(~Running)

\* "The main thread continuously waits on this condition variable [...] When
\* numLive [...] falls to 0, the main thread terminates": never before.
EndsWhenNoneLive == ~Running => numLive = 0 /\ Count("JOINED") = N

-----------------------------------------------------------------------------
(***************************************************************************)
(* The inductive invariant behind TypeOK and CountersAgree: a thread's     *)
(* state says whether it has been in its critical section, and none is     *)
(* joined before main knows how many there are.                            *)
(***************************************************************************)
IndInv ==
  /\ TypeOK
  /\ numUnjoined = Count("TERMINATED")
  /\ numLive = IF mpc = "create" THEN 0 ELSE N - Count("JOINED")
  /\ mpc = "create" => \A i \in Idx : /\ state[i] # "JOINED"
                                      /\ i >= idx => tpc[i] = "none"
  /\ \A i \in Idx : state[i] = "ALIVE" <=> tpc[i] \in {"none", "work"}
==============================================================================
