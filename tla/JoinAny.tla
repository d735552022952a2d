------------------------------- MODULE JoinAny -------------------------------
(***************************************************************************)
(* 30_Thread_Synchronhization/join_any.c: as thread_multijoin.c, with one  *)
(* more mutex per thread.  The counter total_unjoined goes up under the    *)
(* global mutex BEFORE the thread's own entry says UNJOINED, so main can   *)
(* find the counter positive and nothing to join.                          *)
(***************************************************************************)
EXTENDS Integers, FiniteSets

CONSTANT N     \* argc - 1, the number of threads, at least 1

Idx == 0..(N - 1)

VARIABLES
  state,            \* thread_list[i].state
  total_unjoined,
  total_joined,
  mtx,              \* holder of the global mutex: an index, Main or None
  own,              \* own[i]: holder of thread_list[i].mtx
  tpc, mpc,         \* where thread i, and main, are
  idx,              \* main's loop index
  waiting           \* main waits on cond and has not been signalled

vars == <<state, total_unjoined, total_joined, mtx, own, tpc, mpc, idx, waiting>>

Main == -1
None == -2

Init ==
  /\ state = [i \in Idx |-> "ALIVE"]
  /\ total_unjoined = 0 /\ total_joined = 0
  /\ mtx = None
  /\ own = [i \in Idx |-> None]
  /\ tpc = [i \in Idx |-> "none"]
  /\ mpc = "create"
  /\ idx = 0
  /\ waiting = FALSE

Running == mpc # "exited"

At(i, l) == Running /\ tpc[i] = l
Goto(i, l) == tpc' = [tpc EXCEPT ![i] = l]

-----------------------------------------------------------------------------
(* thread_func.                                                            *)

Increment(i) ==
  /\ At(i, "work")
  /\ mtx = None
  /\ mtx' = i
  /\ total_unjoined' = total_unjoined + 1
  /\ Goto(i, "unlock")
  /\ UNCHANGED <<state, total_joined, own, mpc, idx, waiting>>

ThreadUnlock(i) ==
  /\ At(i, "unlock")
  /\ mtx' = None
  /\ Goto(i, "lockOwn")
  /\ UNCHANGED <<state, total_unjoined, total_joined, own, mpc, idx, waiting>>

SetUnjoined(i) ==
  /\ At(i, "lockOwn")
  /\ own[i] = None
  /\ own' = [own EXCEPT ![i] = i]
  /\ state' = [state EXCEPT ![i] = "UNJOINED"]
  /\ Goto(i, "unlockOwn")
  /\ UNCHANGED <<total_unjoined, total_joined, mtx, mpc, idx, waiting>>

ThreadUnlockOwn(i) ==
  /\ At(i, "unlockOwn")
  /\ own' = [own EXCEPT ![i] = None]
  /\ Goto(i, "signal")
  /\ UNCHANGED <<state, total_unjoined, total_joined, mtx, mpc, idx, waiting>>

Signal(i) ==
  /\ At(i, "signal")
  /\ waiting' = FALSE
  /\ Goto(i, "ended")
  /\ UNCHANGED <<state, total_unjoined, total_joined, mtx, own, mpc, idx>>

Thread(i) == \/ Increment(i) \/ ThreadUnlock(i) \/ SetUnjoined(i)
             \/ ThreadUnlockOwn(i) \/ Signal(i)

-----------------------------------------------------------------------------
(* main.                                                                   *)

Create ==
  /\ mpc = "create" /\ idx < N
  /\ tpc' = [tpc EXCEPT ![idx] = "work"]
  /\ idx' = idx + 1
  /\ mpc' = IF idx' = N THEN "lock" ELSE "create"
  /\ UNCHANGED <<state, total_unjoined, total_joined, mtx, own, waiting>>

Lock ==
  /\ mpc = "lock" /\ mtx = None
  /\ mtx' = Main
  /\ mpc' = "test"
  /\ UNCHANGED <<state, total_unjoined, total_joined, own, tpc, idx, waiting>>

Wait ==
  /\ mpc = "test" /\ total_unjoined = 0
  /\ mtx' = None
  /\ waiting' = TRUE
  /\ mpc' = "wait"
  /\ UNCHANGED <<state, total_unjoined, total_joined, own, tpc, idx>>

WaitReturns ==
  /\ mpc = "wait" /\ mtx = None
  /\ mtx' = Main
  /\ waiting' = FALSE
  /\ mpc' = "test"
  /\ UNCHANGED <<state, total_unjoined, total_joined, own, tpc, idx>>

Wake == ~waiting /\ WaitReturns        \* cond was signalled
SpuriousWake == waiting /\ WaitReturns

StartScan ==
  /\ mpc = "test" /\ total_unjoined # 0
  /\ idx' = 0
  /\ mpc' = "scan"
  /\ UNCHANGED <<state, total_unjoined, total_joined, mtx, own, tpc, waiting>>

LockEntry ==
  /\ mpc = "scan" /\ idx < N
  /\ own[idx] = None
  /\ own' = [own EXCEPT ![idx] = Main]
  /\ mpc' = "entry"
  /\ UNCHANGED <<state, total_unjoined, total_joined, mtx, tpc, idx, waiting>>

\* pthread_join waits for the thread's return, both mutexes held.
Join ==
  /\ mpc = "entry" /\ state[idx] = "UNJOINED"
  /\ tpc[idx] = "ended"
  /\ state' = [state EXCEPT ![idx] = "JOINED"]
  /\ total_unjoined' = total_unjoined - 1
  /\ total_joined' = total_joined + 1
  /\ mpc' = "unlockEntry"
  /\ UNCHANGED <<mtx, own, tpc, idx, waiting>>

Skip ==
  /\ mpc = "entry" /\ state[idx] # "UNJOINED"
  /\ mpc' = "unlockEntry"
  /\ UNCHANGED <<state, total_unjoined, total_joined, mtx, own, tpc, idx, waiting>>

UnlockEntry ==
  /\ mpc = "unlockEntry"
  /\ own' = [own EXCEPT ![idx] = None]
  /\ idx' = idx + 1
  /\ mpc' = "scan"
  /\ UNCHANGED <<state, total_unjoined, total_joined, mtx, tpc, waiting>>

\* The loop is left when every thread is joined.
Unlock ==
  /\ mpc = "scan" /\ idx = N
  /\ mtx' = None
  /\ mpc' = IF total_joined = N THEN "exited" ELSE "lock"
  /\ UNCHANGED <<state, total_unjoined, total_joined, own, tpc, idx, waiting>>

MainStep == \/ Create \/ Lock \/ Wait \/ Wake \/ StartScan
            \/ LockEntry \/ Join \/ Skip \/ UnlockEntry \/ Unlock

Ended == ~Running /\ UNCHANGED vars

Next == MainStep \/ SpuriousWake \/ (\E i \in Idx : Thread(i)) \/ Ended

Spec == Init /\ [][Next]_vars

\* Strong fairness: a mutex free again and again is got by each that wants
\* it.  No spurious wakeup is owed.
FairSpec == Spec /\ SF_vars(MainStep) /\ \A i \in Idx : SF_vars(Thread(i))

-----------------------------------------------------------------------------
\* The type of every variable; the counters stay between 0 and N.
TypeOK ==
  /\ state \in [Idx -> {"ALIVE", "UNJOINED", "JOINED"}]
  /\ total_unjoined \in 0..N /\ total_joined \in 0..N
  /\ mtx \in Idx \cup {Main, None}
  /\ own \in [Idx -> Idx \cup {Main, None}]
  /\ tpc \in [Idx -> {"none", "work", "unlock", "lockOwn", "unlockOwn",
                     "signal", "ended"}]
  /\ mpc \in {"create", "lock", "test", "wait", "scan", "entry",
              "unlockEntry", "exited"}
  /\ idx \in 0..N /\ waiting \in BOOLEAN

\* The counter runs ahead of the states by exactly the threads that are
\* between their two critical sections, and never behind.
CounterRunsAhead ==
  LET counted == {i \in Idx : tpc[i] \notin {"none", "work"}} IN
  total_unjoined = Cardinality(counted) - Cardinality({i \in Idx : state[i] = "JOINED"})

\* Main joins every thread and exits, however the two updates interleave.
MainExits == <>(mpc = "exited")

-----------------------------------------------------------------------------
(* The inductive invariant behind TypeOK and CounterRunsAhead.             *)

Counted == {i \in Idx : tpc[i] \notin {"none", "work"}}
Joined  == {i \in Idx : state[i] = "JOINED"}

\* A thread has raised the counter before its entry says UNJOINED, and only such a
\* thread is joined; main makes each thread once, and stays inside the table.
TableInv ==
  /\ state \in [Idx -> {"ALIVE", "UNJOINED", "JOINED"}]
  /\ tpc \in [Idx -> {"none", "work", "unlock", "lockOwn", "unlockOwn", "signal", "ended"}]
  /\ idx \in 0..N
  /\ mpc = "create" => \A i \in Idx : i >= idx => tpc[i] = "none"
  /\ mpc \in {"entry", "unlockEntry"} => idx < N
  /\ \A i \in Idx : /\ state[i] # "ALIVE" => tpc[i] \notin {"none", "work"}
                    /\ state[i] = "JOINED" => tpc[i] = "ended"
  /\ total_unjoined \in Int /\ total_joined = Cardinality(Joined)

CountersInv ==
  /\ TableInv
  /\ total_unjoined = Cardinality(Counted) - Cardinality(Joined)

LocksTyped ==
  /\ mtx \in Idx \cup {Main, None}
  /\ own \in [Idx -> Idx \cup {Main, None}]
  /\ mpc \in {"create", "lock", "test", "wait", "scan", "entry", "unlockEntry", "exited"}
  /\ waiting \in BOOLEAN

IndInv == CountersInv /\ LocksTyped
=============================================================================
