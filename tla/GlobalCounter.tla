---------------------------- MODULE GlobalCounter -----------------------------
(***************************************************************************)
(* 30_Thread_Synchronhization: threads that add 1 to a global variable by  *)
(* way of a local copy, under a mutex in simple_ts_counter.c and           *)
(* thread_incr.c, without one in thread_incr_copy.c.                       *)
(***************************************************************************)
EXTENDS Integers

CONSTANTS
  Threads,   \* a set without 0
  Loops      \* the iterations of each thread, a natural number

None == 0

VARIABLES
  mutexed,   \* the program locks a mutex (FALSE: thread_incr_copy.c)
  sum,
  mtx,       \* the thread that holds the mutex, or None
  pc,        \* pc[t]: where thread t is
  temp,      \* temp[t]: the local copy of thread t
  left,      \* left[t]: the iterations thread t has still to do
  incs       \* auxiliary: the iterations completed by all threads

vars == <<mutexed, sum, mtx, pc, temp, left, incs>>

Init ==
  /\ mutexed \in BOOLEAN
  /\ sum = 0 /\ mtx = None /\ incs = 0
  /\ pc = [t \in Threads |-> "loop"]
  /\ temp = [t \in Threads |-> 0]
  /\ left = [t \in Threads |-> Loops]

Goto(t, a, b) == pc[t] = a /\ pc' = [pc EXCEPT ![t] = b]

Lock(t) ==
  /\ left[t] > 0
  /\ Goto(t, "loop", "load")
  /\ IF mutexed THEN mtx = None /\ mtx' = t ELSE UNCHANGED mtx
  /\ UNCHANGED <<mutexed, sum, temp, left, incs>>

Load(t) ==
  /\ Goto(t, "load", "store")
  /\ temp' = [temp EXCEPT ![t] = sum]
  /\ UNCHANGED <<mutexed, sum, mtx, left, incs>>

Store(t) ==
  /\ Goto(t, "store", "unlock")
  /\ sum' = temp[t] + 1
  /\ incs' = incs + 1
  /\ UNCHANGED <<mutexed, mtx, temp, left>>

Unlock(t) ==
  /\ Goto(t, "unlock", "loop")
  /\ mtx' = IF mutexed THEN None ELSE mtx
  /\ left' = [left EXCEPT ![t] = @ - 1]
  /\ UNCHANGED <<mutexed, sum, temp, incs>>

Thread(t) == Lock(t) \/ Load(t) \/ Store(t) \/ Unlock(t)

\* pthread_join in main: every thread has returned.
Joined == \A t \in Threads : pc[t] = "loop" /\ left[t] = 0

Ended == Joined /\ UNCHANGED vars

Next == (\E t \in Threads : Thread(t)) \/ Ended

Spec == Init /\ [][Next]_vars

\* Every thread that can run does.  No more is needed of the mutex: a thread
\* waits only while another one gets something done.
FairSpec == Spec /\ \A t \in Threads : WF_vars(Thread(t))

-----------------------------------------------------------------------------
\* The type of every variable.
TypeOK ==
  /\ mutexed \in BOOLEAN /\ sum \in Nat /\ incs \in Nat
  /\ mtx \in Threads \cup {None}
  /\ pc \in [Threads -> {"loop", "load", "store", "unlock"}]
  /\ temp \in [Threads -> Nat]
  /\ left \in [Threads -> 0..Loops]

\* The program ends: main joins every thread.
ThreadsJoin == <>Joined

(***************************************************************************)
(* Under the mutex no increment is lost: the variable counts the           *)
(* iterations, as simple_ts_counter.c:70 tests at the end.  Without it     *)
(* updates are lost, but none is counted twice, and with two iterations or *)
(* more the last store cannot be the first one's: the copy it adds 1 to    *)
(* was loaded when something had been stored.                              *)
(***************************************************************************)
CountIsRight ==
  /\ mutexed => sum = incs
  /\ sum <= incs
  /\ Joined /\ Loops > 1 /\ Threads # {} => sum >= 2

-----------------------------------------------------------------------------
(***************************************************************************)
(* The inductive invariant behind TypeOK and CountIsRight.  The variable   *)
(* is 1 only as long as some thread has stored once: a copy that a thread  *)
(* takes later than that is at least 1.                                    *)
(***************************************************************************)
StoredOnce(t) == left[t] = IF pc[t] = "unlock" THEN Loops ELSE Loops - 1

IndInv ==
  /\ TypeOK
  /\ \A t \in Threads : pc[t] # "loop" => left[t] > 0
  /\ mutexed => \A t \in Threads : /\ pc[t] # "loop" => mtx = t
                                   /\ pc[t] = "store" => temp[t] = sum
  /\ mutexed => sum = incs
  /\ sum <= incs /\ \A t \in Threads : temp[t] <= incs
  /\ \A t \in Threads : left[t] < Loops \/ pc[t] = "unlock" => sum >= 1
  /\ \A t \in Threads : left[t] < Loops /\ pc[t] \in {"store", "unlock"} => temp[t] >= 1
  /\ sum = 0 \/ sum >= 2 \/ \E t \in Threads : StoredOnce(t)
==============================================================================
