----------------------------- MODULE ProdConsumer ------------------------------
(***************************************************************************)
(* 30_Thread_Synchronhization: prod_consumer.c and prod_consumer_2.c.      *)
(* Producer threads make units available; main consumes them until it has  *)
(* had as many as its arguments announced.  A producer signals the         *)
(* condition after it has unlocked the mutex.  The two programs differ in  *)
(* the last step of main, and the module has both.                         *)
(***************************************************************************)
EXTENDS Integers, FiniteSets, DataLemmas

CONSTANTS
  N,          \* the number of producers, created in the order 1, 2, ..., N
  Units       \* Units[i]: the argument of producer i, a negative one included

Producers == 1..N

ASSUME ProdConsumerAssumption ==
  /\ N \in Nat
  /\ Units \in [Producers -> Int]

VARIABLES
  avail,
  totalRequired,
  numConsumed,
  mtx,          \* who holds the mutex: a producer, Main or None
  tpc,          \* tpc[i]: where producer i is
  left,         \* left[i]: the iterations producer i has still to do
  mpc,          \* where main is
  waiting,      \* main waits on cond and has not been signalled
  created       \* how many producers main has created

vars == <<avail, totalRequired, numConsumed, mtx, tpc, left, mpc, waiting,
          created>>
counts == <<avail, totalRequired, numConsumed, created>>

Main == 0
None == -1

Init ==
  /\ avail = 0 /\ totalRequired = 0 /\ numConsumed = 0
  /\ mtx = None
  /\ tpc = [i \in Producers |-> "none"]
  /\ left = Units
  /\ mpc = "create" /\ waiting = FALSE /\ created = 0

Running == mpc # "exited"

-----------------------------------------------------------------------------
(* A producer.                                                             *)

Goto(i, a, b) == Running /\ tpc[i] = a /\ tpc' = [tpc EXCEPT ![i] = b]

Lock(i) ==
  /\ left[i] > 0 /\ mtx = None
  /\ Goto(i, "loop", "produce")
  /\ mtx' = i
  /\ UNCHANGED <<counts, left, mpc, waiting>>

Produce(i) ==
  /\ Goto(i, "produce", "unlock")
  /\ avail' = avail + 1
  /\ left' = [left EXCEPT ![i] = @ - 1]
  /\ UNCHANGED <<totalRequired, numConsumed, mtx, mpc, waiting, created>>

Unlock(i) ==
  /\ Goto(i, "unlock", "signal")
  /\ mtx' = None
  /\ UNCHANGED <<counts, left, mpc, waiting>>

\* Mutant: the signal is sent only if it is the first unit, by the value that
\* avail has after the unlock.
SignalFirst(i) ==
  /\ Goto(i, "signal", "loop")
  /\ waiting' = (waiting /\ avail # 1)
  /\ UNCHANGED <<counts, mtx, left, mpc>>

Signal(i) ==
  /\ Goto(i, "signal", "loop")
  /\ waiting' = FALSE
  /\ UNCHANGED <<counts, mtx, left, mpc>>

Producer(i) == Lock(i) \/ Produce(i) \/ Unlock(i) \/ Signal(i)

-----------------------------------------------------------------------------
(* main.                                                                   *)

MainGoto(a, b) == mpc = a /\ mpc' = b

Create ==
  /\ MainGoto("create", "create")
  /\ created < N
  /\ created' = created + 1
  /\ totalRequired' = totalRequired + Units[created + 1]
  /\ tpc' = [tpc EXCEPT ![created + 1] = "loop"]
  /\ UNCHANGED <<avail, numConsumed, mtx, left, waiting>>

LockMain ==
  /\ \/ MainGoto("lock", "test")
     \/ created = N /\ MainGoto("create", "test")
  /\ mtx = None
  /\ mtx' = Main
  /\ UNCHANGED <<counts, tpc, left, waiting>>

Wait ==
  /\ avail = 0
  /\ MainGoto("test", "wait")
  /\ mtx' = None
  /\ waiting' = TRUE
  /\ UNCHANGED <<counts, tpc, left>>

\* pthread_cond_wait returns with the mutex locked.
WaitReturns ==
  /\ mtx = None
  /\ MainGoto("wait", "test")
  /\ mtx' = Main
  /\ waiting' = FALSE
  /\ UNCHANGED <<counts, tpc, left>>

Wake == ~waiting /\ WaitReturns
SpuriousWake == waiting /\ WaitReturns

Consume ==
  /\ avail > 0
  /\ MainGoto("test", "consume")
  /\ UNCHANGED <<avail, totalRequired, numConsumed, mtx, tpc, left, waiting,
                 created>>

\* while (avail > 0): every unit there is.
ConsumeAll ==
  /\ MainGoto("consume", "unlock")
  /\ numConsumed' = numConsumed + avail
  /\ avail' = 0
  /\ UNCHANGED <<totalRequired, mtx, tpc, left, waiting, created>>

Done == numConsumed >= totalRequired

\* Mutant: main stops one unit early.
UnlockMainEarly ==
  /\ MainGoto("unlock", IF numConsumed + 1 >= totalRequired THEN "exited"
                        ELSE "lock")
  /\ mtx' = None
  /\ UNCHANGED <<counts, tpc, left, waiting>>

UnlockMain ==
  /\ MainGoto("unlock", IF Done THEN "exited" ELSE "lock")
  /\ mtx' = None
  /\ UNCHANGED <<counts, tpc, left, waiting>>

\* prod_consumer_2.c alone: break, then exit, without an unlock.
ExitWithLock ==
  /\ Done
  /\ MainGoto("unlock", "exited")
  /\ UNCHANGED <<counts, mtx, tpc, left, waiting>>

MainStep == \/ Create \/ LockMain \/ Wait \/ Wake \/ Consume \/ ConsumeAll
            \/ UnlockMain \/ ExitWithLock

Ended == ~Running /\ UNCHANGED vars

Next == MainStep \/ SpuriousWake \/ (\E i \in Producers : Producer(i)) \/ Ended

Spec == Init /\ [][Next]_vars

\* Every thread runs; a mutex that is free again and again is got in the end.
\* Nothing is assumed of spurious wakeups.
FairSpec == Spec /\ SF_vars(MainStep) /\ \A i \in Producers : SF_vars(Producer(i))

-----------------------------------------------------------------------------
\* The type of every variable.
TypeOK ==
  /\ avail \in Nat /\ totalRequired \in Int /\ numConsumed \in Nat
  /\ mtx \in Producers \cup {Main, None}
  /\ tpc \in [Producers -> {"none", "loop", "produce", "unlock", "signal"}]
  /\ left \in [Producers -> Int]
  /\ mpc \in {"create", "lock", "test", "wait", "consume", "unlock", "exited"}
  /\ waiting \in BOOLEAN
  /\ created \in 0..N

\* How many units the producers have produced so far.
Produced == SumUpTo([i \in Producers |-> Units[i] - left[i]], N)

\* No unit is lost or consumed twice: those produced are the ones consumed and
\* the ones available; and main exits when it has consumed them all, and no
\* sooner, as long as no argument is negative.
UnitsConserved ==
  /\ Produced = numConsumed + avail
  /\ ~Running => Produced = totalRequired

\* A unit that is there while main sleeps has a signal on its way: the unlock
\* before the signal opens no gap in which a wakeup is lost.
SignalOnItsWay ==
  waiting /\ avail > 0 =>
    \E i \in Producers : tpc[i] \in {"unlock", "signal"}

\* With something to consume, main gets it all and exits.
MainExits == <>(~Running)

(***************************************************************************)
(* The inductive invariant behind SignalOnItsWay: who holds the mutex is   *)
(* told by where the threads are, so main decides to wait, and starts to   *)
(* wait, while no producer stands between its lock and its unlock.         *)
(***************************************************************************)
MutexInv ==
  /\ \A i \in Producers : tpc[i] \in {"produce", "unlock"} => mtx = i
  /\ mpc \in {"test", "consume", "unlock"} => mtx = Main
  /\ waiting => mpc = "wait"

IndInv == TypeOK /\ MutexInv /\ SignalOnItsWay

-----------------------------------------------------------------------------
(* The inductive invariant behind UnitsConserved.                          *)

\* What the arguments that main has seen announce.
Announced == [i \in Producers |-> IF i <= created THEN Units[i] ELSE 0]
Gone == [i \in Producers |-> Units[i] - left[i]]

\* The units are counted, and main exits only when it has seen every argument, right
\* after it has taken every unit there was.
UnitsInv ==
  /\ Produced = numConsumed + avail
  /\ totalRequired = SumUpTo(Announced, N)
  /\ mpc # "create" => created = N
  /\ mpc = "unlock" => avail = 0
  /\ \A i \in Producers : left[i] >= 0 /\ (tpc[i] = "produce" => left[i] > 0)
  /\ ~Running => Produced = totalRequired

NoneNegative == \A i \in Producers : Units[i] >= 0
=============================================================================
