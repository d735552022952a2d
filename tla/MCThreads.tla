------------------------------ MODULE MCThreads -------------------------------
(***************************************************************************)
(* The programs of 30_Thread_Synchronhization that are made of threads, a  *)
(* mutex and a condition variable.  They have nothing to do with each      *)
(* other: a behaviour runs one of them, chosen at the start, while the     *)
(* variables of the others keep their initial values.                      *)
(***************************************************************************)
EXTENDS ProdConsumer, FiniteSetTheorems

CONSTANT Loops    \* the iterations of each counting thread

ASSUME LoopsAssumption == Loops \in Nat

VARIABLES
  prog,
  mj_state, mj_numLive, mj_numUnjoined, mj_mutex, mj_tpc, mj_mpc, mj_idx,
  mj_waiting,
  ja_state, ja_total_unjoined, ja_total_joined, ja_mtx, ja_own, ja_tpc, ja_mpc,
  ja_idx, ja_waiting,
  gc_mutexed, gc_sum, gc_mtx, gc_pc, gc_temp, gc_left, gc_incs

mjVars == <<mj_state, mj_numLive, mj_numUnjoined, mj_mutex, mj_tpc, mj_mpc,
            mj_idx, mj_waiting>>
jaVars == <<ja_state, ja_total_unjoined, ja_total_joined, ja_mtx, ja_own,
            ja_tpc, ja_mpc, ja_idx, ja_waiting>>
gcVars == <<gc_mutexed, gc_sum, gc_mtx, gc_pc, gc_temp, gc_left, gc_incs>>
allVars == <<prog, vars, mjVars, jaVars, gcVars>>

Multijoin ==
  INSTANCE ThreadMultijoin WITH
    state <- mj_state, numLive <- mj_numLive,
    numUnjoined <- mj_numUnjoined, mutex <- mj_mutex, tpc <- mj_tpc,
    mpc <- mj_mpc, idx <- mj_idx, waiting <- mj_waiting

Any ==
  INSTANCE JoinAny WITH
    state <- ja_state, total_unjoined <- ja_total_unjoined,
    total_joined <- ja_total_joined, mtx <- ja_mtx, own <- ja_own,
    tpc <- ja_tpc, mpc <- ja_mpc, idx <- ja_idx, waiting <- ja_waiting

Counter ==
  INSTANCE GlobalCounter WITH
    Threads <- Producers, mutexed <- gc_mutexed, sum <- gc_sum,
    mtx <- gc_mtx, pc <- gc_pc, temp <- gc_temp, left <- gc_left,
    incs <- gc_incs

Programs == {"prod_consumer", "thread_multijoin", "join_any", "counter"}

\* The command line "2 1 2".
UnitsMany == <<2, 1, 2>>

MCInit == /\ prog \in Programs
          /\ Init /\ Multijoin!Init /\ Any!Init /\ Counter!Init

\* Program p takes the step A, and the others none.
Only(p, A) ==
  /\ prog = p /\ A
  /\ UNCHANGED prog
  /\ IF p = "prod_consumer" THEN TRUE ELSE UNCHANGED vars
  /\ IF p = "thread_multijoin" THEN TRUE ELSE UNCHANGED mjVars
  /\ IF p = "join_any" THEN TRUE ELSE UNCHANGED jaVars
  /\ IF p = "counter" THEN TRUE ELSE UNCHANGED gcVars

MCNext == \/ Only("prod_consumer", Next)
          \/ Only("thread_multijoin", Multijoin!Next)
          \/ Only("join_any", Any!Next)
          \/ Only("counter", Counter!Next)

MainOfAny == \/ Only("prod_consumer", MainStep)
             \/ Only("thread_multijoin", Multijoin!MainStep)
             \/ Only("join_any", Any!MainStep)

ThreadOfAny(i) == \/ Only("prod_consumer", Producer(i))
                  \/ Only("thread_multijoin", Multijoin!Thread(i - 1))
                  \/ Only("join_any", Any!Thread(i - 1))
                  \/ Only("counter", Counter!Thread(i))

\* The fairness of each program's own FairSpec: main and every thread run, and
\* get a mutex that is free again and again.
MCSpec == /\ MCInit /\ [][MCNext]_allVars
          /\ SF_allVars(MainOfAny)
          /\ \A i \in 1..N : SF_allVars(ThreadOfAny(i))

-----------------------------------------------------------------------------
\* thread_multijoin.c: numLive and numUnjoined agree with the thread states;
\* join_any.c: total_unjoined runs ahead of the states, never behind.  The counters of
\* simple_ts_counter.c and thread_incr.c lose no increment, that of thread_incr_copy.c
\* some, within bounds.  The types keep every counter within its range.
CountersAgree ==
  /\ Multijoin!TypeOK /\ Any!TypeOK /\ Counter!TypeOK
  /\ Multijoin!CountersAgree /\ Any!CounterRunsAhead /\ Counter!CountIsRight

\* thread_multijoin.c:28-29: main terminates when numLive falls to 0.
MultijoinEndsWhenNoneLive == Multijoin!EndsWhenNoneLive

\* Each program ends, whatever the order of its threads, signals and wakeups.
EveryProgramEnds ==
  /\ prog = "prod_consumer" => MainExits
  /\ prog = "thread_multijoin" => Multijoin!MainEnds
  /\ prog = "join_any" => Any!MainExits
  /\ prog = "counter" => Counter!ThreadsJoin

-----------------------------------------------------------------------------
(***************************************************************************)
(* Proofs, for any number of threads, units and iterations.                *)
(*                                                                         *)
(* prod_consumer.c: no wakeup is lost although the signal follows the      *)
(* unlock.                                                                 *)
(***************************************************************************)

\* Every step of a producer preserves the invariant.
LEMMA ProducerStep ==
  ASSUME IndInv, NEW i \in Producers, Producer(i)
  PROVE  IndInv'
<1> USE ProdConsumerAssumption DEF IndInv, TypeOK, MutexInv, Producers, Main, None
<1>1. CASE Lock(i)
  BY <1>1 DEF Lock, Goto, Running, counts, SignalOnItsWay
<1>2. CASE Produce(i)
  <2>1. TypeOK'
    BY <1>2 DEF Produce, Goto
  <2>2. MutexInv'
    BY <1>2 DEF Produce, Goto
  <2>3. SignalOnItsWay'
    BY <1>2 DEF Produce, Goto, SignalOnItsWay
  <2> QED BY <2>1, <2>2, <2>3
<1>3. CASE Unlock(i)
  BY <1>3 DEF Unlock, Goto, Running, counts, SignalOnItsWay
<1>4. CASE Signal(i)
  BY <1>4 DEF Signal, Goto, Running, counts, SignalOnItsWay
<1> QED
  BY <1>1, <1>2, <1>3, <1>4 DEF Producer

\* Every step of main preserves the invariant.
LEMMA MainPreserves ==
  ASSUME IndInv, MainStep \/ SpuriousWake
  PROVE  IndInv'
<1> USE ProdConsumerAssumption DEF IndInv, TypeOK, MutexInv, Producers, Main, None
<1>1. CASE Create
  <2>1. /\ created + 1 \in Producers
        /\ totalRequired' \in Int
        /\ tpc' = [tpc EXCEPT ![created + 1] = "loop"]
    BY <1>1 DEF Create, MainGoto
  <2>2. TypeOK'
    BY <1>1, <2>1 DEF Create, MainGoto
  <2>3. MutexInv' /\ SignalOnItsWay'
    BY <1>1, <2>1 DEF Create, MainGoto, SignalOnItsWay
  <2> QED BY <2>2, <2>3
<1>2. CASE LockMain
  BY <1>2 DEF LockMain, MainGoto, counts, SignalOnItsWay
\* Main holds the mutex and has seen avail = 0: nothing to be signalled.
<1>3. CASE Wait
  BY <1>3 DEF Wait, MainGoto, counts, SignalOnItsWay
<1>4. CASE Wake \/ SpuriousWake
  <2>1. WaitReturns
    BY <1>4 DEF Wake, SpuriousWake
  <2>2. TypeOK'
    BY <2>1 DEF WaitReturns, MainGoto, counts
  <2>3. MutexInv'
    BY <2>1 DEF WaitReturns, MainGoto
  <2>4. SignalOnItsWay'
    BY <2>1 DEF WaitReturns, MainGoto, SignalOnItsWay
  <2> QED BY <2>2, <2>3, <2>4
<1>5. CASE Consume
  BY <1>5 DEF Consume, MainGoto, SignalOnItsWay
<1>6. CASE ConsumeAll
  BY <1>6 DEF ConsumeAll, MainGoto, SignalOnItsWay
<1>7. CASE UnlockMain
  BY <1>7 DEF UnlockMain, MainGoto, counts, SignalOnItsWay
<1>8. CASE ExitWithLock
  BY <1>8 DEF ExitWithLock, MainGoto, counts, SignalOnItsWay
<1> QED
  BY <1>1, <1>2, <1>3, <1>4, <1>5, <1>6, <1>7, <1>8 DEF MainStep

\* The invariant holds in every reachable state.
THEOREM ProdConsumerInvariance == Spec => []IndInv
<1>1. Init => IndInv
  <2> SUFFICES ASSUME Init PROVE IndInv
    OBVIOUS
  <2>1. TypeOK
    <3>1. tpc \in [Producers -> {"none", "loop", "produce", "unlock", "signal"}]
      BY DEF Init
    <3>2. created \in 0..N /\ left \in [Producers -> Int]
      BY ProdConsumerAssumption DEF Init
    <3>3. avail \in Nat /\ totalRequired \in Int /\ numConsumed \in Nat
      BY DEF Init
    <3>4. mtx \in Producers \cup {Main, None}
      BY DEF Init
    <3>5. waiting \in BOOLEAN
      BY DEF Init
    <3>6. mpc \in {"create", "lock", "test", "wait", "consume", "unlock",
                   "exited"}
      BY DEF Init
    <3> QED BY <3>1, <3>2, <3>3, <3>4, <3>5, <3>6 DEF TypeOK
  <2>2. MutexInv /\ SignalOnItsWay
    BY DEF Init, MutexInv, SignalOnItsWay
  <2> QED BY <2>1, <2>2 DEF IndInv
<1>2. IndInv /\ [Next]_vars => IndInv'
  <2>1. CASE UNCHANGED vars
    BY <2>1 DEF vars, IndInv, TypeOK, MutexInv, SignalOnItsWay
  <2> QED
    BY <2>1, ProducerStep, MainPreserves DEF Next, Ended
<1> QED
  BY <1>1, <1>2, PTL DEF Spec

\* No wakeup is lost: a unit that is there while main sleeps has a producer
\* that has still to signal it.
THEOREM NoWakeupIsLost == Spec => []SignalOnItsWay
<1>1. IndInv => SignalOnItsWay
  BY DEF IndInv
<1> QED
  BY <1>1, ProdConsumerInvariance, PTL

-----------------------------------------------------------------------------
(* prod_consumer.c: every unit is consumed, once.                          *)

\* Nothing has been produced.
LEMMA UnitsInit == NoneNegative /\ Init => UnitsInv
<1> SUFFICES ASSUME NoneNegative, Init
             PROVE  UnitsInv
  OBVIOUS
<1> USE ProdConsumerAssumption
<1>1. SumUpTo(Gone, N) = 0
  <2>1. \A i \in 1..N : Gone[i] = 0
    BY DEF Gone, Init, Producers
  <2> HIDE DEF Gone
  <2> QED BY <2>1, SumZero
<1>2. SumUpTo(Announced, N) = 0
  <2>1. \A i \in 1..N : Announced[i] = 0
    BY DEF Announced, Init, Producers
  <2> QED BY <2>1, SumZero
<1>3. Produced = 0
  BY <1>1 DEF Produced, Gone
<1> QED
  BY <1>2, <1>3 DEF Init, UnitsInv, NoneNegative, Producers, Running

\* A step that produces nothing and creates no producer.
LEMMA UnitsQuiet ==
  ASSUME UnitsInv, Running, left' = left, created' = created, totalRequired' = totalRequired
  PROVE  /\ Produced' = Produced
         /\ totalRequired' = SumUpTo(Announced, N)'
BY DEF UnitsInv, Produced, Announced

\* Every step accounts for the units it moves.
LEMMA UnitsStep ==
  ASSUME IndInv, UnitsInv, NoneNegative, Next
  PROVE  UnitsInv'
<1> USE ProdConsumerAssumption DEF IndInv, TypeOK
<1>1. CASE Ended
  BY <1>1 DEF Ended, vars, UnitsInv, Produced, Announced, Running
<1>2. ASSUME NEW i \in Producers, Produce(i) PROVE UnitsInv'
  <2>1. /\ tpc[i] = "produce" /\ tpc' = [tpc EXCEPT ![i] = "unlock"] /\ left[i] > 0
        /\ mtx = i
        /\ left' = [left EXCEPT ![i] = left[i] - 1] /\ avail' = avail + 1
        /\ UNCHANGED <<totalRequired, numConsumed, mpc, created>>
    BY <1>2 DEF Produce, Goto, UnitsInv, MutexInv
  <2>2. SumUpTo(Gone, N)' = SumUpTo(Gone, N) + 1
    <3> DEFINE f == Gone
               g == Gone'
    <3>1. \A j \in 1..N : f[j] \in Int
      BY DEF Gone, Producers
    <3>2. \A j \in 1..N : g[j] = IF j = i THEN f[j] + 1 ELSE f[j]
      BY <2>1 DEF Gone, Producers
    <3>3. i \in 1..N /\ 1 \in Int
      BY DEF Producers
    <3> HIDE DEF f, g
    <3>5. IsChange(f, g, N, i, 1)
      BY <3>1, <3>2 DEF IsChange
    <3>4. SumUpTo(g, N) = SumUpTo(f, N) + 1
      BY <3>3, <3>5, SumChange
    <3> QED BY <3>4 DEF f, g, SumUpTo
  <2>3. Produced' = Produced + 1
    BY <2>2 DEF Produced, Gone
  <2>4. totalRequired' = SumUpTo(Announced, N)'
    BY <2>1 DEF UnitsInv, Announced
  <2>5. mpc # "unlock" /\ Running
    BY <2>1, <1>2 DEF MutexInv, Producers, Main, Produce, Goto
  <2> QED
    BY <2>1, <2>3, <2>4, <2>5 DEF UnitsInv, Running
<1>3. ASSUME NEW i \in Producers, Lock(i) \/ Unlock(i) \/ Signal(i) PROVE UnitsInv'
  <2>1. /\ Running
        /\ UNCHANGED <<left, avail, numConsumed, totalRequired, created, mpc>>
        /\ \A j \in Producers : tpc'[j] = "produce" => tpc[j] = "produce" \/ left[j] > 0
    BY <1>3 DEF Lock, Unlock, Signal, Goto, counts
  <2> QED
    BY <2>1, UnitsQuiet DEF UnitsInv, Running
<1>4. CASE Create
  <2> DEFINE k == created + 1
  <2>1. /\ mpc = "create" /\ mpc' = mpc /\ k \in Producers /\ created' = k
        /\ totalRequired' = totalRequired + Units[k]
        /\ tpc' = [tpc EXCEPT ![k] = "loop"]
        /\ UNCHANGED <<avail, numConsumed, left>>
    BY <1>4 DEF Create, MainGoto, Producers
  <2>2. SumUpTo(Announced, N)' = SumUpTo(Announced, N) + Units[k]
    <3> DEFINE f == Announced
               g == Announced'
    <3>1. \A j \in 1..N : f[j] \in Int
      BY DEF Announced, Producers
    <3>2. \A j \in 1..N : g[j] = IF j = k THEN f[j] + Units[k] ELSE f[j]
      BY <2>1 DEF Announced, Producers
    <3>3. k \in 1..N /\ Units[k] \in Int
      BY <2>1 DEF Producers
    <3> HIDE DEF f, g, k
    <3>5. IsChange(f, g, N, k, Units[k])
      BY <3>1, <3>2 DEF IsChange
    <3>4. SumUpTo(g, N) = SumUpTo(f, N) + Units[k]
      BY <3>3, <3>5, SumChange
    <3> QED BY <3>4 DEF f, g, SumUpTo
  <2>3. Produced' = Produced
    BY <2>1 DEF Produced
  <2> QED
    BY <2>1, <2>2, <2>3 DEF UnitsInv, Running
<1>5. CASE LockMain \/ Wait \/ Wake \/ SpuriousWake \/ Consume
  <2>1. /\ Running /\ Running' /\ mpc' # "unlock" /\ (mpc' = "create" \/ created = N)
        /\ UNCHANGED <<left, avail, numConsumed, totalRequired, created, tpc>>
    BY <1>5 DEF LockMain, Wait, Wake, SpuriousWake, WaitReturns, Consume, MainGoto,
      counts,
      UnitsInv, Running
  <2> QED
    BY <2>1, UnitsQuiet DEF UnitsInv
<1>6. CASE ConsumeAll
  <2>1. /\ Running /\ Running' /\ created = N /\ avail' = 0
        /\ numConsumed' = numConsumed + avail
        /\ UNCHANGED <<left, totalRequired, created, tpc>>
    BY <1>6 DEF ConsumeAll, MainGoto, UnitsInv, Running
  <2> QED
    BY <2>1, UnitsQuiet DEF UnitsInv
<1>7. CASE UnlockMain \/ ExitWithLock
  <2>1. /\ Running /\ mpc = "unlock" /\ mpc' # "unlock" /\ created = N /\ avail = 0
        /\ mpc' # "create"
        /\ UNCHANGED <<left, avail, numConsumed, totalRequired, created, tpc>>
        /\ ~Running' => numConsumed >= totalRequired
    BY <1>7 DEF UnlockMain, ExitWithLock, MainGoto, UnitsInv, Running, Done, counts
\* No more than announced has been produced.
  <2>2. Produced <= totalRequired
    <3>1. \A j \in 1..N : /\ Gone[j] \in Int /\ Announced[j] \in Int
                          /\ Gone[j] <= Announced[j]
      BY <2>1 DEF Gone, Announced, Producers, UnitsInv
    <3>2. SumUpTo(Gone, N) <= SumUpTo(Announced, N)
      BY <3>1, SumMonotone
    <3> QED BY <3>2 DEF UnitsInv, Produced, Gone
  <2>3. Produced = numConsumed
    BY <2>1 DEF UnitsInv
  <2> QED
    BY <2>1, <2>2, <2>3, UnitsQuiet DEF UnitsInv
<1> QED
  BY <1>1, <1>2, <1>3, <1>4, <1>5, <1>6, <1>7 DEF Next, MainStep, Producer

\* No unit is lost or consumed twice, whatever the number of producers and the units each
\* one makes, and main exits when it has had them all, not before.
THEOREM NoUnitIsLost == NoneNegative => (Spec => []UnitsConserved)
<1> SUFFICES ASSUME NoneNegative
             PROVE  Spec => []UnitsConserved
  OBVIOUS
<1>1. Init => UnitsInv
  BY UnitsInit
<1>2. IndInv /\ UnitsInv /\ [Next]_vars => UnitsInv'
  <2>1. UnitsInv /\ UNCHANGED vars => UnitsInv'
    BY DEF vars, UnitsInv, Produced, Announced, Running
  <2> QED BY <2>1, UnitsStep
<1>3. UnitsInv => UnitsConserved
  BY DEF UnitsInv, UnitsConserved
<1> QED
  BY <1>1, <1>2, <1>3, ProdConsumerInvariance, PTL DEF Spec

-----------------------------------------------------------------------------
(* thread_multijoin.c: the counters agree with the states.                 *)

\* The instances count with the same operator as the library of finite sets.
LEMMA SameCardinality ==
  \A S : Multijoin!Cardinality(S) = Cardinality(S) /\ Any!Cardinality(S) = Cardinality(S)
BY DEF Multijoin!Cardinality, Any!Cardinality, Cardinality

\* How many threads are in a state; what a change of one of them does to that.
LEMMA MultijoinCountType ==
  ASSUME NEW s
  PROVE  /\ Multijoin!Count(s) \in 0..N /\ Multijoin!Count(s)' \in 0..N
         /\ IsFiniteSet({i \in Multijoin!Idx : mj_state[i] = s})
<1>1. IsFiniteSet(Multijoin!Idx) /\ Cardinality(Multijoin!Idx) = N
  BY ProdConsumerAssumption, FS_Interval DEF Multijoin!Idx
<1>2. \A S \in SUBSET Multijoin!Idx : IsFiniteSet(S) /\ Cardinality(S) \in 0..N
  BY <1>1, ProdConsumerAssumption, FS_Subset, FS_CardinalityType
<1>3. /\ {i \in Multijoin!Idx : mj_state[i] = s} \in SUBSET Multijoin!Idx
      /\ {i \in Multijoin!Idx : mj_state'[i] = s} \in SUBSET Multijoin!Idx
  OBVIOUS
<1> QED
  BY <1>2, <1>3, SameCardinality DEF Multijoin!Count

\* A thread that goes from one state to another one changes the counts of both by one.
LEMMA MultijoinCountMoves ==
  ASSUME Multijoin!TypeOK, NEW i \in Multijoin!Idx, NEW old, NEW new, old # new,
         mj_state[i] = old, mj_state' = [mj_state EXCEPT ![i] = new]
  PROVE  /\ Multijoin!Count(new)' = Multijoin!Count(new) + 1
         /\ Multijoin!Count(old)' = Multijoin!Count(old) - 1
<1> DEFINE A(r) == {j \in Multijoin!Idx : mj_state[j] = r}
           B(r) == {j \in Multijoin!Idx : mj_state'[j] = r}
<1>1. \A r : Multijoin!Count(r) = Cardinality(A(r)) /\ Multijoin!Count(r)' = Cardinality(B(r)) /\ IsFiniteSet(A(r))
  BY MultijoinCountType, SameCardinality DEF Multijoin!Count
<1>2. /\ B(new) = A(new) \cup {i} /\ i \notin A(new)
      /\ B(old) = A(old) \ {i} /\ i \in A(old)
  BY DEF Multijoin!TypeOK
<1> HIDE DEF A, B
<1>3. Cardinality(A(new) \cup {i}) = Cardinality(A(new)) + 1
  BY <1>1, <1>2, FS_AddElement
<1>4. Cardinality(A(old) \ {i}) = Cardinality(A(old)) - 1
  BY <1>1, <1>2, FS_RemoveElement
<1> QED
  BY <1>1, <1>2, <1>3, <1>4

\* The count of a third state stays what it is.
LEMMA MultijoinCountStays ==
  ASSUME Multijoin!TypeOK, NEW i \in Multijoin!Idx, NEW old, NEW new, NEW other, old # other, new # other,
         mj_state[i] = old, mj_state' = [mj_state EXCEPT ![i] = new]
  PROVE  Multijoin!Count(other)' = Multijoin!Count(other)
<1>1. {j \in Multijoin!Idx : mj_state'[j] = other} = {j \in Multijoin!Idx : mj_state[j] = other}
  BY DEF Multijoin!TypeOK
<1> QED
  BY <1>1 DEF Multijoin!Count

\* Every step of a thread, and of main, preserves the invariant.
LEMMA MultijoinThreadStep ==
  ASSUME Multijoin!IndInv, NEW i \in Multijoin!Idx, Multijoin!Thread(i)
  PROVE  Multijoin!IndInv'
<1> USE ProdConsumerAssumption DEF Multijoin!IndInv, Multijoin!TypeOK,
  Multijoin!ThreadAt, Multijoin!ThreadGoto
<1>1. CASE Multijoin!Terminate(i)
  <2>1. mj_state[i] = "ALIVE" /\ mj_state' = [mj_state EXCEPT ![i] = "TERMINATED"]
    BY <1>1 DEF Multijoin!Terminate
  <2>2. /\ Multijoin!Count("TERMINATED")' = Multijoin!Count("TERMINATED") + 1
        /\ Multijoin!Count("JOINED")' = Multijoin!Count("JOINED")
    <3>1. "ALIVE" # "TERMINATED" /\ "JOINED" # "ALIVE" /\ "JOINED" # "TERMINATED"
      OBVIOUS
    <3>2. Multijoin!TypeOK
      OBVIOUS
    <3> HIDE DEF Multijoin!IndInv, Multijoin!TypeOK
    <3>3. Multijoin!Count("TERMINATED")' = Multijoin!Count("TERMINATED") + 1
      BY <2>1, <3>1, <3>2, MultijoinCountMoves
    <3>4. Multijoin!Count("JOINED")' = Multijoin!Count("JOINED")
      BY <2>1, <3>1, <3>2, MultijoinCountStays
    <3> QED BY <3>3, <3>4
  <2>3. Multijoin!Count("TERMINATED")' \in 0..N
    BY MultijoinCountType
  <2> QED
    BY <1>1, <2>1, <2>2, <2>3 DEF Multijoin!Terminate
<1>2. CASE Multijoin!ThreadUnlock(i) \/ Multijoin!Signal(i)
  <2>1. mj_state' = mj_state /\ \A s : Multijoin!Count(s)' = Multijoin!Count(s)
    BY <1>2 DEF Multijoin!ThreadUnlock, Multijoin!Signal, Multijoin!Count
  <2> QED
    BY <1>2, <2>1 DEF Multijoin!ThreadUnlock, Multijoin!Signal
<1> QED
  BY <1>1, <1>2 DEF Multijoin!Thread

\* Main's steps keep the counts.
LEMMA MultijoinMainKeeps ==
  ASSUME Multijoin!IndInv, Multijoin!MainStep \/ Multijoin!SpuriousWake
  PROVE  Multijoin!IndInv'
<1> USE ProdConsumerAssumption DEF Multijoin!IndInv, Multijoin!TypeOK, Multijoin!Idx
<1>1. CASE Multijoin!Create
  <2>1. \A s : Multijoin!Count(s)' = Multijoin!Count(s)
    BY <1>1 DEF Multijoin!Create, Multijoin!Count
  <2> QED
    BY <1>1, <2>1 DEF Multijoin!Create
<1>2. CASE Multijoin!AllCreated
  <2>1. \A s : Multijoin!Count(s)' = Multijoin!Count(s)
    BY <1>2 DEF Multijoin!AllCreated, Multijoin!Count
  <2>2. Multijoin!Count("JOINED") = 0
    <3>1. {i \in Multijoin!Idx : mj_state[i] = "JOINED"} = {}
      BY <1>2 DEF Multijoin!AllCreated
    <3> QED BY <3>1, FS_EmptySet, SameCardinality DEF Multijoin!Count
  <2> QED
    BY <1>2, <2>1, <2>2 DEF Multijoin!AllCreated
<1>3. CASE \/ Multijoin!Lock \/ Multijoin!Wait \/ Multijoin!Wake
           \/ Multijoin!SpuriousWake \/ Multijoin!StartScan \/ Multijoin!Skip
           \/ Multijoin!Unlock \/ Multijoin!Exit
  <2>1. /\ mj_state' = mj_state /\ mj_numLive' = mj_numLive
        /\ mj_numUnjoined' = mj_numUnjoined /\ mj_tpc' = mj_tpc
        /\ mj_mpc # "create"
        /\ mj_mpc' \in {"lock", "test", "wait", "scan", "exited", "failed"}
    BY <1>3 DEF Multijoin!Lock, Multijoin!Wait, Multijoin!Wake, Multijoin!SpuriousWake,
      Multijoin!WaitReturns, Multijoin!StartScan, Multijoin!Skip, Multijoin!Unlock,
      Multijoin!Exit
  <2>3. mj_idx' \in 0..N
    BY <1>3 DEF Multijoin!Lock, Multijoin!Wait, Multijoin!Wake, Multijoin!SpuriousWake,
      Multijoin!WaitReturns, Multijoin!StartScan, Multijoin!Skip, Multijoin!Unlock,
      Multijoin!Exit
  <2>5. mj_waiting' \in BOOLEAN
    BY <1>3 DEF Multijoin!Lock, Multijoin!Wait, Multijoin!Wake, Multijoin!SpuriousWake,
      Multijoin!WaitReturns, Multijoin!StartScan, Multijoin!Skip, Multijoin!Unlock,
      Multijoin!Exit
  <2>4. mj_mutex' \in Multijoin!Idx \cup {Multijoin!Main, Multijoin!None}
    BY <1>3 DEF Multijoin!Lock, Multijoin!Wait, Multijoin!Wake, Multijoin!SpuriousWake,
      Multijoin!WaitReturns, Multijoin!StartScan, Multijoin!Skip, Multijoin!Unlock,
      Multijoin!Exit
  <2>2. Multijoin!Count("TERMINATED")' = Multijoin!Count("TERMINATED") /\ Multijoin!Count("JOINED")' = Multijoin!Count("JOINED")
    BY <2>1 DEF Multijoin!Count
  <2> QED
    BY <2>1, <2>2, <2>3, <2>4, <2>5
<1>4. CASE Multijoin!Join
  <2>1. mj_idx \in Multijoin!Idx /\ mj_state[mj_idx] = "TERMINATED" /\ mj_state' = [mj_state EXCEPT ![mj_idx] = "JOINED"]
    BY <1>4 DEF Multijoin!Join
  <2>2. /\ Multijoin!Count("JOINED")' = Multijoin!Count("JOINED") + 1
        /\ Multijoin!Count("TERMINATED")' = Multijoin!Count("TERMINATED") - 1
    BY <2>1, MultijoinCountMoves
  <2>3. Multijoin!Count("TERMINATED") \in 0..N /\ Multijoin!Count("JOINED") \in 0..N
        /\ Multijoin!Count("JOINED")' \in 0..N /\ Multijoin!Count("TERMINATED")' \in 0..N
    BY MultijoinCountType
  <2>4. /\ mj_numUnjoined' = mj_numUnjoined - 1 /\ mj_numLive' = mj_numLive - 1
        /\ mj_idx' = mj_idx + 1 /\ mj_idx < N /\ mj_mpc = "scan"
        /\ UNCHANGED <<mj_mutex, mj_tpc, mj_mpc, mj_waiting>>
        /\ mj_tpc[mj_idx] = "ended"
    BY <1>4 DEF Multijoin!Join
  <2>5. /\ mj_numUnjoined' = Multijoin!Count("TERMINATED")' /\ mj_numUnjoined' \in 0..N
        /\ mj_numLive' = N - Multijoin!Count("JOINED")' /\ mj_numLive' \in 0..N
    <3>1. mj_numUnjoined = Multijoin!Count("TERMINATED") /\ mj_numLive = N - Multijoin!Count("JOINED")
      BY <2>4
    <3> HIDE DEF Multijoin!IndInv, Multijoin!TypeOK
    <3> QED BY <3>1, <2>2, <2>3, <2>4
  <2>6. Multijoin!TypeOK'
    BY <2>1, <2>4, <2>5
  <2>7. \A i \in Multijoin!Idx : mj_state'[i] = "ALIVE" <=> mj_tpc'[i] \in {"none", "work"}
    BY <2>1, <2>4
  <2> QED
    BY <2>4, <2>5, <2>6, <2>7
<1> QED
  BY <1>1, <1>2, <1>3, <1>4 DEF Multijoin!MainStep

\* No thread has been created.
LEMMA MultijoinStarts == Multijoin!Init => Multijoin!IndInv
<1> SUFFICES ASSUME Multijoin!Init
             PROVE  Multijoin!IndInv
  OBVIOUS
<1>1. /\ {i \in Multijoin!Idx : mj_state[i] = "TERMINATED"} = {}
      /\ {i \in Multijoin!Idx : mj_state[i] = "JOINED"} = {}
  BY DEF Multijoin!Init
<1>2. Multijoin!Count("TERMINATED") = 0 /\ Multijoin!Count("JOINED") = 0
  BY <1>1, FS_EmptySet, SameCardinality DEF Multijoin!Count
<1>3. Multijoin!TypeOK
  <2>1. /\ mj_state \in [Multijoin!Idx -> {"ALIVE", "TERMINATED", "JOINED"}]
        /\ mj_tpc \in [Multijoin!Idx -> {"none", "work", "unlock", "signal", "ended"}]
    BY DEF Multijoin!Init
  <2>2. /\ mj_numLive \in 0..N /\ mj_numUnjoined \in 0..N /\ mj_idx \in 0..N
        /\ mj_mutex \in Multijoin!Idx \cup {Multijoin!Main, Multijoin!None}
        /\ mj_waiting \in BOOLEAN
        /\ mj_mpc \in {"create", "lock", "test", "wait", "scan", "exited", "failed"}
    <3>1. 0 \in 0..N
      BY ProdConsumerAssumption
    <3>2. mj_waiting \in BOOLEAN
      BY DEF Multijoin!Init
    <3> QED BY <3>1, <3>2 DEF Multijoin!Init
  <2> QED BY <2>1, <2>2 DEF Multijoin!TypeOK
<1> QED
  BY <1>2, <1>3, ProdConsumerAssumption DEF Multijoin!Init, Multijoin!IndInv

\* Every step of thread_multijoin.c keeps the invariant.
LEMMA MultijoinSteps == Multijoin!IndInv /\ [Multijoin!Next]_Multijoin!vars => Multijoin!IndInv'
<1>1. Multijoin!IndInv /\ UNCHANGED Multijoin!vars => Multijoin!IndInv'
  BY DEF Multijoin!vars, Multijoin!IndInv, Multijoin!TypeOK, Multijoin!Count
<1> QED
  BY <1>1, MultijoinThreadStep, MultijoinMainKeeps DEF Multijoin!Next, Multijoin!Ended

\* What the invariant says of the counters.
LEMMA MultijoinAgree == Multijoin!IndInv => Multijoin!TypeOK /\ Multijoin!CountersAgree
BY DEF Multijoin!IndInv, Multijoin!CountersAgree

-----------------------------------------------------------------------------
(* join_any.c: how far the counter of threads to be joined is ahead of     *)
(* their states.                                                           *)

\* What is in the table is finite, and at most the N threads.
LEMMA AnyTableFacts ==
  ASSUME N \in Nat
  PROVE  /\ IsFiniteSet(Any!Counted) /\ Cardinality(Any!Counted) \in 0..N
         /\ IsFiniteSet(Any!Joined) /\ Cardinality(Any!Joined) \in 0..N
<1>1. IsFiniteSet(Any!Idx) /\ Cardinality(Any!Idx) = N
  BY FS_Interval DEF Any!Idx
<1>2. Any!Counted \subseteq Any!Idx /\ Any!Joined \subseteq Any!Idx
  BY DEF Any!Counted, Any!Joined
<1> QED
  BY <1>1, <1>2, FS_Subset, FS_CardinalityType

\* All threads are to come.
LEMMA AnyCountersInit == N \in Nat /\ Any!Init => Any!CountersInv
<1> SUFFICES ASSUME N \in Nat, Any!Init
             PROVE  Any!CountersInv
  OBVIOUS
<1>1. Any!Counted = {} /\ Any!Joined = {}
  BY DEF Any!Init, Any!Counted, Any!Joined
<1> QED
  BY <1>1, FS_EmptySet, SameCardinality DEF Any!Init, Any!CountersInv, Any!TableInv

\* A step that changes neither what is counted nor what is joined.
LEMMA AnyTableQuiet ==
  ASSUME N \in Nat, Any!CountersInv, Any!Counted' = Any!Counted, Any!Joined' = Any!Joined,
         UNCHANGED <<ja_state, ja_total_unjoined, ja_total_joined>>,
         ja_tpc' \in [Any!Idx -> {"none", "work", "unlock", "lockOwn", "unlockOwn", "signal", "ended"}],
         ja_idx' \in 0..N,
         ja_mpc' = "create" => \A i \in Any!Idx : i >= ja_idx' => ja_tpc'[i] = "none",
         ja_mpc' \in {"entry", "unlockEntry"} => ja_idx' < N,
         \A i \in Any!Idx : ja_tpc[i] = "ended" => ja_tpc'[i] = "ended"
  PROVE  Any!CountersInv'
  BY DEF Any!CountersInv, Any!TableInv, Any!Counted

\* A thread's steps keep the counters.
LEMMA AnyThreadKeeps ==
  ASSUME N \in Nat, Any!CountersInv, NEW i \in Any!Idx, Any!Thread(i)
  PROVE  Any!CountersInv'
<1> USE DEF Any!CountersInv, Any!TableInv, Any!At, Any!Goto
<1>1. CASE Any!Increment(i)
  <2>1. Any!Counted' = Any!Counted \cup {i} /\ i \notin Any!Counted /\ Any!Joined' = Any!Joined
    BY <1>1 DEF Any!Increment, Any!Counted, Any!Joined
  <2>2. Cardinality(Any!Counted') = Cardinality(Any!Counted) + 1
    BY <2>1, AnyTableFacts, FS_AddElement
  <2> QED
    BY <1>1, <2>1, <2>2, AnyTableFacts, SameCardinality DEF Any!Increment
<1>2. CASE Any!ThreadUnlock(i) \/ Any!ThreadUnlockOwn(i) \/ Any!Signal(i)
  <2>1. Any!Counted' = Any!Counted /\ Any!Joined' = Any!Joined
    BY <1>2 DEF Any!ThreadUnlock, Any!ThreadUnlockOwn, Any!Signal, Any!Counted,
      Any!Joined
  <2> QED
    BY <1>2, <2>1, AnyTableQuiet DEF Any!ThreadUnlock, Any!ThreadUnlockOwn, Any!Signal
<1>3. CASE Any!SetUnjoined(i)
  <2>1. Any!Joined' = Any!Joined /\ Any!Counted' = Any!Counted
    BY <1>3 DEF Any!SetUnjoined, Any!Joined, Any!Counted
  <2> QED
    BY <1>3, <2>1 DEF Any!SetUnjoined
<1> QED
  BY <1>1, <1>2, <1>3 DEF Any!Thread

\* Main's steps keep the counters.
LEMMA AnyMainKeeps ==
  ASSUME N \in Nat, Any!CountersInv, Any!MainStep \/ Any!SpuriousWake
  PROVE  Any!CountersInv'
<1> USE DEF Any!CountersInv, Any!TableInv, Any!Idx
<1>1. CASE Any!Create
  <2>1. ja_idx \in Any!Idx /\ ja_tpc[ja_idx] = "none" /\ Any!Counted' = Any!Counted /\ Any!Joined' = Any!Joined
    BY <1>1 DEF Any!Create, Any!Counted, Any!Joined
  <2> QED
    BY <1>1, <2>1 DEF Any!Create
<1>2. CASE Any!Lock \/ Any!Wait \/ Any!Wake \/ Any!SpuriousWake \/ Any!StartScan
  <2>1. Any!Counted' = Any!Counted /\ Any!Joined' = Any!Joined
    BY <1>2 DEF Any!Lock, Any!Wait, Any!Wake, Any!SpuriousWake, Any!WaitReturns,
      Any!StartScan, Any!Counted, Any!Joined
  <2> QED
    BY <1>2, <2>1, AnyTableQuiet DEF Any!Lock, Any!Wait, Any!Wake, Any!SpuriousWake,
      Any!WaitReturns, Any!StartScan
<1>3. CASE Any!LockEntry \/ Any!Skip \/ Any!UnlockEntry \/ Any!Unlock
  <2>1. Any!Counted' = Any!Counted /\ Any!Joined' = Any!Joined
    BY <1>3 DEF Any!LockEntry, Any!Skip, Any!UnlockEntry, Any!Unlock, Any!Counted,
      Any!Joined
  <2> QED
    BY <1>3, <2>1, AnyTableQuiet DEF Any!LockEntry, Any!Skip, Any!UnlockEntry,
      Any!Unlock
<1>4. CASE Any!Join
  <2>1. ja_idx \in Any!Idx /\ Any!Counted' = Any!Counted /\ Any!Joined' = Any!Joined \cup {ja_idx} /\ ja_idx \notin Any!Joined
    BY <1>4 DEF Any!Join, Any!Counted, Any!Joined
  <2>2. Cardinality(Any!Joined') = Cardinality(Any!Joined) + 1
    BY <2>1, AnyTableFacts, FS_AddElement
  <2> QED
    BY <1>4, <2>1, <2>2, AnyTableFacts, SameCardinality DEF Any!Join
<1> QED
  BY <1>1, <1>2, <1>3, <1>4 DEF Any!MainStep

\* Every step of join_any.c keeps the counters.
LEMMA AnyCountersStep == N \in Nat /\ Any!CountersInv /\ [Any!Next]_Any!vars => Any!CountersInv'
<1> SUFFICES ASSUME N \in Nat, Any!CountersInv, [Any!Next]_Any!vars
             PROVE  Any!CountersInv'
  OBVIOUS
<1>1. CASE UNCHANGED Any!vars
  BY <1>1 DEF Any!vars, Any!CountersInv, Any!TableInv, Any!Counted, Any!Joined
<1> QED
  BY <1>1, AnyThreadKeeps, AnyMainKeeps DEF Any!Next, Any!Ended

\* The mutexes, main and its condition variable keep their types.
LEMMA AnyLocksStep == N \in Nat /\ Any!IndInv /\ [Any!Next]_Any!vars => Any!LocksTyped'
<1> SUFFICES ASSUME N \in Nat, Any!IndInv, [Any!Next]_Any!vars
             PROVE  Any!LocksTyped'
  OBVIOUS
<1> USE DEF Any!IndInv, Any!LocksTyped, Any!CountersInv, Any!TableInv, Any!Main,
  Any!None
<1>1. CASE UNCHANGED Any!vars
  BY <1>1 DEF Any!vars
<1>2. ASSUME NEW i \in Any!Idx, Any!Thread(i) PROVE Any!LocksTyped'
  BY <1>2 DEF Any!Thread, Any!Increment, Any!ThreadUnlock, Any!SetUnjoined,
    Any!ThreadUnlockOwn, Any!Signal
<1>3. CASE \/ Any!Create \/ Any!Lock \/ Any!Wait \/ Any!Wake \/ Any!SpuriousWake
           \/ Any!StartScan \/ Any!Join \/ Any!Skip \/ Any!Unlock
  BY <1>3 DEF Any!Create, Any!Lock, Any!Wait, Any!Wake, Any!SpuriousWake,
    Any!WaitReturns, Any!StartScan, Any!Join, Any!Skip, Any!Unlock
<1>4. CASE Any!LockEntry
  BY <1>4 DEF Any!LockEntry, Any!Idx
<1>5. CASE Any!UnlockEntry
  BY <1>5 DEF Any!UnlockEntry, Any!Idx
<1> QED
  BY <1>1, <1>2, <1>3, <1>4, <1>5 DEF Any!Next, Any!MainStep, Any!Ended

\* The invariant of join_any.c holds initially.
LEMMA AnyJoinAnyInit == N \in Nat /\ Any!Init => Any!IndInv
BY AnyCountersInit DEF Any!Init, Any!IndInv, Any!LocksTyped, Any!Main, Any!None

\* The invariant of join_any.c is kept by every step.
LEMMA AnyJoinAnyStep == N \in Nat /\ Any!IndInv /\ [Any!Next]_Any!vars => Any!IndInv'
BY AnyCountersStep, AnyLocksStep DEF Any!IndInv

\* What the invariant says of the counters.
LEMMA AnyCountersOfTable ==
  ASSUME N \in Nat, Any!IndInv
  PROVE  Any!TypeOK /\ Any!CounterRunsAhead
<1> USE DEF Any!IndInv, Any!CountersInv, Any!TableInv
<1>1. Any!Joined \subseteq Any!Counted
  BY DEF Any!Joined, Any!Counted
<1>2. Cardinality(Any!Joined) <= Cardinality(Any!Counted)
  BY <1>1, AnyTableFacts, FS_Subset
<1>3. ja_total_unjoined \in 0..N /\ ja_total_joined \in 0..N
  BY <1>2, AnyTableFacts, SameCardinality
<1> QED
  BY <1>3, SameCardinality DEF Any!CounterRunsAhead, Any!Counted, Any!Joined,
    Any!TypeOK, Any!LocksTyped

-----------------------------------------------------------------------------
(* The shared counters: no increment is lost under the mutex.              *)

\* A thread's local copy is a number that the variable has had.
LEMMA CounterFacts ==
  ASSUME Counter!IndInv, NEW t \in Producers
  PROVE  /\ gc_temp[t] \in Nat /\ gc_temp[t] + 1 \in Nat
         /\ gc_incs \in Nat /\ gc_incs + 1 \in Nat
         /\ gc_temp[t] <= gc_incs /\ gc_left[t] \in 0..Loops
<1>1. gc_temp[t] \in Nat /\ gc_incs \in Nat /\ gc_left[t] \in 0..Loops
  BY DEF Counter!IndInv, Counter!TypeOK
<1>2. gc_temp[t] <= gc_incs
  BY DEF Counter!IndInv
<1>3. \A n \in Nat : n + 1 \in Nat
  OBVIOUS
<1> QED BY <1>1, <1>2, <1>3

\* Every step of a thread preserves the invariant.
LEMMA CounterThreadStep ==
  ASSUME Counter!IndInv, NEW t \in Producers, Counter!Thread(t)
  PROVE  Counter!IndInv'
<1> USE ProdConsumerAssumption, LoopsAssumption DEF Counter!IndInv, Counter!TypeOK,
  Counter!StoredOnce, Counter!Goto, Producers, Counter!None
<1>1. CASE Counter!Lock(t)
  <2>1. /\ gc_left[t] > 0 /\ gc_pc[t] = "loop" /\ gc_pc' = [gc_pc EXCEPT ![t] = "load"]
        /\ IF gc_mutexed THEN gc_mtx = 0 /\ gc_mtx' = t ELSE gc_mtx' = gc_mtx
        /\ UNCHANGED <<gc_mutexed, gc_sum, gc_temp, gc_left, gc_incs>>
    BY <1>1 DEF Counter!Lock
  <2>2. gc_mutexed => \A u \in Producers : gc_pc'[u] # "loop" => u = t
    BY <2>1
  <2>3. \A u \in Producers : Counter!StoredOnce(u)' <=> Counter!StoredOnce(u)
    BY <2>1
  <2> QED
    BY <2>1, <2>2, <2>3
<1>2. CASE Counter!Load(t)
  BY <1>2 DEF Counter!Load
<1>3. CASE Counter!Store(t)
  <2>1. /\ gc_pc[t] = "store" /\ gc_pc' = [gc_pc EXCEPT ![t] = "unlock"]
        /\ gc_sum' = gc_temp[t] + 1
        /\ gc_incs' = gc_incs + 1 /\ UNCHANGED <<gc_mutexed, gc_mtx, gc_temp, gc_left>>
    BY <1>3 DEF Counter!Store
  <2>0. /\ gc_temp[t] \in Nat /\ gc_temp[t] + 1 \in Nat
        /\ gc_incs \in Nat /\ gc_incs + 1 \in Nat
        /\ gc_temp[t] <= gc_incs /\ gc_left[t] \in 0..Loops
    BY CounterFacts
  <2>2. Counter!TypeOK'
    <3> HIDE DEF Counter!IndInv, Counter!StoredOnce
    <3>1. Counter!TypeOK
      BY DEF Counter!IndInv
    <3>2. gc_pc' \in [Producers -> {"loop", "load", "store", "unlock"}]
      BY <2>1, <3>1
    <3>3. gc_sum' \in Nat /\ gc_incs' \in Nat
      BY <2>0, <2>1
    <3> QED BY <2>1, <3>1, <3>2, <3>3
  <2>3. gc_mutexed => gc_sum' = gc_incs' /\ \A u \in Producers : u # t => gc_pc[u] = "loop"
    BY <2>1
  <2>4. gc_sum' >= 1 /\ gc_sum' <= gc_incs' /\ \A u \in Producers : gc_temp[u] <= gc_incs'
    <3> HIDE DEF Counter!IndInv, Counter!TypeOK, Counter!StoredOnce
    <3>2. ASSUME NEW u \in Producers
          PROVE  gc_temp[u] <= gc_incs + 1
      BY CounterFacts
    <3>3. gc_sum' >= 1 /\ gc_sum' <= gc_incs + 1
      BY <2>0, <2>1
    <3> QED BY <2>1, <3>2, <3>3
  <2>5. gc_sum' >= 2 \/ Counter!StoredOnce(t)'
    <3>1. CASE gc_temp[t] >= 1
      BY <2>0, <2>1, <3>1
    <3>2. CASE ~(gc_temp[t] >= 1)
      <4>1. gc_left[t] = Loops
        BY <2>0, <2>1, <3>2
      <4> QED BY <2>0, <2>1, <4>1
    <3> QED BY <3>1, <3>2
  <2>6. \A u \in Producers : gc_left'[u] < Loops /\ gc_pc'[u] \in {"store", "unlock"} => gc_temp'[u] >= 1
    BY <2>1
  <2> QED
    BY <2>1, <2>2, <2>3, <2>4, <2>5, <2>6
<1>4. CASE Counter!Unlock(t)
  <2>1. /\ gc_pc[t] = "unlock" /\ gc_pc' = [gc_pc EXCEPT ![t] = "loop"]
        /\ gc_mtx' = IF gc_mutexed THEN 0 ELSE gc_mtx
        /\ gc_left' = [gc_left EXCEPT ![t] = gc_left[t] - 1]
        /\ UNCHANGED <<gc_mutexed, gc_sum, gc_temp, gc_incs>>
    BY <1>4 DEF Counter!Unlock
  <2>2. gc_left[t] > 0 /\ gc_sum >= 1
    BY <2>1
  <2>3. Counter!TypeOK'
    <3> HIDE DEF Counter!IndInv, Counter!StoredOnce
    <3>1. gc_left[t] - 1 \in 0..Loops
      <4>1. gc_left[t] \in 0..Loops
        BY CounterFacts
      <4> HIDE DEF Counter!TypeOK
      <4> QED BY <2>2, <4>1
    <3>2. Counter!TypeOK
      BY DEF Counter!IndInv
    <3> QED BY <2>1, <3>1, <3>2
  <2>4. gc_mutexed => \A u \in Producers : gc_pc'[u] = "loop"
    BY <2>1
  <2>5. \A u \in Producers : Counter!StoredOnce(u) => Counter!StoredOnce(u)'
    BY <2>1, <2>2
  <2> QED
    BY <2>1, <2>2, <2>3, <2>4, <2>5
<1> QED
  BY <1>1, <1>2, <1>3, <1>4 DEF Counter!Thread

\* No thread has incremented anything.
LEMMA CounterStarts == Counter!Init => Counter!IndInv
BY LoopsAssumption DEF Counter!Init, Counter!IndInv, Counter!TypeOK, Counter!StoredOnce

\* What a thread has read is current while it holds the mutex.
LEMMA CounterSteps == Counter!IndInv /\ [Counter!Next]_Counter!vars => Counter!IndInv'
<1>1. Counter!IndInv /\ UNCHANGED Counter!vars => Counter!IndInv'
  BY DEF Counter!vars, Counter!IndInv, Counter!TypeOK, Counter!StoredOnce
<1> QED
  BY <1>1, CounterThreadStep DEF Counter!Next, Counter!Ended

\* What the invariant says of the counter.
LEMMA CounterCounts == Counter!IndInv => Counter!TypeOK /\ Counter!CountIsRight
BY LoopsAssumption DEF Counter!IndInv, Counter!TypeOK, Counter!CountIsRight,
  Counter!Joined, Counter!StoredOnce

-----------------------------------------------------------------------------
(* Each program takes its own steps.                                       *)

ProgramsInv == Multijoin!IndInv /\ Any!IndInv /\ Counter!IndInv

\* A step is a step of the program that was chosen; the others stand still.
LEMMA EachKeepsItsOwn ==
  [MCNext]_allVars => /\ [Multijoin!Next]_(Multijoin!vars) /\ [Any!Next]_(Any!vars)
                      /\ [Counter!Next]_(Counter!vars)
BY DEF MCNext, Only, allVars, mjVars, jaVars, gcVars, Multijoin!vars, Any!vars,
  Counter!vars

\* Each program starts as it does by itself.
LEMMA ProgramsStart == MCInit => ProgramsInv
BY ProdConsumerAssumption, MultijoinStarts, AnyJoinAnyInit, CounterStarts DEF MCInit,
  ProgramsInv

\* Each program keeps its own invariant.
LEMMA ProgramsStep == ProgramsInv /\ [MCNext]_allVars => ProgramsInv'
BY ProdConsumerAssumption, EachKeepsItsOwn, MultijoinSteps, AnyJoinAnyStep, CounterSteps
DEF ProgramsInv

\* For any number of threads: the counters of thread_multijoin.c and join_any.c never
\* disagree with the states of the threads by more than the threads between their two
\* critical sections, and no increment of a counter under a mutex is lost.
THEOREM CountersAreRight == MCSpec => []CountersAgree
<1>1. ProgramsInv => CountersAgree
  BY ProdConsumerAssumption, MultijoinAgree, AnyCountersOfTable, CounterCounts
  DEF ProgramsInv, CountersAgree
<1> QED
  BY <1>1, ProgramsStart, ProgramsStep, PTL DEF MCSpec
=============================================================================
