---------------------------- MODULE SigchldHandler ----------------------------
(***************************************************************************)
(* 26_Monitoring_Child_Processes/sigchild_handler.c: main forks N children *)
(* with SIGCHLD blocked, then waits in sigsuspend until childrenLeft is 0; *)
(* the handler reaps every child it finds ended.  Pending SIGCHLDs are     *)
(* merged, and blocked while the handler runs.                             *)
(***************************************************************************)
EXTENDS Integers, FiniteSets

CONSTANT N        \* the number of children, a natural number

Children == 1..N

VARIABLES
  mpc,            \* where main, or the handler it runs, is
  forked,         \* how many children main has forked
  childrenLeft,
  sigCount,
  cpc,            \* cpc[i]: where child i is
  pending         \* a SIGCHLD is pending

vars == <<mpc, forked, childrenLeft, sigCount, cpc, pending>>

Init ==
  /\ mpc = "fork" /\ forked = 0
  /\ childrenLeft = N /\ sigCount = 0
  /\ cpc = [i \in Children |-> "none"]
  /\ pending = FALSE

In(s) == {i \in Children : cpc[i] = s}

Goto(a, b) == mpc = a /\ mpc' = b

Fork ==
  /\ Goto("fork", "fork")
  /\ forked < N
  /\ forked' = forked + 1
  /\ cpc' = [cpc EXCEPT ![forked + 1] = "running"]
  /\ UNCHANGED <<childrenLeft, sigCount, pending>>

AllForked ==
  /\ forked = N
  /\ Goto("fork", "test")
  /\ UNCHANGED <<forked, childrenLeft, sigCount, cpc, pending>>

\* Mutant: a SIGCHLD that came before sigsuspend is gone (not blocked then).
SuspendForgets ==
  /\ Goto("test", IF childrenLeft > 0 THEN "suspend" ELSE "done")
  /\ pending' = FALSE
  /\ UNCHANGED <<forked, childrenLeft, sigCount, cpc>>

\* while (childrenLeft > 0)
Test ==
  /\ Goto("test", IF childrenLeft > 0 THEN "suspend" ELSE "done")
  /\ UNCHANGED <<forked, childrenLeft, sigCount, cpc, pending>>

\* sigsuspend unblocks SIGCHLD and waits for it: the handler runs.
Suspend ==
  /\ pending
  /\ Goto("suspend", "handler")
  /\ pending' = FALSE
  /\ UNCHANGED <<forked, childrenLeft, sigCount, cpc>>

\* Mutant: the handler calls waitpid once.
HandlerReapsOne ==
  /\ Goto("handler", "handled")
  /\ \E i \in In("zombie") : cpc' = [cpc EXCEPT ![i] = "reaped"]
  /\ childrenLeft' = childrenLeft - 1
  /\ UNCHANGED <<forked, sigCount, pending>>

HandlerReaps ==
  /\ Goto("handler", "handler")
  /\ \E i \in In("zombie") : cpc' = [cpc EXCEPT ![i] = "reaped"]
  /\ childrenLeft' = childrenLeft - 1
  /\ UNCHANGED <<forked, sigCount, pending>>

\* waitpid returns 0, or -1 with ECHILD; then the handler sleeps.
HandlerFindsNone ==
  /\ In("zombie") = {}
  /\ Goto("handler", "handled")
  /\ UNCHANGED <<forked, childrenLeft, sigCount, cpc, pending>>

\* The handler returns, and sigsuspend with it.
HandlerReturns ==
  /\ Goto("handled", "test")
  /\ sigCount' = sigCount + 1
  /\ UNCHANGED <<forked, childrenLeft, cpc, pending>>

Main == \/ Fork \/ AllForked \/ Test \/ Suspend
        \/ HandlerReaps \/ HandlerFindsNone \/ HandlerReturns

\* sleep(seconds), _exit: the kernel sends SIGCHLD.
Exit(i) ==
  /\ cpc[i] = "running"
  /\ cpc' = [cpc EXCEPT ![i] = "zombie"]
  /\ pending' = TRUE
  /\ UNCHANGED <<mpc, forked, childrenLeft, sigCount>>

Ended == mpc = "done" /\ UNCHANGED vars

Next == Main \/ (\E i \in Children : Exit(i)) \/ Ended

Spec == Init /\ [][Next]_vars

\* Main runs, and every child ends.
FairSpec == Spec /\ WF_vars(Main) /\ \A i \in Children : WF_vars(Exit(i))

-----------------------------------------------------------------------------
\* The type of every variable; the counter never goes below 0.
TypeOK ==
  /\ mpc \in {"fork", "test", "suspend", "handler", "handled", "done"}
  /\ forked \in 0..N /\ childrenLeft \in 0..N /\ sigCount \in Nat
  /\ cpc \in [Children -> {"none", "running", "zombie", "reaped"}]
  /\ pending \in BOOLEAN

\* childrenLeft is the number of children not yet reaped: a child is counted
\* once, however many SIGCHLDs were merged.
CountAgrees == childrenLeft = N - Cardinality(In("reaped"))

\* Main never goes to sleep on a child that has already ended: a zombie left
\* over by the handler has a SIGCHLD pending.
ZombieIsAnnounced ==
  mpc \in {"test", "suspend", "handled"} /\ In("zombie") # {} => pending

\* What the program comes to when all children have ended.
ProgramEnded == mpc = "done"

\* A child that is not forked has no state yet; only inside the handler can there be
\* an ended child nobody is told of.
HandlerInv ==
  /\ TypeOK /\ CountAgrees
  /\ \A i \in Children : i > forked => cpc[i] = "none"
  /\ mpc # "handler" /\ In("zombie") # {} => pending
=============================================================================
