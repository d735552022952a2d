-------------------------------- MODULE Signals -------------------------------
(***************************************************************************)
(* Chapters 20 to 24: processes that wait for signals.                     *)
(*   - sig_speed_sigwaitinfo.c, sig_speed_sigsuspend.c, fork_sig_sync.c    *)
(*     and double_wait.c have a parent and a child wait for each other     *)
(*     with SIGUSR1, which both keep blocked.                              *)
(*   - catch_rtsigs.c, t_sigwaitinfo.c, signalfd_sigval.c, sig_receiver.c  *)
(*     and use_sigaction.c receive what sig_sender.c sends; so does        *)
(*     signal_messaging.c, whose handler puts the letters together, and    *)
(*     t_sigsuspend.c (compiled as it is, with USE_PAUSE).                 *)
(*   - imp_abort.c is abort(3), confirm_nodefer.c shows SA_NODEFER.        *)
(*                                                                         *)
(* A signal is <<number, value>>.  Left out: what is displayed; a SIGINT   *)
(* for signal_messaging.c, which ends it, and the size of its buffer,      *)
(* which the handler's strcat does not look at.                            *)
(***************************************************************************)
EXTENDS Integers, Sequences, DataLemmas, TLAPS

CONSTANTS
  Rounds,    \* num-sigs of the sig_speed programs
  Sent       \* what sig_sender.c sends, a sequence

VARIABLES
  tool,
  pend,    \* of each process, the signals pending in the order of delivery
  mask,    \* the numbers blocked
  pc,      \* of each process
  step,    \* of each process, how far it is in its Script; of the sender, in Sent
  out,     \* what the receiver has seen: signals caught, or letters printed
  mess,    \* mess of signal_messaging.c, sigintCnt and so on
  flag     \* newMessage, gotSigint, allDone, gotSigquit, breakOut

vars == <<tool, pend, mask, pc, step, out, mess, flag>>

USR == 10  ABRT == 6  INT == 2  QUIT == 3  RTMIN == 34
Procs == {"parent", "child"}

PingPong == {"sig_speed_sigwaitinfo", "sig_speed_sigsuspend", "fork_sig_sync", "double_wait"}
Handled == {"catch_rtsigs", "sig_receiver", "t_sigsuspend", "signal_messaging"}
Fetched == {"t_sigwaitinfo", "signalfd_sigval"}
Tools == PingPong \union Handled \union Fetched
         \union {"use_sigaction", "imp_abort", "confirm_nodefer"}
Every == {USR, ABRT, INT, QUIT, RTMIN}
Standard  == {n \in Every : n < RTMIN}
RealTimes == {n \in Every : n >= RTMIN}

\* The receivers may start with all signals blocked for a while.
Init ==
  /\ tool \in Tools
  /\ pend = [p \in Procs |-> <<>>] /\ step = [p \in Procs |-> 0]
  /\ out = <<>> /\ mess = <<>> /\ flag = FALSE
  /\ mask \in CASE tool \in PingPong -> {{USR}}
                [] tool \in Fetched -> {Every}
                [] tool = "catch_rtsigs" -> {{}, Every \ {INT}}
                [] tool = "sig_receiver" -> {{}, Every}
                [] tool = "t_sigsuspend" -> {{INT, QUIT}}
                [] tool = "imp_abort" -> {{}, {ABRT}}
                [] OTHER -> {{}}
  /\ pc \in CASE tool \in {"catch_rtsigs", "sig_receiver"} ->
                   {[p \in Procs |-> IF mask = {} THEN "loop" ELSE "blocked"]}
              [] tool = "imp_abort" ->
                   {[p \in Procs |-> d] : d \in {"SIG_DFL", "SIG_IGN", "handler"}}
              [] tool = "use_sigaction" -> {[p \in Procs |-> "handlers"]}
              [] OTHER -> {[p \in Procs |-> "loop"]}

\* The signals of a queue whose numbers are these; a recursive function like this one
\* can be reasoned about, unlike SelectSeq.
Only(ns, q) ==
  LET f[i \in 0..Len(q)] ==
        IF i = 0 THEN <<>> ELSE IF q[i][1] \in ns THEN Append(f[i - 1], q[i]) ELSE f[i - 1]
  IN  f[Len(q)]

\* A standard signal that is pending already is not queued again; it is delivered
\* before the real-time signals.
Has(q, n) == \E i \in 1..Len(q) : q[i][1] = n
Queued(q, s) ==
  IF s[1] \notin Standard THEN Append(q, s)
  ELSE IF Has(q, s[1]) THEN q ELSE Append(Only(Standard, q), s) \o Only(RealTimes, q)

Kill(p, s) == pend' = [pend EXCEPT ![p] = Queued(@, s)]

-----------------------------------------------------------------------------
\* The parts of the ping-pong programs after fork.
Script(p) ==
  CASE tool \in {"sig_speed_sigwaitinfo", "sig_speed_sigsuspend"} ->
         [i \in 1..2 * Rounds |->
            IF i % 2 = (IF p = "child" THEN 1 ELSE 0) THEN "kill" ELSE "wait"]
    [] tool = "fork_sig_sync" -> IF p = "child" THEN <<"kill">> ELSE <<"wait">>
    [] tool = "double_wait" -> IF p = "child" THEN <<"wait", "kill">> ELSE <<"kill", "wait">>
    [] OTHER -> <<>>

Peer(p) == IF p = "child" THEN "parent" ELSE "child"
NextIs(p, what) == tool \in PingPong /\ step[p] < Len(Script(p)) /\ Script(p)[step[p] + 1] = what
Advance(p) == step' = [step EXCEPT ![p] = @ + 1]

KillPeer(p) ==
  /\ NextIs(p, "kill") /\ Kill(Peer(p), <<USR, 0>>) /\ Advance(p)
  /\ UNCHANGED <<tool, mask, pc, out, mess, flag>>

\* sigwaitinfo, or sigsuspend with the empty mask: the signal may be pending already.
WaitPeer(p) ==
  /\ NextIs(p, "wait") /\ pend[p] # <<>> /\ Advance(p)
  /\ pend' = [pend EXCEPT ![p] = Tail(@)]
  /\ UNCHANGED <<tool, mask, pc, out, mess, flag>>

-----------------------------------------------------------------------------
\* The signals that do not end the program.
Understood == CASE tool = "signal_messaging" -> {RTMIN}
                [] tool = "t_sigsuspend" -> {INT, QUIT}
                [] tool = "catch_rtsigs" -> Every \ {QUIT}
                [] OTHER -> Every

\* sig_sender.c, or another user of kill and sigqueue.
Sender ==
  /\ tool \in Handled \union Fetched /\ step["child"] < Len(Sent) /\ Advance("child")
  /\ LET s == Sent[step["child"] + 1] IN
     IF pc["parent"] = "done" \/ s[1] \notin Understood THEN UNCHANGED pend ELSE Kill("parent", s)
  /\ UNCHANGED <<tool, mask, pc, out, mess, flag>>

Deliverable == {i \in 1..Len(pend["parent"]) : pend["parent"][i][1] \notin mask}
FirstOf == CHOOSE i \in Deliverable : \A j \in Deliverable : i <= j
Without(q, i) == SubSeq(q, 1, i - 1) \o SubSeq(q, i + 1, Len(q))

\* The handlers, run between any two steps.  Those of catch_rtsigs.c block all
\* signals while they run, so that one runs after the other.
Handler ==
  /\ tool \in Handled /\ pc["parent"] # "done" /\ Deliverable # {}
  /\ pend' = [pend EXCEPT !["parent"] = Without(@, FirstOf)]
  /\ LET s == pend["parent"][FirstOf] IN
     CASE tool = "signal_messaging" ->
            mess' = Append(mess, s) /\ flag' = TRUE /\ UNCHANGED out
       [] tool = "t_sigsuspend" -> /\ mess' = Append(mess, s) /\ UNCHANGED out
                                   /\ flag' = (flag \/ s[1] = QUIT)
       [] OTHER -> /\ flag' = (flag \/ s[1] = INT) /\ UNCHANGED mess
                   /\ out' = IF s[1] = INT THEN out ELSE Append(out, s)
  /\ pc' = [pc EXCEPT !["parent"] = CASE @ \in {"pause", "read"} -> "woken"
                                      [] @ = "blocked" -> "unblock" [] OTHER -> @]
  /\ UNCHANGED <<tool, mask, step>>

Go(l) == pc' = [pc EXCEPT !["parent"] = l]
At(t, l) == tool = t /\ pc["parent"] = l

\* The block time is over (or SIGINT has cut catch_rtsigs' sleep short).
Unblock ==
  /\ tool \in {"catch_rtsigs", "sig_receiver"} /\ pc["parent"] \in {"blocked", "unblock"}
  /\ Go("loop") /\ mask' = {} /\ UNCHANGED <<tool, pend, step, out, mess, flag>>

\* sig_receiver.c tests gotSigint over and over; catch_rtsigs.c tests allDone and then
\* pauses: a signal handled in between does not end the pause.
TestDone ==
  /\ tool \in {"catch_rtsigs", "sig_receiver"}
  /\ \/ /\ pc["parent"] \in {"loop", "woken"}
        /\ IF flag THEN Go("done") ELSE tool = "catch_rtsigs" /\ Go("pausing")
     \/ pc["parent"] = "pausing" /\ Go("pause")
  /\ UNCHANGED <<tool, pend, mask, step, out, mess, flag>>

\* use_sigaction.c ends with an error at SIGKILL, which can have no handler.
EstablishHandlers ==
  /\ At("use_sigaction", "handlers") /\ Go("failed")
  /\ UNCHANGED <<tool, pend, mask, step, out, mess, flag>>

\* Mutant: the signals are fetched in the order of their numbers only.
FetchLast ==
  /\ tool \in Fetched /\ pc["parent"] = "loop" /\ pend["parent"] # <<>>
  /\ LET q == pend["parent"]  s == q[Len(q)] IN
     /\ pend' = [pend EXCEPT !["parent"] = SubSeq(@, 1, Len(@) - 1)]
     /\ IF tool = "t_sigwaitinfo" /\ s[1] = INT THEN Go("done") /\ UNCHANGED out
        ELSE out' = Append(out, s) /\ UNCHANGED pc
  /\ UNCHANGED <<tool, mask, step, mess, flag>>

\* sigwaitinfo, or the read of a signalfd; SIGINT ends t_sigwaitinfo.c.
Fetch ==
  /\ tool \in Fetched /\ pc["parent"] = "loop" /\ pend["parent"] # <<>>
  /\ LET s == Head(pend["parent"]) IN
     /\ pend' = [pend EXCEPT !["parent"] = Tail(@)]
     /\ IF tool = "t_sigwaitinfo" /\ s[1] = INT THEN Go("done") /\ UNCHANGED out
        ELSE out' = Append(out, s) /\ UNCHANGED pc
  /\ UNCHANGED <<tool, mask, step, mess, flag>>

\* signal_messaging.c: read is interrupted by a signal, or returns a line (its letters
\* are sent, or the loop continues at once if the line is malformed).  A message is
\* printed, the flag reset, the buffer cleared, in turn.
Messaging ==
  /\ tool = "signal_messaging" /\ UNCHANGED <<tool, pend, mask, step>>
  /\ \/ pc["parent"] = "loop" /\ Go("read") /\ UNCHANGED <<out, mess, flag>>
     \/ /\ pc["parent"] \in {"read", "woken"}
        /\ Go(IF flag THEN "print" ELSE "loop") /\ UNCHANGED <<out, mess, flag>>
     \/ pc["parent"] = "read" /\ Go("loop") /\ UNCHANGED <<out, mess, flag>>
     \/ pc["parent"] = "print" /\ out' = out \o mess /\ Go("reset") /\ UNCHANGED <<mess, flag>>
     \/ pc["parent"] = "reset" /\ flag' = FALSE /\ Go("clear") /\ UNCHANGED <<out, mess>>
     \/ pc["parent"] = "clear" /\ mess' = <<>> /\ Go("loop") /\ UNCHANGED <<out, flag>>

\* t_sigsuspend.c: the signals are unblocked after the first critical section, and
\* stay so.  One that comes before pause does not end it; the count is printed and
\* then set to zero, with those that come in between.
Suspend ==
  /\ tool = "t_sigsuspend" /\ UNCHANGED <<tool, pend, step, flag>>
  /\ \/ /\ pc["parent"] = "loop" /\ Go(IF flag THEN "done" ELSE "pausing")
        /\ mask' = (IF flag THEN mask ELSE {}) /\ UNCHANGED <<out, mess>>
     \/ pc["parent"] = "pausing" /\ Go("pause") /\ UNCHANGED <<mask, out, mess>>
     \/ pc["parent"] = "woken" /\ Go("counted") /\ out' = out \o mess /\ UNCHANGED <<mask, mess>>
     \/ pc["parent"] = "counted" /\ Go("loop") /\ mess' = <<>> /\ UNCHANGED <<mask, out>>

-----------------------------------------------------------------------------
\* imp_abort: SIGABRT is unblocked and, if ignored, set to its default; it is raised,
\* and once more, with the default, if a handler has returned.
ImpAbort ==
  /\ tool = "imp_abort" /\ UNCHANGED <<tool, step, mess, flag>>
  /\ \/ /\ ABRT \in mask /\ mask' = {} /\ UNCHANGED <<pend, pc, out>>
     \/ /\ mask = {} /\ pc["parent"] = "SIG_IGN" /\ Go("SIG_DFL") /\ UNCHANGED <<pend, mask, out>>
     \/ /\ mask = {} /\ pc["parent"] = "handler" /\ out' = <<<<ABRT, 0>>>>
        /\ Go("SIG_DFL") /\ UNCHANGED <<pend, mask>>
     \/ /\ mask = {} /\ pc["parent"] = "SIG_DFL" /\ Go("killed") /\ UNCHANGED <<pend, mask, out>>

\* confirm_nodefer.c: mess is the stack of handlers that run, pc the flag the second
\* time.  A raise is delivered before it returns, unless the signal is blocked.
RaiseMain ==
  /\ tool = "confirm_nodefer" /\ mess = <<>> /\ pend["parent"] = <<>> /\ step["parent"] < 2
  /\ \/ /\ out = <<>> \/ (Len(out) = 4 /\ pc["parent"] = "nodefer")
        /\ ~flag /\ Kill("parent", <<USR, 0>>) /\ UNCHANGED <<pc, step, out, flag>>
     \/ /\ flag /\ out' = Append(out, "Left") /\ flag' = FALSE
        /\ Go("nodefer") /\ Advance("parent") /\ UNCHANGED pend
  /\ UNCHANGED <<tool, mask, mess>>

EnterHandler ==
  /\ tool = "confirm_nodefer" /\ pend["parent"] # <<>> /\ USR \notin mask
  /\ pend' = [pend EXCEPT !["parent"] = <<>>] /\ out' = Append(out, "Entered")
  /\ mess' = <<IF flag THEN "return" ELSE "raise">> \o mess
  /\ mask' = IF pc["parent"] = "nodefer" THEN {} ELSE {USR}
  /\ UNCHANGED <<tool, pc, step, flag>>

InHandler ==
  /\ tool = "confirm_nodefer" /\ mess # <<>> /\ (pend["parent"] = <<>> \/ USR \in mask)
  /\ CASE Head(mess) = "raise" ->
            /\ flag' = TRUE /\ Kill("parent", <<USR, 0>>)
            /\ mess' = <<"left">> \o Tail(mess) /\ UNCHANGED <<mask, out>>
       [] Head(mess) = "left" -> /\ out' = Append(out, "Left") /\ mess' = Tail(mess)
                                 /\ mask' = {} /\ UNCHANGED <<pend, flag>>
       [] OTHER -> mess' = Tail(mess) /\ mask' = {} /\ UNCHANGED <<pend, out, flag>>
  /\ UNCHANGED <<tool, pc, step>>

-----------------------------------------------------------------------------
Peers == \E p \in Procs : KillPeer(p) \/ WaitPeer(p)
Main == \/ Unblock \/ TestDone \/ EstablishHandlers \/ Fetch \/ Messaging \/ Suspend
        \/ ImpAbort \/ RaiseMain \/ InHandler
Deliver == Handler \/ EnterHandler
Next == Peers \/ Sender \/ Main \/ Deliver

-----------------------------------------------------------------------------
RealTime(q) == Only(RealTimes, q)
HowOften(n, q) == Len(Only({n}, q))
SoFar == SubSeq(Sent, 1, step["child"])

\* What is seen and what is pending make up what was sent.
Accounted(o, q, sent) ==
  /\ RealTime(o) \o RealTime(q) = RealTime(sent)
  /\ HowOften(USR, o) + HowOften(USR, q) <= HowOften(USR, sent)
  /\ HowOften(USR, sent) > 0 => HowOften(USR, o) + HowOften(USR, q) > 0

(***************************************************************************)
(* What becomes of the signals.                                            *)
(*   - The ping-pong programs take turns: a peer that waits has a signal   *)
(*     pending, or the other is about to send it.                          *)
(*   - A receiver sees every real-time signal in the order of sending, and *)
(*     a standard signal at most as often as it was sent, but at least     *)
(*     once; signal_messaging.c prints no letter twice nor out of order.   *)
(*   - t_sigsuspend.c may lose signals, as its comment says: its counts    *)
(*     never come to more than what was sent, one that arrives before the  *)
(*     first count is printed is counted or still pending, and a SIGQUIT   *)
(*     is never forgotten, however the handler and the resets interleave.  *)
(*   - confirm_nodefer.c's output is the one its comment foretells.        *)
(* That a SIGINT handled just before the pause of catch_rtsigs.c ends the  *)
(* program is not said: it does not.                                       *)
(***************************************************************************)
SignalsArrive ==
  /\ tool \in PingPong =>
       /\ \A p \in Procs : NextIs(p, "wait") /\ pend[p] = <<>> => step[Peer(p)] < Len(Script(Peer(p)))
       /\ \A p \in Procs : NextIs(p, "wait") /\ NextIs(Peer(p), "wait") =>
            pend[p] # <<>> \/ pend[Peer(p)] # <<>>
  /\ tool \in {"catch_rtsigs", "sig_receiver"} \union Fetched /\ pc["parent"] # "done" =>
       Accounted(out, pend["parent"], SoFar)
  /\ tool = "signal_messaging" =>
       \A i, j \in 1..Len(out) : i < j => out[i][2] < out[j][2]
  /\ tool = "t_sigsuspend" =>
       /\ \A n \in Understood : pc["parent"] # "done" =>
            /\ HowOften(n, out) + HowOften(n, pend["parent"]) <= HowOften(n, SoFar)
            /\ Has(SoFar, n) /\ out = <<>> => Has(mess, n) \/ Has(pend["parent"], n)
       /\ Has(SoFar, QUIT) => flag \/ Has(pend["parent"], QUIT)
  /\ tool = "confirm_nodefer" =>
       out = SubSeq(<<"Entered", "Left", "Entered", "Left",
                      "Entered", "Entered", "Left", "Left">>, 1, Len(out))

\* What the ping-pong programs come to, and a process that calls imp_abort, whatever
\* SIGABRT's disposition is and whether it is blocked.
PeersEnded == /\ tool \in PingPong => \A p \in Procs : step[p] = Len(Script(p))
              /\ tool = "imp_abort" => pc["parent"] = "killed"
-----------------------------------------------------------------------------
(***************************************************************************)
(* The invariant from which SignalsArrive follows (proved below), a part   *)
(* for each kind of program.                                               *)
(***************************************************************************)
Signal == Every \X Int
Places == {"loop", "blocked", "unblock", "pause", "read", "woken", "print", "reset", "clear",
           "pausing", "counted", "done", "SIG_DFL", "SIG_IGN", "handler", "killed", "handlers",
           "failed", "nodefer"}

SignalsTyped ==
  /\ tool \in Tools /\ mask \subseteq Every
  /\ pend \in [Procs -> Seq(Signal)] /\ step \in [Procs -> Nat] /\ pc \in [Procs -> Places]
  /\ tool \in Handled \union Fetched =>
       out \in Seq(Signal) /\ mess \in Seq(Signal) /\ step["child"] <= Len(Sent)

\* Whose turn it is: each process sends one signal, and the other one waits for it.
Turn(c, p, to) ==
  /\ step["child"] = c /\ step["parent"] = p
  /\ pend = [q \in Procs |-> IF q = to THEN <<<<USR, 0>>>> ELSE <<>>]

TurnsInv ==
  /\ tool \in {"sig_speed_sigwaitinfo", "sig_speed_sigsuspend"} =>
       \E n \in 0..2 * Rounds :
         \/ Turn(n, n, "nobody")
         \/ n < 2 * Rounds /\ n % 2 = 0 /\ Turn(n + 1, n, "parent")
         \/ n < 2 * Rounds /\ n % 2 = 1 /\ Turn(n, n + 1, "child")
  /\ tool = "fork_sig_sync" =>
       Turn(0, 0, "nobody") \/ Turn(1, 0, "parent") \/ Turn(1, 1, "nobody")
  /\ tool = "double_wait" =>
       \/ Turn(0, 0, "nobody") \/ Turn(0, 1, "child") \/ Turn(1, 1, "nobody")
       \/ Turn(2, 1, "parent") \/ Turn(2, 2, "nobody")

\* The receivers block all signals, all but SIGINT, or none.
ReceiverInv ==
  tool \in {"catch_rtsigs", "sig_receiver"} \union Fetched =>
    /\ tool \notin Fetched => mask \in {{}, Every \ {INT}, Every}
    /\ pc["parent"] # "done" => Accounted(out, pend["parent"], SoFar)

\* Letters are printed, then put together, then pending, then still to be sent.
Ascending(q) == \A i, j \in 1..Len(q) : i < j => q[i][2] < q[j][2]
Before(q, r) == \A i \in 1..Len(q), j \in 1..Len(r) : q[i][2] < r[j][2]
ToBeSent(q) == \A i \in 1..Len(q), j \in step["child"] + 1..Len(Sent) :
                 Sent[j][1] = RTMIN => q[i][2] < Sent[j][2]

LettersInv ==
  tool = "signal_messaging" =>
    /\ mask = {} /\ Ascending(out) /\ Ascending(mess) /\ Ascending(pend["parent"])
    /\ Before(out, pend["parent"]) /\ Before(mess, pend["parent"])
    /\ pc["parent"] \notin {"reset", "clear"} => Before(out, mess)
    /\ ToBeSent(out) /\ ToBeSent(mess) /\ ToBeSent(pend["parent"])

SuspendInv ==
  tool = "t_sigsuspend" =>
    /\ mask \in {{}, {INT, QUIT}}
    /\ (pc["parent"] = "woken" => mess # <<>>) /\ (pc["parent"] = "counted" => out # <<>>)
    /\ pc["parent"] = "done" => flag
    /\ Has(SoFar, QUIT) => flag \/ Has(pend["parent"], QUIT)
    /\ \A n \in {INT, QUIT} : pc["parent"] # "done" =>
         /\ HowOften(n, out) + HowOften(n, pend["parent"])
              + (IF pc["parent"] = "counted" THEN 0 ELSE HowOften(n, mess)) <= HowOften(n, SoFar)
         /\ Has(SoFar, n) /\ out = <<>> => Has(mess, n) \/ Has(pend["parent"], n)

\* The states of confirm_nodefer.c, one after the other.
Foretold == <<"Entered", "Left", "Entered", "Left",
              "Entered", "Entered", "Left", "Left">>
NoDefer(n, raised, m, running, f, r) ==
  /\ out = SubSeq(Foretold, 1, n) /\ (raised <=> pend["parent"] # <<>>) /\ mask = m
  /\ mess = running /\ flag = f /\ step["parent"] = r /\ (pc["parent"] = "nodefer" <=> r > 0)

NoDeferInv ==
  tool = "confirm_nodefer" =>
    \/ NoDefer(0, FALSE, {}, <<>>, FALSE, 0)
    \/ NoDefer(0, TRUE, {}, <<>>, FALSE, 0)
    \/ NoDefer(1, FALSE, {USR}, <<"raise">>, FALSE, 0)
    \/ NoDefer(1, TRUE, {USR}, <<"left">>, TRUE, 0)
    \/ NoDefer(2, TRUE, {}, <<>>, TRUE, 0)
    \/ NoDefer(3, FALSE, {USR}, <<"return">>, TRUE, 0)
    \/ NoDefer(3, FALSE, {}, <<>>, TRUE, 0)
    \/ NoDefer(4, FALSE, {}, <<>>, FALSE, 1)
    \/ NoDefer(4, TRUE, {}, <<>>, FALSE, 1)
    \/ NoDefer(5, FALSE, {}, <<"raise">>, FALSE, 1)
    \/ NoDefer(5, TRUE, {}, <<"left">>, TRUE, 1)
    \/ NoDefer(6, FALSE, {}, <<"return", "left">>, TRUE, 1)
    \/ NoDefer(6, FALSE, {}, <<"left">>, TRUE, 1)
    \/ NoDefer(7, FALSE, {}, <<>>, TRUE, 1)
    \/ NoDefer(8, FALSE, {}, <<>>, FALSE, 2)

SigInv ==
  SignalsTyped /\ TurnsInv /\ ReceiverInv /\ LettersInv /\ SuspendInv /\ NoDeferInv

-----------------------------------------------------------------------------
(***************************************************************************)
(* Proof of SignalsArrive for any number of rounds and any signals sent.   *)
(* The letters for signal_messaging.c are numbered in the order of their   *)
(* sending: this is how the property tells that none comes out of order.   *)
(***************************************************************************)
SignalsFit ==
  /\ Rounds \in Nat /\ Sent \in Seq(Signal)
  /\ \A i, j \in 1..Len(Sent) :
       i < j /\ Sent[i][1] = RTMIN /\ Sent[j][1] = RTMIN => Sent[i][2] < Sent[j][2]

\* The sequence of results that ends with the one of Only.
Unfolds(ns, q, s) ==
  /\ s[0] = <<>> /\ Only(ns, q) = s[Len(q)]
  /\ \A i \in 1..Len(q) :
       s[i] = IF q[i][1] \in ns THEN Append(s[i - 1], q[i]) ELSE s[i - 1]

\* How Only comes to its result.
LEMMA OnlyUnfolds ==
  ASSUME NEW ns, NEW q \in Seq(Signal)
  PROVE  \E s \in [0..Len(q) -> Seq(Signal)] : Unfolds(ns, q, s)
<1> DEFINE n == Len(q)
           P(g) == g = [i \in 0..n |->
             IF i = 0 THEN <<>> ELSE IF q[i][1] \in ns THEN Append(g[i - 1], q[i]) ELSE g[i - 1]]
           grow == [i \in 1..n |-> [v \in Seq(Signal) |->
                      IF q[i][1] \in ns THEN Append(v, q[i]) ELSE v]]
<1>0. n \in Nat /\ \A i \in 1..n : q[i] \in Signal
  BY LenProperties, ElementOfSeq
<1>1. grow \in [1..n -> [Seq(Signal) -> Seq(Signal)]]
  BY <1>0, AppendProperties
<1>2. PICK s \in [0..n -> Seq(Signal)] : IsRecursion(s, n, <<>>, grow)
  <2>1. <<>> \in Seq(Signal)
    OBVIOUS
  <2> HIDE DEF grow, n
  <2> QED BY <1>0, <1>1, <2>1, RecursionUpTo
<1>3. /\ s[0] = <<>>
      /\ \A i \in 1..n : s[i] = IF q[i][1] \in ns THEN Append(s[i - 1], q[i]) ELSE s[i - 1]
  <2>1. \A i \in 1..n : i - 1 \in 0..n
    OBVIOUS
  <2> QED BY <1>2, <2>1 DEF IsRecursion
<1>4. P(s)
  <2>1. \A i \in 0..n : s[i] = IF i = 0 THEN <<>>
                               ELSE IF q[i][1] \in ns THEN Append(s[i - 1], q[i]) ELSE s[i - 1]
    <3> SUFFICES ASSUME NEW i \in 0..n
                 PROVE  s[i] = IF i = 0 THEN <<>>
                               ELSE IF q[i][1] \in ns THEN Append(s[i - 1], q[i]) ELSE s[i - 1]
      OBVIOUS
    <3>1. i = 0 \/ i \in 1..n
      BY <1>0
    <3>2. i \in 1..n => i # 0
      OBVIOUS
    <3> HIDE DEF n
    <3> QED BY <1>3, <3>1, <3>2
  <2> QED BY <2>1
<1> DEFINE c == CHOOSE g : P(g)
<1>5. P(c)
  <2> HIDE DEF P
  <2> QED BY <1>4
<1>6. Only(ns, q) = c[n]
  BY DEF Only
<1>7. \A i \in 0..n : c[i] = s[i]
  <2> DEFINE S == {i \in 0..n : c[i] = s[i]}
  <2>1. \A i \in 0..n : c[i] = IF i = 0 THEN <<>>
                               ELSE IF q[i][1] \in ns THEN Append(c[i - 1], q[i]) ELSE c[i - 1]
    BY <1>5
  <2> HIDE DEF c
  <2>2. 0 \in S
    BY <1>0, <2>1, <1>3
  <2>3. \A i \in 0..(n - 1) : i \in S => i + 1 \in S
    <3> SUFFICES ASSUME NEW i \in 0..(n - 1), i \in S
                 PROVE  i + 1 \in S
      OBVIOUS
    <3>1. i + 1 \in 0..n /\ i + 1 \in 1..n /\ i + 1 # 0 /\ (i + 1) - 1 = i
      BY <1>0
    <3> QED BY <3>1, <2>1, <1>3
  <2>4. 0..n \subseteq S
    <3> HIDE DEF S, n
    <3> QED BY <1>0, <2>2, <2>3, InductionUpTo
  <2> QED BY <2>4
<1>8. n \in 0..n
  BY <1>0
<1> HIDE DEF c
<1>9. Unfolds(ns, q, s)
  BY <1>3, <1>6, <1>7, <1>8 DEF Unfolds
<1> QED BY <1>9

\* Nothing is left of nothing.
LEMMA OnlyOfNone == \A ns : Only(ns, <<>>) = <<>>
<1> SUFFICES ASSUME NEW ns PROVE Only(ns, <<>>) = <<>>
  OBVIOUS
<1> DEFINE q == <<>>
<1>1. q \in Seq(Signal) /\ Len(q) = 0
  OBVIOUS
<1> HIDE DEF q
<1>2. PICK s \in [0..Len(q) -> Seq(Signal)] : Unfolds(ns, q, s)
  BY <1>1, OnlyUnfolds
<1>3. Only(ns, q) = <<>>
  BY <1>1, <1>2 DEF Unfolds
<1> QED BY <1>3 DEF q

\* One signal more.
LEMMA OnlyOfMore ==
  ASSUME NEW ns, NEW q \in Seq(Signal), NEW x \in Signal
  PROVE  /\ Only(ns, q) \in Seq(Signal)
         /\ Only(ns, Append(q, x)) = IF x[1] \in ns THEN Append(Only(ns, q), x) ELSE Only(ns, q)
<1> DEFINE r == Append(q, x)
<1>1. r \in Seq(Signal) /\ Len(r) = Len(q) + 1 /\ Len(q) \in Nat /\ r[Len(q) + 1] = x
      /\ \A i \in 1..Len(q) : r[i] = q[i]
  BY AppendProperties, LenProperties
<1> HIDE DEF r
<1>2. PICK s \in [0..Len(q) -> Seq(Signal)] : Unfolds(ns, q, s)
  BY OnlyUnfolds
<1>3. PICK t \in [0..Len(r) -> Seq(Signal)] : Unfolds(ns, r, t)
  BY <1>1, OnlyUnfolds
<1> DEFINE S == {i \in 0..Len(q) : t[i] = s[i]}
<1>4. 0 \in S
  BY <1>1, <1>2, <1>3 DEF Unfolds
<1>5. \A i \in 0..(Len(q) - 1) : i \in S => i + 1 \in S
  <2> SUFFICES ASSUME NEW i \in 0..(Len(q) - 1), i \in S PROVE i + 1 \in S
    OBVIOUS
  <2>1. i + 1 \in 0..Len(q) /\ i + 1 \in 1..Len(q) /\ i + 1 \in 1..Len(r) /\ (i + 1) - 1 = i
    BY <1>1
  <2>2. t[i + 1] = IF r[i + 1][1] \in ns THEN Append(t[i], r[i + 1]) ELSE t[i]
    BY <1>3, <2>1 DEF Unfolds
  <2>3. s[i + 1] = IF q[i + 1][1] \in ns THEN Append(s[i], q[i + 1]) ELSE s[i]
    BY <1>2, <2>1 DEF Unfolds
  <2>4. r[i + 1] = q[i + 1] /\ t[i] = s[i]
    BY <1>1, <2>1
  <2>5. t[i + 1] = s[i + 1]
    BY <2>2, <2>3, <2>4
  <2> QED BY <2>1, <2>5
<1>6. t[Len(q)] = s[Len(q)]
  <2>1. 0..Len(q) \subseteq S
    <3> HIDE DEF S
    <3> QED BY <1>1, <1>4, <1>5, InductionUpTo
  <2> QED BY <2>1, <1>1
<1>7. Len(q) + 1 \in 1..Len(r) /\ (Len(q) + 1) - 1 = Len(q) /\ Len(q) \in 0..Len(q)
  BY <1>1
<1>8. Only(ns, r) = IF x[1] \in ns THEN Append(s[Len(q)], x) ELSE s[Len(q)]
  <2>1. t[Len(q) + 1] = IF r[Len(q) + 1][1] \in ns THEN Append(t[Len(q)], r[Len(q) + 1])
                        ELSE t[Len(q)]
    BY <1>3, <1>7 DEF Unfolds
  <2> QED BY <2>1, <1>1, <1>3, <1>6 DEF Unfolds
<1>9. Only(ns, q) \in Seq(Signal)
  BY <1>2, <1>7 DEF Unfolds
<1> QED BY <1>2, <1>8, <1>9 DEF r, Unfolds

\* It gives a sequence of signals.
LEMMA OnlyTyped == \A ns : \A q \in Seq(Signal) : Only(ns, q) \in Seq(Signal)
<1> SUFFICES ASSUME NEW ns, NEW q \in Seq(Signal) PROVE Only(ns, q) \in Seq(Signal)
  OBVIOUS
<1>1. <<USR, 0>> \in Signal
  BY DEF Signal, Every
<1> QED BY <1>1, OnlyOfMore

\* Two sequences, one after the other.
LEMMA OnlyOfBoth ==
  ASSUME NEW ns, NEW q \in Seq(Signal), NEW r \in Seq(Signal)
  PROVE  Only(ns, q \o r) = Only(ns, q) \o Only(ns, r)
<1> DEFINE P == {z \in Seq(Signal) : Only(ns, q \o z) = Only(ns, q) \o Only(ns, z)}
<1>1. <<>> \in P
  BY OnlyOfNone, OnlyTyped, ConcatEmptySeq
<1>2. ASSUME NEW z \in Seq(Signal), NEW x \in Signal, z \in P
      PROVE  Append(z, x) \in P
  <2>1. q \o Append(z, x) = Append(q \o z, x) /\ q \o z \in Seq(Signal) /\ Append(z, x) \in Seq(Signal)
    OBVIOUS
  <2>2. Only(ns, q) \in Seq(Signal) /\ Only(ns, z) \in Seq(Signal)
    BY OnlyTyped
  <2>3. Append(Only(ns, q) \o Only(ns, z), x) = Only(ns, q) \o Append(Only(ns, z), x)
    <3>1. \A a, b \in Seq(Signal) : a \o Append(b, x) = Append(a \o b, x)
      BY AppendLast
    <3> QED BY <2>2, <3>1
  <2>4. Only(ns, Append(q \o z, x)) = IF x[1] \in ns THEN Append(Only(ns, q \o z), x)
                                      ELSE Only(ns, q \o z)
    BY <2>1, OnlyOfMore
  <2>5. Only(ns, Append(z, x)) = IF x[1] \in ns THEN Append(Only(ns, z), x) ELSE Only(ns, z)
    BY OnlyOfMore
  <2>6. Only(ns, q \o z) = Only(ns, q) \o Only(ns, z)
    BY <1>2
  <2> QED BY <2>1, <2>3, <2>4, <2>5, <2>6
<1> HIDE DEF P
<1>3. Seq(Signal) \subseteq P
  BY <1>1, <1>2, GrowingSequences
<1> QED BY <1>3 DEF P

\* Of the signals of one kind, those of another.
LEMMA OnlyTwice ==
  ASSUME NEW ns, NEW ms, NEW q \in Seq(Signal)
  PROVE  Only(ns, Only(ms, q)) = Only(ns \cap ms, q)
<1> DEFINE P == {z \in Seq(Signal) : Only(ns, Only(ms, z)) = Only(ns \cap ms, z)}
<1>1. <<>> \in P
  BY OnlyOfNone
<1>2. ASSUME NEW z \in Seq(Signal), NEW x \in Signal, z \in P
      PROVE  Append(z, x) \in P
  <2>1. Append(z, x) \in Seq(Signal) /\ Only(ms, z) \in Seq(Signal)
    BY OnlyTyped
  <2>2. Only(ns, Only(ms, z)) = Only(ns \cap ms, z)
    BY <1>2
  <2>3. Only(ms, Append(z, x)) = IF x[1] \in ms THEN Append(Only(ms, z), x) ELSE Only(ms, z)
    BY OnlyOfMore
  <2>4. Only(ns \cap ms, Append(z, x)) = IF x[1] \in ns \cap ms THEN Append(Only(ns \cap ms, z), x)
                                         ELSE Only(ns \cap ms, z)
    BY OnlyOfMore
  <2>5. Only(ns, Append(Only(ms, z), x)) = IF x[1] \in ns THEN Append(Only(ns, Only(ms, z)), x)
                                          ELSE Only(ns, Only(ms, z))
    BY <2>1, OnlyOfMore
  <2> QED BY <2>1, <2>2, <2>3, <2>4, <2>5
<1> HIDE DEF P
<1>3. Seq(Signal) \subseteq P
  BY <1>1, <1>2, GrowingSequences
<1> QED BY <1>3 DEF P

\* Something is left if something is there.
LEMMA OnlyHas ==
  ASSUME NEW ns, NEW q \in Seq(Signal)
  PROVE  Only(ns, q) # <<>> <=> \E i \in 1..Len(q) : q[i][1] \in ns
<1> DEFINE P == {z \in Seq(Signal) : Only(ns, z) # <<>> <=> \E i \in 1..Len(z) : z[i][1] \in ns}
<1>1. <<>> \in P
  BY OnlyOfNone
<1>2. ASSUME NEW z \in Seq(Signal), NEW x \in Signal, z \in P
      PROVE  Append(z, x) \in P
  <2>1. Append(z, x) \in Seq(Signal) /\ Only(ns, z) \in Seq(Signal) /\ Len(Append(z, x)) = Len(z) + 1
        /\ Append(z, x)[Len(z) + 1] = x /\ Len(z) \in Nat
        /\ \A i \in 1..Len(z) : Append(z, x)[i] = z[i]
    BY OnlyTyped, AppendProperties, LenProperties
  <2>2. Append(Only(ns, z), x) # <<>>
    BY <2>1, AppendNotEmpty
  <2>3. \A i : i \in 1..Len(z) + 1 <=> i \in 1..Len(z) \/ i = Len(z) + 1
    BY <2>1
  <2>4. Only(ns, Append(z, x)) # <<>> <=> x[1] \in ns \/ \E i \in 1..Len(z) : z[i][1] \in ns
    BY <2>1, <2>2, <1>2, OnlyOfMore
  <2>5. (\E i \in 1..Len(z) + 1 : Append(z, x)[i][1] \in ns)
          <=> x[1] \in ns \/ \E i \in 1..Len(z) : z[i][1] \in ns
    BY <2>1, <2>3
  <2> QED BY <2>1, <2>4, <2>5
<1> HIDE DEF P
<1>3. Seq(Signal) \subseteq P
  BY <1>1, <1>2, GrowingSequences
<1> QED BY <1>3 DEF P

\* One signal.
LEMMA OnlyOfOne ==
  ASSUME NEW ns, NEW x \in Signal
  PROVE  <<x>> \in Seq(Signal) /\ Only(ns, <<x>>) = IF x[1] \in ns THEN <<x>> ELSE <<>>
<1>1. <<>> \in Seq(Signal) /\ Append(<<>>, x) = <<x>>
  OBVIOUS
<1>2. Only(ns, Append(<<>>, x)) = IF x[1] \in ns THEN Append(Only(ns, <<>>), x) ELSE Only(ns, <<>>)
  BY <1>1, OnlyOfMore
<1> QED BY <1>1, <1>2, OnlyOfNone

\* The numbers.
LEMMA Numbers == USR \in Standard /\ INT \in Standard /\ QUIT \in Standard /\ ABRT \in Standard
                 /\ Standard \cap RealTimes = {} /\ Standard \cup RealTimes = Every
                 /\ RTMIN \in RealTimes
BY DEF USR, INT, QUIT, ABRT, RTMIN, Standard, RealTimes, Every

\* How often a signal is in two sequences.
LEMMA HowOftenBoth ==
  ASSUME NEW n, NEW q \in Seq(Signal), NEW r \in Seq(Signal)
  PROVE  /\ HowOften(n, q) \in Nat /\ HowOften(n, q \o r) = HowOften(n, q) + HowOften(n, r)
         /\ HowOften(n, q) > 0 <=> Has(q, n)
<1>1. Only({n}, q) \in Seq(Signal) /\ Only({n}, r) \in Seq(Signal)
  BY OnlyTyped
<1>2. Only({n}, q \o r) = Only({n}, q) \o Only({n}, r)
  BY OnlyOfBoth
<1>3. Only({n}, q) # <<>> <=> Has(q, n)
  BY OnlyHas DEF Has
<1>4. Len(Only({n}, q)) > 0 <=> Only({n}, q) # <<>>
  BY <1>1, EmptySeq, LenProperties
<1> QED BY <1>1, <1>2, <1>3, <1>4, ConcatProperties, LenProperties DEF HowOften

\* A number in a sequence of one signal.
LEMMA HowOftenOne ==
  ASSUME NEW n, NEW x \in Signal
  PROVE  HowOften(n, <<x>>) = IF x[1] = n THEN 1 ELSE 0
<1>1. Len(<<x>>) = 1 /\ Len(<<>>) = 0
  OBVIOUS
<1>2. Only({n}, <<x>>) = IF x[1] \in {n} THEN <<x>> ELSE <<>>
  BY OnlyOfOne
<1> QED BY <1>1, <1>2 DEF HowOften

\* The real-time signals of two sequences.
LEMMA RealTimeBoth ==
  ASSUME NEW q \in Seq(Signal), NEW r \in Seq(Signal)
  PROVE  /\ RealTime(q) \in Seq(Signal) /\ RealTime(q \o r) = RealTime(q) \o RealTime(r)
         /\ <<>> \o RealTime(q) = RealTime(q) /\ RealTime(q) \o <<>> = RealTime(q)
<1>1. RealTime(q) \in Seq(Signal)
  BY OnlyTyped DEF RealTime
<1>2. RealTime(q \o r) = RealTime(q) \o RealTime(r)
  BY OnlyOfBoth DEF RealTime
<1> QED BY <1>1, <1>2, ConcatEmptySeq

\* The standard signals first, then the others: nothing is lost.
LEMMA Divided ==
  ASSUME NEW q \in Seq(Signal)
  PROVE  /\ RealTime(Only(Standard, q)) = <<>> /\ RealTime(Only(RealTimes, q)) = RealTime(q)
         /\ \A n \in Standard : HowOften(n, Only(Standard, q)) = HowOften(n, q)
                                /\ HowOften(n, Only(RealTimes, q)) = 0
         /\ \A n \in RealTimes : HowOften(n, Only(Standard, q)) = 0
                                /\ HowOften(n, Only(RealTimes, q)) = HowOften(n, q)
<1>1. Only({}, q) = <<>>
  BY OnlyHas
<1>2. RealTimes \cap Standard = {} /\ RealTimes \cap RealTimes = RealTimes
  BY Numbers
<1>3. \A n \in Standard : {n} \cap Standard = {n} /\ {n} \cap RealTimes = {}
  BY Numbers
<1>4. \A n \in RealTimes : {n} \cap RealTimes = {n} /\ {n} \cap Standard = {}
  BY Numbers
<1>5. \A ns, ms : Only(ns, Only(ms, q)) = Only(ns \cap ms, q)
  BY OnlyTwice
<1>6. Len(<<>>) = 0
  OBVIOUS
<1> QED BY <1>1, <1>2, <1>3, <1>4, <1>5, <1>6 DEF RealTime, HowOften

\* What becomes pending when a signal is sent.
LEMMA QueuedMeans ==
  ASSUME NEW q \in Seq(Signal), NEW s \in Signal
  PROVE  /\ Queued(q, s) \in Seq(Signal)
         /\ RealTime(Queued(q, s)) = RealTime(q) \o RealTime(<<s>>)
         /\ \A n \in Standard : HowOften(n, Queued(q, s)) =
              IF s[1] = n /\ HowOften(n, q) = 0 THEN 1 ELSE HowOften(n, q)
         /\ s[1] \in RealTimes => Queued(q, s) = Append(q, s)
<1> DEFINE a == Only(Standard, q)  b == Only(RealTimes, q)
<1>0. s[1] \in Every /\ <<s>> \in Seq(Signal)
  BY OnlyOfOne DEF Signal
<1>1. a \in Seq(Signal) /\ b \in Seq(Signal)
  BY OnlyTyped
<1>2. Append(q, s) = q \o <<s>> /\ Append(a, s) = a \o <<s>>
  BY <1>1, AppendIsConcat
<1>3. \A n : HowOften(n, <<s>>) = IF s[1] = n THEN 1 ELSE 0
  BY HowOftenOne
<1>4. RealTime(<<s>>) = IF s[1] \in RealTimes THEN <<s>> ELSE <<>>
  BY OnlyOfOne DEF RealTime
<1>5. RealTime(q) \in Seq(Signal) /\ RealTime(q) \o <<>> = RealTime(q) /\ <<>> \o RealTime(q) = RealTime(q)
  BY OnlyTyped, ConcatEmptySeq DEF RealTime
<1>6. \A n : HowOften(n, q) \in Nat
  BY HowOftenBoth
<1>7. CASE s[1] \in RealTimes
  <2>1. Queued(q, s) = q \o <<s>>
    BY <1>2, <1>7, Numbers DEF Queued
  <2>2. RealTime(q \o <<s>>) = RealTime(q) \o RealTime(<<s>>)
    BY <1>0, RealTimeBoth
  <2>3. \A n : HowOften(n, q \o <<s>>) = HowOften(n, q) + HowOften(n, <<s>>)
    BY <1>0, HowOftenBoth
  <2>4. \A n \in Standard : n # s[1]
    BY <1>7, Numbers
  <2>5. q \o <<s>> \in Seq(Signal)
    BY <1>0, ConcatProperties
  <2> HIDE DEF a, b
  <2>6. \A n \in Standard : HowOften(n, q \o <<s>>) = HowOften(n, q) /\ s[1] # n
    BY <1>3, <1>6, <2>3, <2>4
  <2> QED BY <1>2, <2>1, <2>2, <2>5, <2>6
<1>8. CASE s[1] \in Standard /\ Has(q, s[1])
  <2>1. Queued(q, s) = q /\ s[1] \notin RealTimes
    BY <1>8, Numbers DEF Queued
  <2>2. \A n : HowOften(n, q) > 0 <=> Has(q, n)
    BY HowOftenBoth
  <2> QED BY <1>4, <1>5, <1>6, <1>8, <2>1, <2>2
<1>9. CASE s[1] \in Standard /\ ~Has(q, s[1])
  <2>1. Queued(q, s) = (a \o <<s>>) \o b /\ s[1] \notin RealTimes
    BY <1>2, <1>9, Numbers DEF Queued
  <2>2. a \o <<s>> \in Seq(Signal) /\ (a \o <<s>>) \o b \in Seq(Signal)
    BY <1>0, <1>1, ConcatProperties
  <2>3. RealTime((a \o <<s>>) \o b) = (RealTime(a) \o RealTime(<<s>>)) \o RealTime(b)
    <3> HIDE DEF a, b
    <3>1. RealTime((a \o <<s>>) \o b) = RealTime(a \o <<s>>) \o RealTime(b)
      BY <1>1, <2>2, RealTimeBoth
    <3>2. RealTime(a \o <<s>>) = RealTime(a) \o RealTime(<<s>>)
      BY <1>0, <1>1, RealTimeBoth
    <3> QED BY <3>1, <3>2
  <2>4. RealTime(a) = <<>> /\ RealTime(b) = RealTime(q) /\ RealTime(<<s>>) = <<>>
    BY <1>4, <2>1, Divided
  <2>5. RealTime((a \o <<s>>) \o b) = RealTime(q)
    <3>1. <<>> \o <<>> = <<>>
      OBVIOUS
    <3> HIDE DEF a, b
    <3> QED BY <2>3, <2>4, <1>5, <3>1
  <2>6. ASSUME NEW n \in Standard
        PROVE  HowOften(n, (a \o <<s>>) \o b) = IF s[1] = n THEN 1 ELSE HowOften(n, q)
    <3>1. HowOften(n, (a \o <<s>>) \o b) = (HowOften(n, a) + HowOften(n, <<s>>)) + HowOften(n, b)
      BY <1>0, <1>1, <2>2, HowOftenBoth
    <3>2. HowOften(n, a) = HowOften(n, q) /\ HowOften(n, b) = 0
      BY Divided
    <3>3. s[1] = n => HowOften(n, q) = 0
      BY <1>6, <1>9, HowOftenBoth
    <3> HIDE DEF a, b
    <3> QED BY <1>3, <1>6, <3>1, <3>2, <3>3
  <2>7. \A n \in Standard : s[1] = n => HowOften(n, q) = 0
    BY <1>6, <1>9, HowOftenBoth
  <2>8. RealTime(q) \o RealTime(<<s>>) = RealTime(q)
    BY <1>5, <2>4
  <2> HIDE DEF a, b
  <2> QED BY <2>1, <2>2, <2>5, <2>6, <2>7, <2>8
<1>10. s[1] \in Standard \/ s[1] \in RealTimes
  BY <1>0, Numbers
<1> QED BY <1>7, <1>8, <1>9, <1>10

\* What is passed on is neither lost nor doubled.
LEMMA Passed ==
  ASSUME NEW o \in Seq(Signal), NEW q \in Seq(Signal), q # <<>>
  PROVE  /\ Head(q) \in Signal /\ Tail(q) \in Seq(Signal) /\ Append(o, Head(q)) \in Seq(Signal)
         /\ RealTime(Append(o, Head(q))) \o RealTime(Tail(q)) = RealTime(o) \o RealTime(q)
         /\ HowOften(USR, Append(o, Head(q))) + HowOften(USR, Tail(q)) =
              HowOften(USR, o) + HowOften(USR, q)
         /\ Head(q)[1] = INT => /\ RealTime(Tail(q)) = RealTime(q)
                                /\ HowOften(USR, Tail(q)) = HowOften(USR, q)
<1> DEFINE x == Head(q)  t == Tail(q)
<1>1. x \in Signal /\ t \in Seq(Signal) /\ Append(o, x) \in Seq(Signal)
      /\ Append(o, x) \o t = o \o q
  BY MoveHead
<1>2. q = <<x>> \o t /\ <<x>> \in Seq(Signal)
  <2>1. <<>> \in Seq(Signal) /\ Append(<<>>, x) = <<x>>
    OBVIOUS
  <2>2. Append(<<>>, x) \o t = <<>> \o q
    BY <2>1, MoveHead
  <2>3. <<>> \o q = q
    BY ConcatEmptySeq
  <2> QED BY <1>1, <2>1, <2>2, <2>3, OnlyOfOne
<1> HIDE DEF x, t
<1>3. RealTime(Append(o, x)) \o RealTime(t) = RealTime(o) \o RealTime(q)
  <2>1. RealTime(Append(o, x) \o t) = RealTime(Append(o, x)) \o RealTime(t)
    BY <1>1, RealTimeBoth
  <2>2. RealTime(o \o q) = RealTime(o) \o RealTime(q)
    BY RealTimeBoth
  <2> QED BY <1>1, <2>1, <2>2
<1>4. HowOften(USR, Append(o, x)) + HowOften(USR, t) = HowOften(USR, o) + HowOften(USR, q)
  <2>1. HowOften(USR, Append(o, x) \o t) = HowOften(USR, Append(o, x)) + HowOften(USR, t)
    BY <1>1, HowOftenBoth
  <2>2. HowOften(USR, o \o q) = HowOften(USR, o) + HowOften(USR, q)
    BY HowOftenBoth
  <2> QED BY <1>1, <2>1, <2>2
<1>5. ASSUME x[1] = INT
      PROVE  RealTime(t) = RealTime(q) /\ HowOften(USR, t) = HowOften(USR, q)
  <2>1. RealTime(q) = RealTime(<<x>>) \o RealTime(t)
    BY <1>1, <1>2, RealTimeBoth
  <2>2. INT \notin RealTimes /\ INT # USR
    BY DEF INT, USR, RealTimes, RTMIN
  <2>3. RealTime(<<x>>) = <<>>
    BY <1>1, <1>5, <2>2, OnlyOfOne DEF RealTime
  <2>4. HowOften(USR, q) = HowOften(USR, <<x>>) + HowOften(USR, t)
    BY <1>1, <1>2, HowOftenBoth
  <2>5. HowOften(USR, <<x>>) = 0 /\ HowOften(USR, t) \in Nat
    BY <1>1, <1>5, <2>2, HowOftenOne, HowOftenBoth
  <2>6. <<>> \o RealTime(t) = RealTime(t)
    BY <1>1, RealTimeBoth
  <2>7. RealTime(t) = RealTime(q)
    BY <2>1, <2>3, <2>6
  <2>8. HowOften(USR, t) = HowOften(USR, q)
    BY <2>4, <2>5
  <2> QED BY <2>7, <2>8
<1> QED BY <1>1, <1>3, <1>4, <1>5 DEF x, t

\* A signal taken out of the middle of the queue.
LEMMA TakenOut ==
  ASSUME NEW q \in Seq(Signal), NEW i \in 1..Len(q)
  PROVE  /\ q[i] \in Signal /\ Without(q, i) \in Seq(Signal)
         /\ Without(q, 1) = Tail(q) /\ q[1] = Head(q) /\ q # <<>>
         /\ q[i][1] = INT => /\ RealTime(Without(q, i)) = RealTime(q)
                             /\ HowOften(USR, Without(q, i)) = HowOften(USR, q)
         /\ \A n : /\ Has(q, n) <=> Has(Without(q, i), n) \/ q[i][1] = n
                   /\ HowOften(n, q) = HowOften(n, Without(q, i)) + (IF q[i][1] = n THEN 1 ELSE 0)
<1> DEFINE a == SubSeq(q, 1, i - 1)  r == SubSeq(q, i, Len(q))  b == SubSeq(q, i + 1, Len(q))
<1>1. i - 1 \in 0..Len(q) /\ (i - 1) + 1 = i /\ i \in 0..Len(q) /\ Len(q) \in Nat \ {0} /\ i \in Nat
      /\ 1 \in 1..Len(q)
  BY LenProperties
<1>2. a \in Seq(Signal) /\ r \in Seq(Signal) /\ a \o r = q
  BY <1>1, SplitAt
<1>3. q[i] \in Signal /\ b \in Seq(Signal)
  BY <1>1, SplitAt, ElementOfSeq
<1>4. r = <<q[i]>> \o b
  BY <1>1
<1>5. Without(q, i) = a \o b
  BY DEF Without
<1>6. Without(q, 1) = Tail(q) /\ q[1] = Head(q) /\ q # <<>>
  <2>1. q # <<>>
    BY <1>1, EmptySeq
  <2>2. SubSeq(q, 1, 0) = <<>> /\ SubSeq(q, 2, Len(q)) = Tail(q)
    OBVIOUS
  <2>3. Tail(q) \in Seq(Signal)
    BY <2>1, HeadTailProperties
  <2>4. <<>> \o Tail(q) = Tail(q)
    BY <2>3, ConcatEmptySeq
  <2> QED BY <2>1, <2>2, <2>4 DEF Without
<1> HIDE DEF a, b, r
<1>7. <<q[i]>> \in Seq(Signal) /\ a \o b \in Seq(Signal)
  BY <1>2, <1>3, OnlyOfOne, ConcatProperties
<1>8. \A n : /\ HowOften(n, q) = HowOften(n, a) + (HowOften(n, <<q[i]>>) + HowOften(n, b))
             /\ HowOften(n, a \o b) = HowOften(n, a) + HowOften(n, b)
             /\ HowOften(n, a) \in Nat /\ HowOften(n, b) \in Nat
             /\ HowOften(n, <<q[i]>>) = IF q[i][1] = n THEN 1 ELSE 0
  <2> SUFFICES ASSUME NEW n
               PROVE  /\ HowOften(n, q) = HowOften(n, a) + (HowOften(n, <<q[i]>>) + HowOften(n, b))
                      /\ HowOften(n, a \o b) = HowOften(n, a) + HowOften(n, b)
                      /\ HowOften(n, a) \in Nat /\ HowOften(n, b) \in Nat
                      /\ HowOften(n, <<q[i]>>) = IF q[i][1] = n THEN 1 ELSE 0
    OBVIOUS
  <2>1. HowOften(n, q) = HowOften(n, a) + HowOften(n, r)
    BY <1>2, HowOftenBoth
  <2>2. HowOften(n, r) = HowOften(n, <<q[i]>>) + HowOften(n, b)
    BY <1>3, <1>4, <1>7, HowOftenBoth
  <2>3. HowOften(n, a \o b) = HowOften(n, a) + HowOften(n, b)
        /\ HowOften(n, a) \in Nat /\ HowOften(n, b) \in Nat
    BY <1>2, <1>3, HowOftenBoth
  <2>4. HowOften(n, <<q[i]>>) = IF q[i][1] = n THEN 1 ELSE 0
    BY <1>3, HowOftenOne
  <2> QED BY <2>1, <2>2, <2>3, <2>4
<1>9. \A n : Has(q, n) <=> Has(Without(q, i), n) \/ q[i][1] = n
  <2> SUFFICES ASSUME NEW n
               PROVE  Has(q, n) <=> Has(Without(q, i), n) \/ q[i][1] = n
    OBVIOUS
  <2>1. (Has(q, n) <=> HowOften(n, q) > 0) /\ (Has(a \o b, n) <=> HowOften(n, a \o b) > 0)
    BY <1>7, HowOftenBoth
  <2> QED BY <1>5, <1>8, <2>1
<1>10. ASSUME q[i][1] = INT
       PROVE  RealTime(Without(q, i)) = RealTime(q) /\ HowOften(USR, Without(q, i)) = HowOften(USR, q)
  <2>1. INT \notin RealTimes /\ INT # USR
    BY DEF INT, USR, RealTimes, RTMIN
  <2>2. RealTime(<<q[i]>>) = <<>>
    BY <1>3, <1>10, <2>1, OnlyOfOne DEF RealTime
  <2>3. RealTime(q) = RealTime(a) \o (RealTime(<<q[i]>>) \o RealTime(b))
    <3>1. RealTime(q) = RealTime(a) \o RealTime(r)
      BY <1>2, RealTimeBoth
    <3>2. RealTime(r) = RealTime(<<q[i]>>) \o RealTime(b)
      BY <1>3, <1>4, <1>7, RealTimeBoth
    <3> QED BY <3>1, <3>2
  <2>4. RealTime(a \o b) = RealTime(a) \o RealTime(b) /\ <<>> \o RealTime(b) = RealTime(b)
    BY <1>2, <1>3, RealTimeBoth
  <2>5. HowOften(USR, a \o b) = HowOften(USR, q)
    BY <1>8, <1>10, <2>1
  <2> QED BY <1>5, <2>2, <2>3, <2>4, <2>5
<1>11. \A n : HowOften(n, q) = HowOften(n, Without(q, i)) + (IF q[i][1] = n THEN 1 ELSE 0)
  <2>1. \A k, m, d \in Nat : k + (d + m) = (k + m) + d
    OBVIOUS
  <2>2. \A n : HowOften(n, <<q[i]>>) \in Nat
    BY <1>8
  <2> QED BY <1>5, <1>8, <2>1, <2>2
<1> QED BY <1>3, <1>5, <1>6, <1>7, <1>9, <1>10, <1>11

\* What sig_sender.c sends.
LEMMA SentOneMore ==
  ASSUME SignalsFit, NEW n \in Nat, n < Len(Sent)
  PROVE  /\ Sent[n + 1] \in Signal /\ SubSeq(Sent, 1, n) \in Seq(Signal)
         /\ SubSeq(Sent, 1, n + 1) = Append(SubSeq(Sent, 1, n), Sent[n + 1])
         /\ SubSeq(Sent, 1, n + 1) = SubSeq(Sent, 1, n) \o <<Sent[n + 1]>>
<1>1. Sent \in Seq(Signal) /\ Len(Sent) \in Nat
  BY DEF SignalsFit
<1>2. n + 1 \in 1..Len(Sent) /\ n \in 0..Len(Sent)
  BY <1>1
<1>3. Sent[n + 1] \in Signal
  BY <1>1, <1>2, ElementOfSeq
<1>4. SubSeq(Sent, 1, n) \in Seq(Signal)
  BY <1>1, <1>2, SplitAt
<1>5. SubSeq(Sent, 1, n + 1) = Append(SubSeq(Sent, 1, n), Sent[n + 1])
  BY <1>1, <1>2
<1>6. Append(SubSeq(Sent, 1, n), Sent[n + 1]) = SubSeq(Sent, 1, n) \o <<Sent[n + 1]>>
  BY <1>3, <1>4, AppendIsConcat
<1> QED BY <1>3, <1>4, <1>5, <1>6

\* Before the first signal is sent.
LEMMA NothingSent == SubSeq(Sent, 1, 0) = <<>>
OBVIOUS

\* The mask and the queue at the time a handler runs.
LEMMA FirstIsThere ==
  ASSUME SignalsTyped, Deliverable # {}
  PROVE  /\ FirstOf \in 1..Len(pend["parent"]) /\ pend["parent"][FirstOf][1] \notin mask
         /\ mask = {} => FirstOf = 1
<1>1. Deliverable \subseteq Nat
  BY DEF Deliverable
<1>2. PICK m \in Deliverable : \A k \in Deliverable : m <= k
  BY <1>1, LeastNatural
<1>3. FirstOf \in Deliverable /\ \A k \in Deliverable : FirstOf <= k
  BY <1>2 DEF FirstOf
<1>4. FirstOf \in 1..Len(pend["parent"]) /\ pend["parent"][FirstOf][1] \notin mask
  BY <1>3 DEF Deliverable
<1>5. ASSUME mask = {} PROVE FirstOf = 1
  <2>1. 1 \in 1..Len(pend["parent"])
    BY <1>4
  <2>2. 1 \in Deliverable
    BY <1>5, <2>1 DEF Deliverable
  <2>3. FirstOf <= 1
    BY <1>3, <2>2
  <2> QED BY <2>3, <1>4
<1> QED BY <1>4, <1>5

\* The queues stay queues of signals.
LEMMA KillTyped ==
  ASSUME SignalsTyped, NEW p \in Procs, NEW s \in Signal, Kill(p, s)
  PROVE  pend' \in [Procs -> Seq(Signal)] /\ pend'[p] = Queued(pend[p], s)
         /\ \A q \in Procs \ {p} : pend'[q] = pend[q]
<1>1. pend \in [Procs -> Seq(Signal)]
  BY DEF SignalsTyped
<1>2. Queued(pend[p], s) \in Seq(Signal)
  BY <1>1, QueuedMeans
<1> QED BY <1>1, <1>2 DEF Kill

\* What raise and kill send is a signal.
LEMMA RaisesTyped == <<USR, 0>> \in Signal
BY DEF Signal, Every

\* The state stays of its type.
LEMMA SignalsTypeStep ==
  ASSUME SignalsFit, SignalsTyped, [Next]_vars
  PROVE  SignalsTyped'
<1>0. /\ pend \in [Procs -> Seq(Signal)] /\ "parent" \in Procs /\ "child" \in Procs
      /\ <<>> \in Seq(Signal) /\ {} \subseteq Every /\ {USR} \subseteq Every
  BY DEF SignalsTyped, Procs, Every
<1>a. \A t : t \in Handled \cup Fetched => /\ t \notin PingPong /\ t # "imp_abort"
                                         /\ t # "confirm_nodefer" /\ t # "use_sigaction"
  BY DEF Handled, Fetched, PingPong
<1>1. ASSUME NEW p \in Procs, KillPeer(p)
      PROVE  SignalsTyped'
  <2>1. Peer(p) \in Procs /\ tool \in PingPong
    BY <1>1 DEF Peer, Procs, KillPeer, NextIs
  <2>2. pend' \in [Procs -> Seq(Signal)]
    BY <1>1, <2>1, KillTyped, RaisesTyped DEF KillPeer
  <2>3. step' \in [Procs -> Nat]
    BY <1>1 DEF KillPeer, Advance, SignalsTyped
  <2> QED BY <1>1, <1>a, <2>1, <2>2, <2>3 DEF SignalsTyped, KillPeer
<1>2. ASSUME NEW p \in Procs, WaitPeer(p)
      PROVE  SignalsTyped'
  <2>1. Tail(pend[p]) \in Seq(Signal) /\ tool \in PingPong
    BY <1>0, <1>2, HeadTailProperties DEF WaitPeer, NextIs
  <2>2. pend' \in [Procs -> Seq(Signal)]
    BY <1>0, <1>2, <2>1 DEF WaitPeer
  <2>3. step' \in [Procs -> Nat]
    BY <1>2 DEF WaitPeer, Advance, SignalsTyped
  <2> QED BY <1>2, <1>a, <2>1, <2>2, <2>3 DEF SignalsTyped, WaitPeer
<1>3. CASE Sender
  <2>1. step["child"] \in Nat /\ step["child"] < Len(Sent) /\ tool \in Handled \cup Fetched
    BY <1>0, <1>3 DEF Sender, SignalsTyped
  <2>2. Sent[step["child"] + 1] \in Signal
    BY <2>1, SentOneMore
  <2>3. pend' = pend \/ Kill("parent", Sent[step["child"] + 1])
    BY <1>3 DEF Sender
  <2>4. pend' \in [Procs -> Seq(Signal)]
    BY <1>0, <2>2, <2>3, KillTyped
  <2>5. step' \in [Procs -> Nat] /\ step'["child"] = step["child"] + 1
    BY <1>0, <1>3 DEF Sender, Advance, SignalsTyped
  <2>6. step'["child"] <= Len(Sent)
    <3>1. Len(Sent) \in Nat
      BY DEF SignalsFit
    <3> QED BY <2>1, <2>5, <3>1
  <2> QED BY <1>3, <2>1, <2>4, <2>5, <2>6 DEF Sender, SignalsTyped
<1>4. CASE Handler
  <2>1. FirstOf \in 1..Len(pend["parent"])
    BY <1>4, FirstIsThere DEF Handler
  <2>2. pend["parent"][FirstOf] \in Signal /\ Without(pend["parent"], FirstOf) \in Seq(Signal)
    BY <1>0, <2>1, TakenOut
  <2>3. pend' \in [Procs -> Seq(Signal)]
    BY <1>0, <1>4, <2>2 DEF Handler
  <2>4. /\ out \in Seq(Signal) /\ mess \in Seq(Signal)
        /\ Append(out, pend["parent"][FirstOf]) \in Seq(Signal)
        /\ Append(mess, pend["parent"][FirstOf]) \in Seq(Signal)
    BY <1>4, <2>2 DEF Handler, Places, SignalsTyped
  <2>5. mess' \in Seq(Signal) /\ out' \in Seq(Signal)
    BY <1>4, <2>4 DEF Handler
  <2>6. pc' \in [Procs -> Places]
    BY <1>4 DEF Handler, Places, SignalsTyped
  <2> QED BY <1>4, <2>3, <2>5, <2>6 DEF SignalsTyped, Handler
<1>5. CASE Unblock
  BY <1>0, <1>5 DEF Unblock, Go, Places, SignalsTyped
<1>6. CASE TestDone
  BY <1>6 DEF TestDone, Go, Places, SignalsTyped
<1>7. CASE EstablishHandlers
  BY <1>7 DEF EstablishHandlers, Go, Places, At, SignalsTyped
<1>8. CASE Fetch
  <2>1. /\ Head(pend["parent"]) \in Signal /\ Tail(pend["parent"]) \in Seq(Signal)
        /\ Append(out, Head(pend["parent"])) \in Seq(Signal)
    BY <1>0, <1>8, Passed DEF Fetch, SignalsTyped
  <2>2. pend' \in [Procs -> Seq(Signal)] /\ out' \in Seq(Signal) /\ pc' \in [Procs -> Places]
    BY <1>0, <1>8, <2>1 DEF Fetch, Go, Places, SignalsTyped
  <2> QED BY <1>8, <2>2 DEF SignalsTyped, Fetch
<1>9. CASE Messaging
  <2>1. tool \in Handled
    BY <1>9 DEF Messaging, Handled
  <2>2. out \in Seq(Signal) /\ mess \in Seq(Signal) /\ out \o mess \in Seq(Signal)
    BY <2>1, ConcatProperties DEF SignalsTyped
  <2>3. out' \in Seq(Signal) /\ mess' \in Seq(Signal) /\ pc' \in [Procs -> Places]
    BY <1>0, <1>9, <2>2 DEF Messaging, Go, Places, SignalsTyped
  <2> QED BY <1>9, <2>3 DEF SignalsTyped, Messaging
<1>10. CASE Suspend
  <2>1. tool \in Handled
    BY <1>10 DEF Suspend, Handled
  <2>2. out \in Seq(Signal) /\ mess \in Seq(Signal) /\ out \o mess \in Seq(Signal)
    BY <2>1, ConcatProperties DEF SignalsTyped
  <2>3. /\ out' \in Seq(Signal) /\ mess' \in Seq(Signal) /\ pc' \in [Procs -> Places]
        /\ mask' \subseteq Every
    BY <1>0, <1>10, <2>2 DEF Suspend, Go, Places, SignalsTyped
  <2> QED BY <1>10, <2>3 DEF SignalsTyped, Suspend
<1>11. CASE ImpAbort
  <2>1. pc' \in [Procs -> Places] /\ mask' \subseteq Every /\ pend' = pend
    BY <1>0, <1>11 DEF ImpAbort, Go, Places, SignalsTyped
  <2> QED BY <1>a, <1>11, <2>1 DEF ImpAbort, SignalsTyped
<1>12. CASE RaiseMain
  <2>1. pend' \in [Procs -> Seq(Signal)]
    BY <1>0, <1>12, KillTyped, RaisesTyped DEF RaiseMain
  <2>2. pc' \in [Procs -> Places] /\ step' \in [Procs -> Nat]
    <3>1. pc' = pc \/ Go("nodefer")
      BY <1>12 DEF RaiseMain
    <3>2. step' = step \/ Advance("parent")
      BY <1>12 DEF RaiseMain
    <3>3. pc' \in [Procs -> Places]
      BY <1>0, <3>1 DEF Go, Places, SignalsTyped
    <3>4. step' \in [Procs -> Nat]
      BY <1>0, <3>2 DEF Advance, SignalsTyped
    <3> QED BY <3>3, <3>4
  <2> QED BY <1>a, <1>12, <2>1, <2>2 DEF RaiseMain, SignalsTyped
<1>13. CASE EnterHandler
  BY <1>0, <1>a, <1>13 DEF EnterHandler, SignalsTyped
<1>14. CASE InHandler
  <2>1. pend' \in [Procs -> Seq(Signal)]
    BY <1>0, <1>14, KillTyped, RaisesTyped DEF InHandler
  <2>2. mask' \subseteq Every
    BY <1>0, <1>14 DEF InHandler, SignalsTyped
  <2> QED BY <1>a, <1>14, <2>1, <2>2 DEF InHandler, SignalsTyped
<1>15. CASE UNCHANGED vars
  BY <1>15 DEF vars, SignalsTyped
<1> QED BY <1>1, <1>2, <1>3, <1>4, <1>5, <1>6, <1>7, <1>8, <1>9, <1>10, <1>11, <1>12, <1>13,
  <1>14, <1>15 DEF Next, Peers, Main, Deliver

\* A signal sent to one who has none pending, and waited for by one who has.
LEMMA SignalGiven ==
  ASSUME SignalsTyped, NEW p \in Procs, NEW c, NEW d, Turn(c, d, "nobody"), KillPeer(p)
  PROVE  /\ NextIs(p, "kill")
         /\ Turn(IF p = "child" THEN c + 1 ELSE c, IF p = "child" THEN d ELSE d + 1, Peer(p))'
<1>1. pend = [q \in Procs |-> <<>>]
  BY DEF Turn, Procs
<1>2. Queued(<<>>, <<USR, 0>>) = <<<<USR, 0>>>>
  <2>1. ~Has(<<>>, USR) /\ Append(<<>>, <<USR, 0>>) = <<<<USR, 0>>>>
        /\ <<<<USR, 0>>>> \o <<>> = <<<<USR, 0>>>>
    BY DEF Has
  <2>2. <<USR, 0>>[1] = USR
    OBVIOUS
  <2> QED BY <2>1, <2>2, OnlyOfNone, Numbers DEF Queued
<1>3. Peer(p) \in Procs
  BY DEF Peer, Procs
<1>4. pend' = [q \in Procs |-> IF q = Peer(p) THEN <<<<USR, 0>>>> ELSE <<>>]
  BY <1>1, <1>2, <1>3 DEF KillPeer, Kill
<1>5. /\ step'["child"] = IF p = "child" THEN c + 1 ELSE c
      /\ step'["parent"] = IF p = "child" THEN d ELSE d + 1
  BY DEF KillPeer, Advance, SignalsTyped, Procs, Turn
<1> QED BY <1>4, <1>5 DEF Turn, KillPeer

\* A signal is taken by the process that waits for it.
LEMMA SignalTaken ==
  ASSUME SignalsTyped, NEW p \in Procs, NEW to, NEW c, NEW d, Turn(c, d, to), WaitPeer(p)
  PROVE  /\ NextIs(p, "wait") /\ p = to
         /\ Turn(IF p = "child" THEN c + 1 ELSE c, IF p = "child" THEN d ELSE d + 1, "nobody")'
<1>1. pend = [q \in Procs |-> IF q = to THEN <<<<USR, 0>>>> ELSE <<>>]
  BY DEF Turn
<1>2. p = to
  BY <1>1 DEF WaitPeer
<1>3. Tail(<<<<USR, 0>>>>) = <<>>
  OBVIOUS
<1>4. pend' = [q \in Procs |-> IF q = "nobody" THEN <<<<USR, 0>>>> ELSE <<>>]
  BY <1>1, <1>2, <1>3 DEF WaitPeer, Procs
<1>5. /\ step'["child"] = IF p = "child" THEN c + 1 ELSE c
      /\ step'["parent"] = IF p = "child" THEN d ELSE d + 1
  BY DEF WaitPeer, Advance, SignalsTyped, Procs, Turn
<1> QED BY <1>2, <1>4, <1>5 DEF Turn, WaitPeer

\* Each process has but one thing to do next, in its turn.
LEMMA RoundsAlternate ==
  ASSUME SignalsFit, NEW p \in Procs, tool \in {"sig_speed_sigwaitinfo", "sig_speed_sigsuspend"}
  PROVE  /\ Len(Script(p)) = 2 * Rounds /\ Rounds \in Nat /\ tool \in PingPong
         /\ \A k \in 0..2 * Rounds - 1 :
              Script(p)[k + 1] = IF (k + 1) % 2 = (IF p = "child" THEN 1 ELSE 0) THEN "kill" ELSE "wait"
<1>1. Rounds \in Nat
  BY DEF SignalsFit
<1>2. Script(p) = [i \in 1..2 * Rounds |->
                     IF i % 2 = (IF p = "child" THEN 1 ELSE 0) THEN "kill" ELSE "wait"]
  BY DEF Script
<1> HIDE DEF Script
<1>3. 2 * Rounds \in Nat /\ \A k \in 0..2 * Rounds - 1 : k + 1 \in 1..2 * Rounds
  BY <1>1
<1>4. Len(Script(p)) = 2 * Rounds
  BY <1>2, <1>3
<1>5. tool \in PingPong
  BY DEF PingPong
<1>6. \A k \in 0..2 * Rounds - 1 :
        Script(p)[k + 1] = IF (k + 1) % 2 = (IF p = "child" THEN 1 ELSE 0) THEN "kill" ELSE "wait"
  BY <1>2, <1>3
<1> QED BY <1>1, <1>4, <1>5, <1>6

\* What is next in a program with rounds, by the parity of the step.
LEMMA NextInRounds ==
  ASSUME SignalsFit, NEW p \in Procs, NEW what, SignalsTyped,
         tool \in {"sig_speed_sigwaitinfo", "sig_speed_sigsuspend"}
  PROVE  /\ NextIs(p, "kill") => (step[p] + 1) % 2 = (IF p = "child" THEN 1 ELSE 0)
         /\ NextIs(p, "wait") => (step[p] + 1) % 2 # (IF p = "child" THEN 1 ELSE 0)
         /\ NextIs(p, what) => step[p] < 2 * Rounds
<1>1. step[p] \in Nat /\ Rounds \in Nat
  BY RoundsAlternate DEF SignalsTyped
<1>2. NextIs(p, what) => step[p] < 2 * Rounds
  BY RoundsAlternate DEF NextIs
<1>3. ASSUME NEW w, NextIs(p, w)
      PROVE  /\ Script(p)[step[p] + 1] = w
             /\ w = IF (step[p] + 1) % 2 = (IF p = "child" THEN 1 ELSE 0) THEN "kill" ELSE "wait"
  <2>1. step[p] \in 0..2 * Rounds - 1
    BY <1>1, <1>3, RoundsAlternate DEF NextIs
  <2> QED BY <1>3, <2>1, RoundsAlternate DEF NextIs
<1> QED BY <1>2, <1>3

\* The other programs of the kind are as short as that.
LEMMA NextInOthers ==
  ASSUME SignalsTyped, NEW what
  PROVE  /\ tool = "fork_sig_sync" =>
              /\ NextIs("child", what) <=> step["child"] = 0 /\ what = "kill"
              /\ NextIs("parent", what) <=> step["parent"] = 0 /\ what = "wait"
              /\ Len(Script("child")) = 1 /\ Len(Script("parent")) = 1
         /\ tool = "double_wait" =>
              /\ NextIs("child", what) <=> \/ step["child"] = 0 /\ what = "wait"
                                           \/ step["child"] = 1 /\ what = "kill"
              /\ NextIs("parent", what) <=> \/ step["parent"] = 0 /\ what = "kill"
                                            \/ step["parent"] = 1 /\ what = "wait"
              /\ Len(Script("child")) = 2 /\ Len(Script("parent")) = 2
<1>1. step["child"] \in Nat /\ step["parent"] \in Nat
  BY DEF SignalsTyped, Procs
<1>2. ASSUME tool = "fork_sig_sync"
      PROVE  /\ NextIs("child", what) <=> step["child"] = 0 /\ what = "kill"
             /\ NextIs("parent", what) <=> step["parent"] = 0 /\ what = "wait"
             /\ Len(Script("child")) = 1 /\ Len(Script("parent")) = 1
  <2>1. Script("child") = <<"kill">> /\ Script("parent") = <<"wait">> /\ tool \in PingPong
    BY <1>2 DEF Script, PingPong
  <2>2. /\ Len(<<"kill">>) = 1 /\ Len(<<"wait">>) = 1
        /\ <<"kill">>[1] = "kill" /\ <<"wait">>[1] = "wait"
    OBVIOUS
  <2>3. \A k \in Nat : k < 1 <=> k = 0
    OBVIOUS
  <2> QED BY <1>1, <2>1, <2>2, <2>3 DEF NextIs
<1>3. ASSUME tool = "double_wait"
      PROVE  /\ NextIs("child", what) <=> \/ step["child"] = 0 /\ what = "wait"
                                          \/ step["child"] = 1 /\ what = "kill"
             /\ NextIs("parent", what) <=> \/ step["parent"] = 0 /\ what = "kill"
                                           \/ step["parent"] = 1 /\ what = "wait"
             /\ Len(Script("child")) = 2 /\ Len(Script("parent")) = 2
  <2>1. /\ Script("child") = <<"wait", "kill">> /\ Script("parent") = <<"kill", "wait">>
        /\ tool \in PingPong
    BY <1>3 DEF Script, PingPong
  <2>2. /\ Len(<<"wait", "kill">>) = 2 /\ Len(<<"kill", "wait">>) = 2
        /\ <<"wait", "kill">>[1] = "wait" /\ <<"wait", "kill">>[2] = "kill"
        /\ <<"kill", "wait">>[1] = "kill" /\ <<"kill", "wait">>[2] = "wait"
    OBVIOUS
  <2>3. NextIs("child", what) <=> \/ step["child"] = 0 /\ what = "wait"
                                  \/ step["child"] = 1 /\ what = "kill"
    <3>1. step["child"] < 2 <=> step["child"] = 0 \/ step["child"] = 1
      BY <1>1
    <3>2. NextIs("child", what) <=> step["child"] < 2 /\ Script("child")[step["child"] + 1] = what
      BY <2>1, <2>2 DEF NextIs
    <3>3. CASE step["child"] = 0
      BY <2>1, <2>2, <3>1, <3>2, <3>3
    <3>4. CASE step["child"] = 1
      BY <2>1, <2>2, <3>1, <3>2, <3>4
    <3> QED BY <3>1, <3>2, <3>3, <3>4
  <2>4. NextIs("parent", what) <=> \/ step["parent"] = 0 /\ what = "kill"
                                   \/ step["parent"] = 1 /\ what = "wait"
    <3>1. step["parent"] < 2 <=> step["parent"] = 0 \/ step["parent"] = 1
      BY <1>1
    <3>2. NextIs("parent", what) <=> step["parent"] < 2 /\ Script("parent")[step["parent"] + 1] = what
      BY <2>1, <2>2 DEF NextIs
    <3>3. CASE step["parent"] = 0
      BY <2>1, <2>2, <3>1, <3>2, <3>3
    <3>4. CASE step["parent"] = 1
      BY <2>1, <2>2, <3>1, <3>2, <3>4
    <3> QED BY <3>1, <3>2, <3>3, <3>4
  <2>5. Len(Script("child")) = 2 /\ Len(Script("parent")) = 2
    BY <2>1, <2>2
  <2> QED BY <2>3, <2>4, <2>5
<1> QED BY <1>2, <1>3

\* A step of one of these programs is one of KillPeer or WaitPeer.
LEMMA PeersOnly ==
  ASSUME tool \in PingPong, [Next]_vars
  PROVE  \/ \E p \in Procs : KillPeer(p) \/ WaitPeer(p)
         \/ UNCHANGED <<tool, pend, step>>
BY DEF Next, Peers, Sender, Main, Deliver, Handler, EnterHandler, Unblock, TestDone,
  EstablishHandlers, At, Fetch, Messaging, Suspend, ImpAbort, RaiseMain, InHandler, vars,
  PingPong, Handled, Fetched

\* The turns of sig_speed_sigwaitinfo.c and sig_speed_sigsuspend.c.
Rounded(n) == \/ Turn(n, n, "nobody")
              \/ n < 2 * Rounds /\ n % 2 = 0 /\ Turn(n + 1, n, "parent")
              \/ n < 2 * Rounds /\ n % 2 = 1 /\ Turn(n, n + 1, "child")

\* A step of a program with rounds: the one whose turn it is sends, or the other takes it.
LEMMA RoundsStep ==
  ASSUME SignalsFit, SignalsTyped, NEW n \in 0..2 * Rounds, Rounded(n), NEW p \in Procs,
         tool \in {"sig_speed_sigwaitinfo", "sig_speed_sigsuspend"}, KillPeer(p) \/ WaitPeer(p)
  PROVE  \E m \in 0..2 * Rounds : Rounded(m)'
<1>1. Rounds \in Nat /\ n \in Nat /\ (p = "child" \/ p = "parent") /\ "nobody" \notin Procs
  BY RoundsAlternate DEF Procs
<1>2. /\ NextIs(p, "kill") =>
           (step[p] + 1) % 2 = (IF p = "child" THEN 1 ELSE 0) /\ step[p] < 2 * Rounds
      /\ NextIs(p, "wait") =>
           (step[p] + 1) % 2 # (IF p = "child" THEN 1 ELSE 0) /\ step[p] < 2 * Rounds
  BY NextInRounds
<1>3. CASE Turn(n, n, "nobody")
  <2>1. CASE KillPeer(p)
    <3>1. NextIs(p, "kill") /\ step[p] = n
      BY <1>1, <1>3, <2>1 DEF KillPeer, Turn
    <3>2. Turn(IF p = "child" THEN n + 1 ELSE n, IF p = "child" THEN n ELSE n + 1, Peer(p))'
      BY <1>3, <2>1, SignalGiven
    <3>3. n < 2 * Rounds /\ (n + 1) % 2 = (IF p = "child" THEN 1 ELSE 0)
      BY <1>2, <3>1
    <3>4. Rounded(n)'
      <4>1. CASE p = "child"
        <5>1. n % 2 = 0 /\ Peer(p) = "parent"
          BY <1>1, <3>3, <4>1 DEF Peer
        <5> QED BY <3>2, <3>3, <4>1, <5>1 DEF Rounded
      <4>2. CASE p = "parent"
        <5>1. n % 2 = 1 /\ Peer(p) = "child"
          BY <1>1, <3>3, <4>2 DEF Peer
        <5> QED BY <3>2, <3>3, <4>2, <5>1 DEF Rounded
      <4> QED BY <1>1, <4>1, <4>2
    <3> QED BY <3>4
  <2>2. CASE WaitPeer(p)
    BY <1>1, <1>3, <2>2, SignalTaken
  <2> QED BY <2>1, <2>2
<1>4. CASE n < 2 * Rounds /\ n % 2 = 0 /\ Turn(n + 1, n, "parent")
  <2>1. CASE KillPeer(p)
    <3>1. NextIs(p, "kill") /\ step[p] = IF p = "child" THEN n + 1 ELSE n
      BY <1>1, <1>4, <2>1 DEF KillPeer, Turn
    <3>2. (step[p] + 1) % 2 = (IF p = "child" THEN 1 ELSE 0)
      BY <1>2, <3>1
    <3>3. (n + 1) % 2 = 1 /\ ((n + 1) + 1) % 2 = 0
      BY <1>1, <1>4
    <3> QED BY <1>1, <3>1, <3>2, <3>3
  <2>2. CASE WaitPeer(p)
    <3>1. p = "parent" /\ Turn(n + 1, n + 1, "nobody")'
      BY <1>4, <2>2, SignalTaken
    <3>2. n + 1 \in 0..2 * Rounds /\ Rounded(n + 1)'
      BY <1>1, <1>4, <3>1 DEF Rounded
    <3> QED BY <3>2
  <2> QED BY <2>1, <2>2
<1>5. CASE n < 2 * Rounds /\ n % 2 = 1 /\ Turn(n, n + 1, "child")
  <2>1. CASE KillPeer(p)
    BY <1>1, <1>2, <1>5, <2>1 DEF KillPeer, Turn
  <2>2. CASE WaitPeer(p)
    <3>1. p = "child" /\ Turn(n + 1, n + 1, "nobody")'
      BY <1>5, <2>2, SignalTaken
    <3>2. n + 1 \in 0..2 * Rounds /\ Rounded(n + 1)'
      BY <1>1, <1>5, <3>1 DEF Rounded
    <3> QED BY <3>2
  <2> QED BY <2>1, <2>2
<1> QED BY <1>3, <1>4, <1>5 DEF Rounded

\* All of these programs keep to their turns.
LEMMA TurnsStep ==
  ASSUME SignalsFit, SignalsTyped, TurnsInv, [Next]_vars
  PROVE  TurnsInv'
<1>0. tool' = tool
  BY DEF Next, Peers, Sender, Main, Deliver, Handler, EnterHandler, Unblock, TestDone,
    EstablishHandlers, Fetch, Messaging, Suspend, ImpAbort, RaiseMain, InHandler, vars,
    KillPeer, WaitPeer
<1>1. CASE tool \notin PingPong
  BY <1>0, <1>1 DEF TurnsInv, PingPong
<1>2. CASE tool \in PingPong /\ UNCHANGED <<tool, pend, step>>
  BY <1>2 DEF TurnsInv, Turn
<1>3. ASSUME tool \in PingPong, NEW p \in Procs, KillPeer(p) \/ WaitPeer(p)
      PROVE  TurnsInv'
  <2>0. (p = "child" \/ p = "parent") /\ Peer("child") = "parent" /\ Peer("parent") = "child"
    BY DEF Procs, Peer
  <2>1. CASE tool \in {"sig_speed_sigwaitinfo", "sig_speed_sigsuspend"}
    <3>1. PICK n \in 0..2 * Rounds : Rounded(n)
      BY <2>1 DEF TurnsInv, Rounded
    <3>2. \E m \in 0..2 * Rounds : Rounded(m)'
      BY <1>3, <2>1, <3>1, RoundsStep
    <3> QED BY <1>0, <2>1, <3>2 DEF TurnsInv, Rounded
  <2>2. /\ KillPeer(p) => NextIs(p, "kill")
        /\ WaitPeer(p) => NextIs(p, "wait")
        /\ \A c, d, to : Turn(c, d, to) => step["child"] = c /\ step["parent"] = d
    BY DEF KillPeer, WaitPeer, Turn
  <2>3. \A c, d, to : Turn(c, d, to) /\ WaitPeer(p) =>
          p = to /\ Turn(IF p = "child" THEN c + 1 ELSE c, IF p = "child" THEN d ELSE d + 1, "nobody")'
    BY SignalTaken
  <2>4. \A c, d : Turn(c, d, "nobody") /\ KillPeer(p) =>
          Turn(IF p = "child" THEN c + 1 ELSE c, IF p = "child" THEN d ELSE d + 1, Peer(p))'
    BY SignalGiven
  <2>5. CASE tool = "fork_sig_sync"
    <3>1. /\ NextIs(p, "kill") => p = "child" /\ step["child"] = 0
          /\ NextIs(p, "wait") => p = "parent" /\ step["parent"] = 0
      BY <2>0, <2>5, NextInOthers
    <3>2. CASE Turn(0, 0, "nobody")
      BY <1>0, <1>3, <2>0, <2>2, <2>3, <2>4, <2>5, <3>1, <3>2 DEF TurnsInv
    <3>3. CASE Turn(1, 0, "parent")
      BY <1>0, <1>3, <2>0, <2>2, <2>3, <2>4, <2>5, <3>1, <3>3 DEF TurnsInv
    <3>4. CASE Turn(1, 1, "nobody")
      BY <1>3, <2>0, <2>2, <3>1, <3>4
    <3> QED BY <2>5, <3>2, <3>3, <3>4 DEF TurnsInv
  <2>6. CASE tool = "double_wait"
    <3>1. /\ NextIs("child", "kill") => step["child"] = 1
          /\ NextIs("parent", "kill") => step["parent"] = 0
      BY <2>6, NextInOthers
    <3>2. /\ NextIs("child", "wait") => step["child"] = 0
          /\ NextIs("parent", "wait") => step["parent"] = 1
      BY <2>6, NextInOthers
    <3>5. CASE Turn(0, 0, "nobody")
      BY <1>0, <1>3, <2>0, <2>2, <2>3, <2>4, <2>6, <3>1, <3>2, <3>5 DEF TurnsInv
    <3>6. CASE Turn(0, 1, "child")
      BY <1>0, <1>3, <2>0, <2>2, <2>3, <2>4, <2>6, <3>1, <3>2, <3>6 DEF TurnsInv
    <3>7. CASE Turn(1, 1, "nobody")
      BY <1>0, <1>3, <2>0, <2>2, <2>3, <2>4, <2>6, <3>1, <3>2, <3>7 DEF TurnsInv
    <3>8. CASE Turn(2, 1, "parent")
      BY <1>0, <1>3, <2>0, <2>2, <2>3, <2>4, <2>6, <3>1, <3>2, <3>8 DEF TurnsInv
    <3>9. CASE Turn(2, 2, "nobody")
      BY <1>0, <1>3, <2>0, <2>2, <2>3, <2>4, <2>6, <3>1, <3>2, <3>9 DEF TurnsInv
    <3> QED BY <2>6, <3>5, <3>6, <3>7, <3>8, <3>9 DEF TurnsInv
  <2> QED BY <1>3, <2>1, <2>5, <2>6 DEF PingPong
<1> QED BY <1>1, <1>2, <1>3, PeersOnly

\* A signal is sent.
LEMMA AccountedSent ==
  ASSUME NEW o \in Seq(Signal), NEW q \in Seq(Signal), NEW s \in Seq(Signal), NEW x \in Signal,
         Accounted(o, q, s)
  PROVE  /\ Accounted(o, Queued(q, x), s \o <<x>>)
         /\ x[1] = QUIT => Accounted(o, q, s \o <<x>>)
<1> DEFINE z == Queued(q, x)
<1>1. <<x>> \in Seq(Signal) /\ z \in Seq(Signal)
  BY OnlyOfOne, QueuedMeans
<1>2. /\ HowOften(USR, z) = IF x[1] = USR /\ HowOften(USR, q) = 0 THEN 1 ELSE HowOften(USR, q)
      /\ RealTime(z) = RealTime(q) \o RealTime(<<x>>)
  BY QueuedMeans, Numbers
<1>3. HowOften(USR, s \o <<x>>) = HowOften(USR, s) + (IF x[1] = USR THEN 1 ELSE 0)
  <2>1. HowOften(USR, s \o <<x>>) = HowOften(USR, s) + HowOften(USR, <<x>>)
    BY <1>1, HowOftenBoth
  <2> QED BY <2>1, HowOftenOne
<1>4. HowOften(USR, q) \in Nat /\ HowOften(USR, s) \in Nat /\ HowOften(USR, o) \in Nat
  BY HowOftenBoth
<1>5. RealTime(s \o <<x>>) = RealTime(o) \o (RealTime(q) \o RealTime(<<x>>))
  <2>1. RealTime(s \o <<x>>) = RealTime(s) \o RealTime(<<x>>)
    BY <1>1, RealTimeBoth
  <2>2. /\ RealTime(o) \in Seq(Signal) /\ RealTime(q) \in Seq(Signal)
        /\ RealTime(<<x>>) \in Seq(Signal)
    BY <1>1, RealTimeBoth
  <2>3. (RealTime(o) \o RealTime(q)) \o RealTime(<<x>>)
          = RealTime(o) \o (RealTime(q) \o RealTime(<<x>>))
    <3> DEFINE a == RealTime(o)  b == RealTime(q)  c == RealTime(<<x>>)
    <3>1. a \in Seq(Signal) /\ b \in Seq(Signal) /\ c \in Seq(Signal)
      BY <2>2
    <3> HIDE DEF a, b, c
    <3>2. Regrouped(a, b, c)
      BY <3>1, SplitFlow
    <3> QED BY <3>2 DEF Regrouped, a, b, c
  <2> QED BY <2>1, <2>3 DEF Accounted
<1> HIDE DEF z
<1>6. Accounted(o, z, s \o <<x>>)
  <2>1. HowOften(USR, o) + HowOften(USR, z) <= HowOften(USR, s \o <<x>>)
    <3>1. \A a, b, c \in Nat : a + b <= c => a + b <= c + 1 /\ (b = 0 => a + 1 <= c + 1)
      OBVIOUS
    <3>2. HowOften(USR, o) + HowOften(USR, q) <= HowOften(USR, s)
      BY DEF Accounted
    <3>3. CASE x[1] = USR
      BY <1>2, <1>3, <1>4, <3>1, <3>2, <3>3
    <3>4. CASE x[1] # USR
      BY <1>2, <1>3, <1>4, <3>2, <3>4
    <3> QED BY <3>3, <3>4
  <2>2. HowOften(USR, s \o <<x>>) > 0 => HowOften(USR, o) + HowOften(USR, z) > 0
    BY <1>2, <1>3, <1>4 DEF Accounted
  <2>3. RealTime(o) \o RealTime(z) = RealTime(s \o <<x>>)
    BY <1>2, <1>5
  <2> QED BY <2>1, <2>2, <2>3 DEF Accounted
<1>7. ASSUME x[1] = QUIT PROVE Accounted(o, q, s \o <<x>>)
  <2>1. QUIT # USR /\ QUIT \notin RealTimes
    BY DEF QUIT, USR, RealTimes, RTMIN
  <2>2. RealTime(<<x>>) = <<>>
    BY <1>7, <2>1, OnlyOfOne DEF RealTime
  <2>3. RealTime(q) \o <<>> = RealTime(q)
    BY RealTimeBoth
  <2>4. RealTime(s \o <<x>>) = RealTime(o) \o RealTime(q)
    BY <1>5, <2>2, <2>3
  <2>5. HowOften(USR, s \o <<x>>) = HowOften(USR, s)
    BY <1>3, <1>4, <1>7, <2>1
  <2> QED BY <2>4, <2>5 DEF Accounted
<1> QED BY <1>6, <1>7 DEF z

\* A signal is seen, or SIGINT is dealt with.
LEMMA AccountedSeen ==
  ASSUME NEW o \in Seq(Signal), NEW q \in Seq(Signal), NEW s \in Seq(Signal), Accounted(o, q, s)
  PROVE  /\ q # <<>> => Accounted(Append(o, Head(q)), Tail(q), s)
         /\ \A i \in 1..Len(q) : q[i][1] = INT => Accounted(o, Without(q, i), s)
<1>1. ASSUME q # <<>> PROVE Accounted(Append(o, Head(q)), Tail(q), s)
  BY <1>1, Passed DEF Accounted
<1>2. ASSUME NEW i \in 1..Len(q), q[i][1] = INT PROVE Accounted(o, Without(q, i), s)
  BY <1>2, TakenOut DEF Accounted
<1> QED BY <1>1, <1>2

\* What the sender does to what was sent and to what is pending.
LEMMA SenderMeans ==
  ASSUME SignalsFit, SignalsTyped, Sender
  PROVE  \E s \in Signal :
           /\ s = Sent[step["child"] + 1]
           /\ SoFar \in Seq(Signal) /\ SoFar' = SoFar \o <<s>> /\ SoFar' = Append(SoFar, s)
           /\ step'["child"] = step["child"] + 1 /\ pend'["parent"] \in Seq(Signal)
           /\ pend["parent"] \in Seq(Signal) /\ step["child"] \in Nat
           /\ step["child"] < Len(Sent) /\ Len(Sent) \in Nat
           /\ IF pc["parent"] = "done" \/ s[1] \notin Understood THEN pend' = pend
              ELSE pend'["parent"] = Queued(pend["parent"], s)
<1> DEFINE s == Sent[step["child"] + 1]
<1>1. /\ step["child"] \in Nat /\ step["child"] < Len(Sent) /\ "parent" \in Procs
      /\ pend["parent"] \in Seq(Signal) /\ Sent \in Seq(Signal) /\ Len(Sent) \in Nat
  BY DEF SignalsFit, Sender, SignalsTyped, Procs
<1>2. step'["child"] = step["child"] + 1
  BY DEF Sender, Advance, SignalsTyped, Procs
<1>3. /\ s \in Signal /\ SoFar \in Seq(Signal) /\ SoFar' = SoFar \o <<s>>
      /\ SoFar' = Append(SoFar, s)
  BY <1>1, <1>2, SentOneMore DEF SoFar
<1> HIDE DEF s
<1>4. IF pc["parent"] = "done" \/ s[1] \notin Understood THEN pend' = pend
      ELSE pend'["parent"] = Queued(pend["parent"], s) /\ pend'["parent"] \in Seq(Signal)
  <2>1. IF pc["parent"] = "done" \/ s[1] \notin Understood THEN pend' = pend ELSE Kill("parent", s)
    BY DEF Sender, s
  <2> QED BY <1>1, <1>3, <2>1, KillTyped
<1> QED BY <1>1, <1>2, <1>3, <1>4 DEF s

\* The handler takes the first signal that is not blocked.
LEMMA HandlerMeans ==
  ASSUME SignalsTyped, Handler
  PROVE  \E i \in 1..Len(pend["parent"]) :
           /\ i = FirstOf /\ pend["parent"][i][1] \notin mask /\ (mask = {} => i = 1)
           /\ pend["parent"] \in Seq(Signal) /\ pend["parent"][i] \in Signal
           /\ pend'["parent"] = Without(pend["parent"], i)
<1>1. pend["parent"] \in Seq(Signal) /\ "parent" \in Procs
  BY DEF SignalsTyped, Procs
<1>2. /\ FirstOf \in 1..Len(pend["parent"]) /\ pend["parent"][FirstOf][1] \notin mask
      /\ (mask = {} => FirstOf = 1)
  BY FirstIsThere DEF Handler
<1>3. pend["parent"][FirstOf] \in Signal
  BY <1>1, <1>2, ElementOfSeq
<1>4. pend'["parent"] = Without(pend["parent"], FirstOf)
  BY <1>1 DEF Handler, SignalsTyped
<1> QED BY <1>1, <1>2, <1>3, <1>4

\* Steps keep the signals of the receivers accounted for.
LEMMA ReceiverStep ==
  ASSUME SignalsFit, SignalsTyped, ReceiverInv, [Next]_vars
  PROVE  ReceiverInv'
<1> DEFINE Receivers == {"catch_rtsigs", "sig_receiver"} \cup Fetched
<1>0. /\ \A t : t \in Receivers => /\ t \notin PingPong /\ t # "signal_messaging" /\ t # "t_sigsuspend"
                                   /\ t # "imp_abort" /\ t # "confirm_nodefer"
                                   /\ t # "use_sigaction"
                                   /\ t \in Handled \cup Fetched
      /\ \A t : t \in Fetched => t \notin Handled /\ t \notin {"catch_rtsigs", "sig_receiver"}
  BY DEF PingPong, Fetched, Handled
<1>t. tool' = tool
  BY DEF Next, Peers, Sender, Main, Deliver, Handler, EnterHandler, Unblock, TestDone,
    EstablishHandlers, Fetch, Messaging, Suspend, ImpAbort, RaiseMain, InHandler, vars,
    KillPeer, WaitPeer
<1> SUFFICES ASSUME tool \in Receivers
             PROVE  /\ tool \notin Fetched => mask' \in {{}, Every \ {INT}, Every}
                    /\ pc'["parent"] # "done" => Accounted(out', pend'["parent"], SoFar')
  BY <1>t DEF ReceiverInv
<1>1. /\ tool \notin Fetched => mask \in {{}, Every \ {INT}, Every}
      /\ pc["parent"] # "done" => Accounted(out, pend["parent"], SoFar)
      /\ out \in Seq(Signal) /\ pend["parent"] \in Seq(Signal) /\ step["child"] \in Nat
      /\ step["child"] <= Len(Sent) /\ "parent" \in Procs /\ "child" \in Procs
  BY <1>0 DEF ReceiverInv, SignalsTyped, Procs
<1>s. SoFar \in Seq(Signal) /\ (step' = step => SoFar' = SoFar)
  <2>1. Sent \in Seq(Signal) /\ step["child"] \in 0..Len(Sent)
    BY <1>1 DEF SignalsFit
  <2> QED BY <2>1, SplitAt DEF SoFar
<1> HIDE DEF Receivers
<1>2. CASE Sender
  <2>1. PICK s \in Signal :
           /\ SoFar' = SoFar \o <<s>>
           /\ IF pc["parent"] = "done" \/ s[1] \notin Understood THEN pend' = pend
              ELSE pend'["parent"] = Queued(pend["parent"], s)
    BY <1>2, SenderMeans
  <2>2. s[1] \notin Understood => s[1] = QUIT
    BY <1>0 DEF Understood, Signal
  <2>3. mask' = mask /\ pc' = pc /\ out' = out
    BY <1>2 DEF Sender
  <2>4. ASSUME pc["parent"] # "done"
        PROVE  Accounted(out, pend'["parent"], SoFar')
    BY <1>1, <1>s, <2>1, <2>2, <2>4, AccountedSent
  <2> QED BY <1>1, <2>3, <2>4
<1>3. CASE Handler
  <2>1. PICK i \in 1..Len(pend["parent"]) :
           /\ i = FirstOf /\ pend["parent"][i][1] \notin mask /\ (mask = {} => i = 1)
           /\ pend["parent"][i] \in Signal /\ pend'["parent"] = Without(pend["parent"], i)
    BY <1>3, HandlerMeans
  <2>2. tool \in {"catch_rtsigs", "sig_receiver"} /\ tool \notin Fetched
    BY <1>0, <1>3 DEF Handler, Receivers
  <2>3. /\ out' = IF pend["parent"][i][1] = INT THEN out ELSE Append(out, pend["parent"][i])
        /\ mask' = mask /\ step' = step /\ pc["parent"] # "done"
    BY <1>3, <2>1, <2>2 DEF Handler
  <2>4. Accounted(out, pend["parent"], SoFar)
    BY <1>1, <2>3
  <2>5. CASE pend["parent"][i][1] = INT
    <3>1. Accounted(out, Without(pend["parent"], i), SoFar)
      BY <1>1, <1>s, <2>4, <2>5, AccountedSeen
    <3> QED BY <1>1, <1>s, <2>1, <2>2, <2>3, <2>5, <3>1
  <2>6. CASE pend["parent"][i][1] # INT
    <3>1. mask = {}
      BY <1>1, <2>1, <2>2, <2>6 DEF Signal
    <3>2. /\ Without(pend["parent"], i) = Tail(pend["parent"])
          /\ pend["parent"][i] = Head(pend["parent"]) /\ pend["parent"] # <<>>
      BY <1>1, <2>1, <3>1, TakenOut
    <3>3. Accounted(Append(out, Head(pend["parent"])), Tail(pend["parent"]), SoFar)
      BY <1>1, <1>s, <2>4, <3>2, AccountedSeen
    <3> QED BY <1>1, <1>s, <2>1, <2>3, <2>6, <3>2, <3>3
  <2> QED BY <2>5, <2>6
<1>4. CASE Unblock
  <2>1. mask' = {} /\ pend' = pend /\ step' = step /\ out' = out /\ pc["parent"] # "done"
    BY <1>4 DEF Unblock
  <2> QED BY <1>1, <1>s, <2>1
<1>5. CASE TestDone
  <2>1. mask' = mask /\ pend' = pend /\ step' = step /\ out' = out /\ pc["parent"] # "done"
    BY <1>5 DEF TestDone
  <2> QED BY <1>1, <1>s, <2>1
<1>6. CASE Fetch
  <2>1. /\ mask' = mask /\ step' = step /\ pc["parent"] # "done" /\ pend["parent"] # <<>>
        /\ pend'["parent"] = Tail(pend["parent"])
        /\ \/ pc' = [pc EXCEPT !["parent"] = "done"]
           \/ out' = Append(out, Head(pend["parent"]))
    BY <1>1, <1>6 DEF Fetch, Go, SignalsTyped
  <2>2. Accounted(Append(out, Head(pend["parent"])), Tail(pend["parent"]), SoFar)
    BY <1>1, <1>s, <2>1, AccountedSeen
  <2>3. pc' = [pc EXCEPT !["parent"] = "done"] => pc'["parent"] = "done"
    BY <1>1 DEF SignalsTyped
  <2> QED BY <1>1, <1>s, <2>1, <2>2, <2>3
<1>7. CASE UNCHANGED vars
  <2>1. mask' = mask /\ pend' = pend /\ step' = step /\ out' = out /\ pc' = pc
    BY <1>7 DEF vars
  <2> QED BY <1>1, <1>s, <2>1
<1>8. Sender \/ Handler \/ Unblock \/ TestDone \/ Fetch \/ UNCHANGED vars
  BY <1>0 DEF Next, Peers, Main, Deliver, KillPeer, WaitPeer, NextIs, EstablishHandlers, At,
    Messaging, Suspend, ImpAbort, RaiseMain, EnterHandler, InHandler
<1> QED BY <1>2, <1>3, <1>4, <1>5, <1>6, <1>7, <1>8

\* Before and ToBeSent are about the letters in the sequences.
LEMMA LettersOf ==
  ASSUME NEW q \in Seq(Signal), NEW r \in Seq(Signal)
  PROVE  /\ Before(q, r) <=> \A x \in Members(q), y \in Members(r) : x[2] < y[2]
         /\ ToBeSent(q) <=> \A x \in Members(q) : \A j \in step["child"] + 1..Len(Sent) :
                              Sent[j][1] = RTMIN => x[2] < Sent[j][2]
         /\ Members(q \o r) = Members(q) \cup Members(r) /\ Members(q) \subseteq Signal
<1>1. Before(q, r) <=> \A x \in Members(q), y \in Members(r) : x[2] < y[2]
  BY DEF Before, Members
<1>2. ToBeSent(q) <=> \A x \in Members(q) : \A j \in step["child"] + 1..Len(Sent) :
                        Sent[j][1] = RTMIN => x[2] < Sent[j][2]
  BY DEF ToBeSent, Members
<1>3. Members(q \o r) = Members(q) \cup Members(r)
  <2>1. /\ Len(q \o r) = Len(q) + Len(r) /\ Len(q) \in Nat /\ Len(r) \in Nat
        /\ \A i \in 1..Len(q) + Len(r) : (q \o r)[i] = IF i <= Len(q) THEN q[i] ELSE r[i - Len(q)]
    BY ConcatProperties, LenProperties
  <2>2. ASSUME NEW i \in 1..Len(q) + Len(r)
        PROVE  (q \o r)[i] \in Members(q) \cup Members(r)
    <3>1. i <= Len(q) => i \in 1..Len(q)
      BY <2>1
    <3>2. ~(i <= Len(q)) => i - Len(q) \in 1..Len(r)
      BY <2>1
    <3> QED BY <2>1, <3>1, <3>2 DEF Members
  <2>3. ASSUME NEW i \in 1..Len(q)
        PROVE  q[i] \in Members(q \o r)
    <3>1. i \in 1..Len(q) + Len(r) /\ i <= Len(q)
      BY <2>1
    <3> QED BY <2>1, <3>1 DEF Members
  <2>4. ASSUME NEW i \in 1..Len(r)
        PROVE  r[i] \in Members(q \o r)
    <3>1. /\ Len(q) + i \in 1..Len(q) + Len(r) /\ ~(Len(q) + i <= Len(q))
          /\ (Len(q) + i) - Len(q) = i
      BY <2>1
    <3> QED BY <2>1, <3>1 DEF Members
  <2> QED BY <2>1, <2>2, <2>3, <2>4 DEF Members
<1>4. Members(q) \subseteq Signal
  BY ElementOfSeq DEF Members
<1> QED BY <1>1, <1>2, <1>3, <1>4

\* Letters that are in order stay so with one more, one less, or others after them.
LEMMA AscendingKept ==
  ASSUME NEW q \in Seq(Signal), Ascending(q)
  PROVE  /\ \A x \in Signal : (\A y \in Members(q) : y[2] < x[2]) => Ascending(Append(q, x))
         /\ q # <<>> => Ascending(Tail(q)) /\ \A y \in Members(Tail(q)) : Head(q)[2] < y[2]
         /\ \A r \in Seq(Signal) : Ascending(r) /\ Before(q, r) => Ascending(q \o r)
<1>0. Len(q) \in Nat
  BY LenProperties
<1>1. ASSUME NEW x \in Signal, \A y \in Members(q) : y[2] < x[2]
      PROVE  Ascending(Append(q, x))
  <2>1. /\ Len(Append(q, x)) = Len(q) + 1 /\ Append(q, x)[Len(q) + 1] = x
        /\ \A i \in 1..Len(q) : Append(q, x)[i] = q[i]
    BY AppendProperties
  <2>2. \A i \in 1..Len(q) : q[i][2] < x[2]
    BY <1>1 DEF Members
  <2> SUFFICES ASSUME NEW i \in 1..Len(q) + 1, NEW j \in 1..Len(q) + 1, i < j
               PROVE  Append(q, x)[i][2] < Append(q, x)[j][2]
    BY <2>1 DEF Ascending
  <2>3. i \in 1..Len(q) /\ (j \in 1..Len(q) \/ j = Len(q) + 1)
    BY <1>0
  <2> QED BY <2>1, <2>2, <2>3 DEF Ascending
<1>2. ASSUME q # <<>>
      PROVE  Ascending(Tail(q)) /\ \A y \in Members(Tail(q)) : Head(q)[2] < y[2]
  <2>1. /\ Len(Tail(q)) = Len(q) - 1 /\ Head(q) = q[1]
        /\ \A i \in 1..Len(q) - 1 : Tail(q)[i] = q[i + 1]
    BY <1>2, HeadTailProperties
  <2>2. \A i \in 1..Len(q) - 1 : i + 1 \in 1..Len(q) /\ 1 \in 1..Len(q) /\ 1 < i + 1
    BY <1>0
  <2>3. ASSUME NEW i \in 1..Len(q) - 1, NEW j \in 1..Len(q) - 1, i < j
        PROVE  Tail(q)[i][2] < Tail(q)[j][2]
    <3>1. i + 1 < j + 1
      BY <2>3
    <3> QED BY <2>1, <2>2, <3>1 DEF Ascending
  <2>4. \A i \in 1..Len(q) - 1 : Head(q)[2] < Tail(q)[i][2]
    BY <2>1, <2>2 DEF Ascending
  <2> QED BY <2>1, <2>3, <2>4 DEF Ascending, Members
<1>3. ASSUME NEW r \in Seq(Signal), Ascending(r), Before(q, r)
      PROVE  Ascending(q \o r)
  <2>1. /\ Len(q \o r) = Len(q) + Len(r) /\ Len(r) \in Nat
        /\ \A i \in 1..Len(q) + Len(r) : (q \o r)[i] = IF i <= Len(q) THEN q[i] ELSE r[i - Len(q)]
    BY ConcatProperties, LenProperties
  <2> SUFFICES ASSUME NEW i \in 1..Len(q) + Len(r), NEW j \in 1..Len(q) + Len(r), i < j
               PROVE  (q \o r)[i][2] < (q \o r)[j][2]
    BY <2>1 DEF Ascending
  <2>2. CASE j <= Len(q)
    <3>1. i \in 1..Len(q) /\ j \in 1..Len(q) /\ i <= Len(q)
      BY <1>0, <2>2
    <3> QED BY <2>1, <2>2, <3>1 DEF Ascending
  <2>3. CASE i <= Len(q) /\ ~(j <= Len(q))
    <3>1. i \in 1..Len(q) /\ j - Len(q) \in 1..Len(r)
      BY <1>0, <2>1, <2>3
    <3> QED BY <1>3, <2>1, <2>3, <3>1 DEF Before
  <2>4. CASE ~(i <= Len(q)) /\ ~(j <= Len(q))
    <3>1. i - Len(q) \in 1..Len(r) /\ j - Len(q) \in 1..Len(r) /\ i - Len(q) < j - Len(q)
      BY <1>0, <2>1, <2>4
    <3> QED BY <1>3, <2>1, <2>4, <3>1 DEF Ascending
  <2>5. i <= Len(q) \/ ~(j <= Len(q))
    BY <1>0
  <2> QED BY <2>2, <2>3, <2>4, <2>5
<1> QED BY <1>1, <1>2, <1>3

\* Steps keep the letters in order, wherever they are.
LEMMA LettersStep ==
  ASSUME SignalsFit, SignalsTyped, LettersInv, [Next]_vars
  PROVE  LettersInv'
<1>t. tool' = tool
  BY DEF Next, Peers, Sender, Main, Deliver, Handler, EnterHandler, Unblock, TestDone,
    EstablishHandlers, Fetch, Messaging, Suspend, ImpAbort, RaiseMain, InHandler, vars,
    KillPeer, WaitPeer
<1> SUFFICES ASSUME tool = "signal_messaging"
             PROVE  LettersInv'
  BY <1>t DEF LettersInv
<1> DEFINE q == pend["parent"]
           Sendable(z) == \A x \in Members(z) : \A j \in step["child"] + 1..Len(Sent) :
                            Sent[j][1] = RTMIN => x[2] < Sent[j][2]
           Below(y, z) == \A v \in Members(y), w \in Members(z) : v[2] < w[2]
           Fresh == pc["parent"] \notin {"reset", "clear"}
           Inv == /\ mask = {} /\ Ascending(out) /\ Ascending(mess) /\ Ascending(q)
                  /\ Below(out, q) /\ Below(mess, q) /\ (Fresh => Below(out, mess))
                  /\ Sendable(out) /\ Sendable(mess) /\ Sendable(q)
<1>0. /\ out \in Seq(Signal) /\ mess \in Seq(Signal) /\ q \in Seq(Signal)
      /\ tool \in Handled /\ tool \notin Fetched /\ tool \notin PingPong
      /\ "parent" \in Procs
  BY DEF SignalsTyped, Procs, Handled, Fetched, PingPong
<1>1. Inv
  BY <1>0, LettersOf DEF LettersInv
<1>2. ASSUME out' \in Seq(Signal), mess' \in Seq(Signal), q' \in Seq(Signal), Inv'
      PROVE  LettersInv'
  <2>1. \A y \in Seq(Signal) : Sendable(y)' <=> ToBeSent(y)'
    BY DEF ToBeSent, Members
  <2>2. \A y, z \in Seq(Signal) : Below(y, z) <=> Before(y, z)
    BY LettersOf
  <2> QED BY <1>2, <2>1, <2>2 DEF LettersInv
<1> HIDE DEF q, Fresh
<1>3. CASE Sender
  <2>1. PICK s \in Signal :
           /\ s = Sent[step["child"] + 1] /\ step["child"] \in Nat
           /\ step'["child"] = step["child"] + 1 /\ q' \in Seq(Signal)
           /\ step["child"] < Len(Sent) /\ Len(Sent) \in Nat
           /\ IF pc["parent"] = "done" \/ s[1] \notin Understood THEN pend' = pend
              ELSE q' = Queued(q, s)
    BY <1>3, SenderMeans DEF q
  <2>2. mask' = mask /\ out' = out /\ mess' = mess /\ Fresh' = Fresh
    BY <1>3 DEF Sender, Fresh
  <2>3. \A z : Sendable(z) => Sendable(z)'
    <3>1. \A j \in step'["child"] + 1..Len(Sent) : j \in step["child"] + 1..Len(Sent)
      BY <2>1
    <3> QED BY <3>1
  <2>4. CASE q' = q
    BY <1>0, <1>1, <1>2, <2>1, <2>2, <2>3, <2>4
  <2>5. CASE s[1] = RTMIN /\ q' = Append(q, s)
    <3>1. Members(q') = Members(q) \cup {s}
      BY <1>0, <2>5, EntersQueue
    <3>2. \A z : Sendable(z) => \A x \in Members(z) : x[2] < s[2]
      <4>1. step["child"] + 1 \in step["child"] + 1..Len(Sent)
        BY <2>1
      <4> QED BY <2>1, <2>5, <4>1
    <3>3. \A j \in step'["child"] + 1..Len(Sent) : Sent[j][1] = RTMIN => s[2] < Sent[j][2]
      <4>1. \A j \in step'["child"] + 1..Len(Sent) :
              step["child"] + 1 < j /\ j \in 1..Len(Sent) /\ step["child"] + 1 \in 1..Len(Sent)
        BY <2>1
      <4> QED BY <2>1, <2>5, <4>1 DEF SignalsFit
    <3>4. Sendable(q)'
      BY <1>1, <2>3, <3>1, <3>3
    <3>5. Ascending(q')
      BY <1>0, <1>1, <2>5, <3>2, AscendingKept
    <3>6. Below(out, q') /\ Below(mess, q')
      BY <1>1, <3>1, <3>2
    <3>7. Inv'
      BY <1>1, <2>2, <2>3, <3>4, <3>5, <3>6
    <3> QED BY <1>0, <1>2, <2>1, <2>2, <3>7
  <2>6. q' = q \/ (s[1] = RTMIN /\ q' = Append(q, s))
    <3>1. Understood = {RTMIN}
      BY DEF Understood
    <3>2. s[1] = RTMIN => Queued(q, s) = Append(q, s)
      BY <1>0, QueuedMeans, Numbers
    <3> QED BY <2>1, <3>1, <3>2 DEF q
  <2> QED BY <2>4, <2>5, <2>6
<1>4. CASE Handler
  <2>1. PICK i \in 1..Len(q) :
           /\ i = FirstOf /\ i = 1 /\ q[i] \in Signal /\ q' = Without(q, i)
    BY <1>1, <1>4, HandlerMeans DEF q
  <2>2. q' = Tail(q) /\ q[i] = Head(q) /\ q # <<>>
    BY <1>0, <2>1, TakenOut
  <2>3. mess' = Append(mess, Head(q)) /\ out' = out /\ mask' = mask /\ step' = step
    BY <1>4, <2>1, <2>2 DEF Handler, q
  <2>4. Fresh' => Fresh
    BY <1>0, <1>4 DEF Handler, Fresh, SignalsTyped
  <2>5. /\ Head(q) \in Members(q) /\ q' \in Seq(Signal) /\ Members(q') \subseteq Members(q)
        /\ Head(q) \in Signal /\ mess' \in Seq(Signal) /\ Members(mess') = Members(mess) \cup {Head(q)}
    <3>1. /\ Head(q) \in Members(q) /\ Tail(q) \in Seq(Signal)
          /\ Members(Tail(q)) \subseteq Members(q)
      BY <1>0, <2>2, LeavesQueue
    <3>2. Head(q) \in Signal
      BY <2>1, <2>2
    <3>3. Append(mess, Head(q)) \in Seq(Signal)
          /\ Members(Append(mess, Head(q))) = Members(mess) \cup {Head(q)}
      BY <1>0, <3>2, EntersQueue
    <3> QED BY <2>2, <2>3, <3>1, <3>2, <3>3
  <2>6. Ascending(q') /\ (\A y \in Members(q') : Head(q)[2] < y[2])
    BY <1>0, <1>1, <2>2, AscendingKept
  <2>7. Ascending(mess')
    BY <1>0, <1>1, <2>3, <2>5, AscendingKept
  <2>8. /\ Below(out', q') /\ Below(mess', q') /\ (Fresh' => Below(out', mess'))
    BY <1>1, <2>3, <2>4, <2>5, <2>6
  <2>9. \A z : Sendable(z)' <=> Sendable(z)
    BY <2>3
  <2>10. Sendable(out') /\ Sendable(mess') /\ Sendable(q')
    BY <1>1, <2>3, <2>5
  <2>11. Inv'
    BY <1>1, <2>3, <2>6, <2>7, <2>8, <2>9, <2>10
  <2> QED BY <1>0, <1>2, <2>3, <2>5, <2>11
<1>5. CASE Messaging
  <2>1. q' = q /\ mask' = mask /\ step' = step
    BY <1>5 DEF Messaging, q
  <2>2. \A z : Sendable(z)' <=> Sendable(z)
    BY <2>1
  <2>3. CASE out' = out /\ mess' = mess /\ (Fresh' => Fresh)
    BY <1>0, <1>1, <1>2, <2>1, <2>2, <2>3
  <2>4. CASE out' = out \o mess /\ mess' = mess /\ Fresh /\ ~Fresh'
    <3>1. Members(out') = Members(out) \cup Members(mess) /\ out' \in Seq(Signal)
      BY <1>0, <2>4, LettersOf, ConcatProperties
    <3>2. Ascending(out')
      <4>1. Before(out, mess)
        BY <1>0, <1>1, <2>4, LettersOf
      <4> QED BY <1>0, <1>1, <2>4, <4>1, AscendingKept
    <3>3. Inv'
      BY <1>1, <2>1, <2>2, <2>4, <3>1, <3>2
    <3> QED BY <1>0, <1>2, <2>1, <2>4, <3>1, <3>3
  <2>5. CASE out' = out /\ mess' = <<>>
    <3>1. Members(mess') = {} /\ mess' \in Seq(Signal) /\ Ascending(mess')
      BY <2>5 DEF Members, Ascending
    <3>2. Inv'
      BY <1>1, <2>1, <2>2, <2>5, <3>1
    <3> QED BY <1>0, <1>2, <2>1, <2>5, <3>1, <3>2
  <2>6. \/ out' = out /\ mess' = mess /\ (Fresh' => Fresh)
        \/ out' = out \o mess /\ mess' = mess /\ Fresh /\ ~Fresh'
        \/ out' = out /\ mess' = <<>>
    BY <1>0, <1>5 DEF Messaging, Go, Fresh, SignalsTyped
  <2> QED BY <2>3, <2>4, <2>5, <2>6
<1>6. CASE UNCHANGED vars
  <2>1. /\ q' = q /\ mask' = mask /\ step' = step /\ out' = out /\ mess' = mess
        /\ Fresh' = Fresh
    BY <1>6 DEF vars, q, Fresh
  <2> QED BY <1>0, <1>1, <1>2, <2>1
<1>7. Sender \/ Handler \/ Messaging \/ UNCHANGED vars
  BY <1>0 DEF Next, Peers, Main, Deliver, KillPeer, WaitPeer, NextIs, EstablishHandlers, At,
    Unblock, TestDone, Fetch, Suspend, ImpAbort, RaiseMain, EnterHandler, InHandler
<1> QED BY <1>3, <1>4, <1>5, <1>6, <1>7

\* What is in two sequences, or in one with one more; what is pending after a signal is sent.
LEMMA HasBoth ==
  ASSUME NEW n, NEW q \in Seq(Signal), NEW r \in Seq(Signal), NEW x \in Signal
  PROVE  /\ Has(q \o r, n) <=> Has(q, n) \/ Has(r, n)
         /\ Has(Append(q, x), n) <=> Has(q, n) \/ x[1] = n
         /\ n \in Standard => (Has(Queued(q, x), n) <=> Has(q, n) \/ x[1] = n)
<1>1. \A z \in Seq(Signal) : HowOften(n, z) \in Nat /\ (Has(z, n) <=> HowOften(n, z) > 0)
  BY HowOftenBoth
<1>2. /\ <<x>> \in Seq(Signal) /\ q \o r \in Seq(Signal) /\ q \o <<x>> \in Seq(Signal)
      /\ Append(q, x) = q \o <<x>> /\ Queued(q, x) \in Seq(Signal)
  <2>1. <<x>> \in Seq(Signal) /\ Queued(q, x) \in Seq(Signal)
    BY OnlyOfOne, QueuedMeans
  <2>2. q \o r \in Seq(Signal) /\ q \o <<x>> \in Seq(Signal)
    BY <2>1, ConcatProperties
  <2>3. Append(q, x) = q \o <<x>>
    BY AppendIsConcat
  <2> QED BY <2>1, <2>2, <2>3
<1>3. /\ HowOften(n, q \o r) = HowOften(n, q) + HowOften(n, r)
      /\ HowOften(n, q \o <<x>>) = HowOften(n, q) + HowOften(n, <<x>>)
  BY <1>2, HowOftenBoth
<1>4. HowOften(n, <<x>>) = IF x[1] = n THEN 1 ELSE 0
  BY HowOftenOne
<1>5. Has(q \o r, n) <=> Has(q, n) \/ Has(r, n)
  <2>1. HowOften(n, q) \in Nat /\ HowOften(n, r) \in Nat
    BY <1>1
  <2>2. Has(q, n) <=> HowOften(n, q) > 0
    BY <1>1
  <2>3. Has(r, n) <=> HowOften(n, r) > 0
    BY <1>1
  <2>4. Has(q \o r, n) <=> HowOften(n, q \o r) > 0
    BY <1>1, <1>2
  <2> QED BY <1>3, <2>1, <2>2, <2>3, <2>4
<1>6. Has(Append(q, x), n) <=> Has(q, n) \/ x[1] = n
  <2>1. HowOften(n, q) \in Nat
    BY <1>1
  <2>2. Has(q, n) <=> HowOften(n, q) > 0
    BY <1>1
  <2>3. Has(q \o <<x>>, n) <=> HowOften(n, q \o <<x>>) > 0
    BY <1>1, <1>2
  <2> QED BY <1>2, <1>3, <1>4, <2>1, <2>2, <2>3
<1>7. ASSUME n \in Standard
      PROVE  Has(Queued(q, x), n) <=> Has(q, n) \/ x[1] = n
  <2>1. HowOften(n, Queued(q, x)) = IF x[1] = n /\ HowOften(n, q) = 0 THEN 1 ELSE HowOften(n, q)
    BY <1>7, QueuedMeans
  <2> QED BY <1>1, <1>2, <2>1
<1> QED BY <1>5, <1>6, <1>7

\* How often a signal is in a sequence with one more, or pending after one is sent.
LEMMA HowOftenMore ==
  ASSUME NEW n \in Standard, NEW q \in Seq(Signal), NEW x \in Signal
  PROVE  /\ HowOften(n, q) \in Nat
         /\ HowOften(n, Append(q, x)) = HowOften(n, q) + (IF x[1] = n THEN 1 ELSE 0)
         /\ HowOften(n, Queued(q, x)) \in Nat
         /\ HowOften(n, Queued(q, x)) <= HowOften(n, q) + (IF x[1] = n THEN 1 ELSE 0)
<1>1. <<x>> \in Seq(Signal) /\ Queued(q, x) \in Seq(Signal) /\ Append(q, x) = q \o <<x>>
  BY OnlyOfOne, QueuedMeans, AppendIsConcat
<1>2. HowOften(n, q) \in Nat /\ HowOften(n, Queued(q, x)) \in Nat
  BY <1>1, HowOftenBoth
<1>3. HowOften(n, q \o <<x>>) = HowOften(n, q) + HowOften(n, <<x>>)
  BY <1>1, HowOftenBoth
<1>4. HowOften(n, <<x>>) = IF x[1] = n THEN 1 ELSE 0
  BY HowOftenOne
<1>5. HowOften(n, Queued(q, x)) = IF x[1] = n /\ HowOften(n, q) = 0 THEN 1 ELSE HowOften(n, q)
  BY QueuedMeans
<1> QED BY <1>1, <1>2, <1>3, <1>4, <1>5

\* Steps lose a signal of t_sigsuspend.c only after the first count, and count none twice.
LEMMA SuspendStep ==
  ASSUME SignalsFit, SignalsTyped, SuspendInv, [Next]_vars
  PROVE  SuspendInv'
<1>t. tool' = tool
  BY DEF Next, Peers, Sender, Main, Deliver, Handler, EnterHandler, Unblock, TestDone,
    EstablishHandlers, Fetch, Messaging, Suspend, ImpAbort, RaiseMain, InHandler, vars,
    KillPeer, WaitPeer
<1> SUFFICES ASSUME tool = "t_sigsuspend"
             PROVE  SuspendInv'
  BY <1>t DEF SuspendInv
<1> DEFINE q == pend["parent"]  l == pc["parent"]
           Uncounted(n) == IF l = "counted" THEN 0 ELSE HowOften(n, mess)
           Held(n) == Has(SoFar, n) /\ out = <<>> => Has(mess, n) \/ Has(q, n)
           Fits(n) == HowOften(n, out) + HowOften(n, q) + Uncounted(n) <= HowOften(n, SoFar)
           Main1 == /\ mask \in {{}, {INT, QUIT}}
                    /\ (l = "woken" => mess # <<>>) /\ (l = "counted" => out # <<>>)
                    /\ l = "done" => flag
           Quits == Has(SoFar, QUIT) => flag \/ Has(q, QUIT)
<1>0. /\ out \in Seq(Signal) /\ mess \in Seq(Signal) /\ q \in Seq(Signal)
      /\ tool \in Handled /\ tool \notin Fetched /\ tool \notin PingPong
      /\ "parent" \in Procs /\ l \in Places /\ pc \in [Procs -> Places]
      /\ "child" \in Procs
  BY DEF SignalsTyped, Procs, Handled, Fetched, PingPong
<1>1. Main1 /\ Quits /\ \A n \in {INT, QUIT} : l # "done" => Fits(n) /\ Held(n)
  BY DEF SuspendInv
<1>2. ASSUME Main1', Quits', \A n \in {INT, QUIT} : l' # "done" => Fits(n)' /\ Held(n)'
      PROVE  SuspendInv'
  BY <1>2 DEF SuspendInv
<1>3. INT \in Standard /\ QUIT \in Standard /\ Understood = {INT, QUIT}
  BY Numbers DEF Understood
<1>s. SoFar \in Seq(Signal)
  <2>1. Sent \in Seq(Signal) /\ step["child"] \in 0..Len(Sent)
    BY <1>0 DEF SignalsFit, SignalsTyped
  <2> QED BY <2>1, SplitAt DEF SoFar
<1>n. \A n : /\ HowOften(n, out) \in Nat /\ HowOften(n, q) \in Nat /\ HowOften(n, mess) \in Nat
             /\ HowOften(n, SoFar) \in Nat /\ Uncounted(n) \in Nat
  BY <1>0, <1>s, HowOftenBoth
<1> HIDE DEF q, l
<1>4. CASE Sender
  <2>1. PICK s \in Signal :
           /\ SoFar \in Seq(Signal) /\ SoFar' = Append(SoFar, s)
           /\ IF l = "done" \/ s[1] \notin Understood THEN pend' = pend
              ELSE q' = Queued(q, s)
    BY <1>4, SenderMeans DEF q, l
  <2>2. mask' = mask /\ out' = out /\ mess' = mess /\ l' = l /\ flag' = flag
    BY <1>4 DEF Sender, l
  <2>3. ASSUME NEW n \in {INT, QUIT}, l # "done"
        PROVE  /\ HowOften(n, q') \in Nat
               /\ HowOften(n, q') <= HowOften(n, q) + (IF s[1] = n THEN 1 ELSE 0)
               /\ Has(SoFar', n) /\ ~Has(q', n) => Has(SoFar, n) /\ ~Has(q, n)
    <3>1. Has(SoFar', n) <=> Has(SoFar, n) \/ s[1] = n
      BY <2>1, HasBoth
    <3>2. CASE s[1] \in Understood
      <4>1. q' = Queued(q, s) /\ n \in Standard
        BY <1>3, <2>1, <2>3, <3>2
      <4>2. /\ HowOften(n, Queued(q, s)) \in Nat
            /\ HowOften(n, Queued(q, s)) <= HowOften(n, q) + (IF s[1] = n THEN 1 ELSE 0)
        BY <1>0, <4>1, HowOftenMore
      <4>3. Has(Queued(q, s), n) <=> Has(q, n) \/ s[1] = n
        BY <1>0, <4>1, HasBoth
      <4> QED BY <3>1, <4>1, <4>2, <4>3
    <3>3. CASE s[1] \notin Understood
      <4>1. q' = q /\ s[1] # n
        BY <1>3, <2>1, <3>3 DEF q
      <4> QED BY <1>n, <3>1, <4>1
    <3> QED BY <3>2, <3>3
  <2>4. ASSUME NEW n \in {INT, QUIT}, l # "done"
        PROVE  Fits(n)'
    <3>1. HowOften(n, SoFar') = HowOften(n, SoFar) + (IF s[1] = n THEN 1 ELSE 0)
      BY <1>3, <2>1, HowOftenMore
    <3>2. Uncounted(n)' = Uncounted(n)
      BY <2>2
    <3>3. \A a, b, c, u, z, d \in Nat : a + b + u <= c /\ z <= b + d => a + z + u <= c + d
      OBVIOUS
    <3>4. Fits(n)
      BY <1>1, <2>4
    <3> HIDE DEF Uncounted
    <3>5. HowOften(n, out) + HowOften(n, q') + Uncounted(n) <= HowOften(n, SoFar')
      <4> DEFINE d == IF s[1] = n THEN 1 ELSE 0
      <4>1. d \in Nat /\ HowOften(n, q') <= HowOften(n, q) + d /\ HowOften(n, q') \in Nat
        BY <2>3, <2>4
      <4>2. HowOften(n, out) + HowOften(n, q') + Uncounted(n) <= HowOften(n, SoFar) + d
        BY <1>n, <3>3, <3>4, <4>1
      <4> QED BY <3>1, <4>2
    <3> QED BY <2>2, <3>2, <3>5
  <2>5. ASSUME NEW n \in {INT, QUIT}, l # "done"
        PROVE  Held(n)'
    BY <1>1, <2>2, <2>3, <2>5
  <2>6. Quits'
    <3>1. CASE l # "done"
      BY <1>1, <2>2, <2>3, <3>1
    <3>2. CASE l = "done"
      BY <1>1, <2>2, <3>2
    <3> QED BY <3>1, <3>2
  <2> HIDE DEF Fits, Held
  <2> QED BY <1>1, <1>2, <2>2, <2>4, <2>5, <2>6
<1>5. CASE Handler
  <2>1. PICK i \in 1..Len(q) : i = FirstOf /\ q[i] \in Signal /\ q' = Without(q, i)
    BY <1>5, HandlerMeans DEF q
  <2>2. /\ mess' = Append(mess, q[i]) /\ out' = out /\ mask' = mask /\ step' = step
        /\ l # "done" /\ flag' = (flag \/ q[i][1] = QUIT)
    BY <1>5, <2>1 DEF Handler, q, l
  <2>3. \A n : /\ Has(q, n) <=> Has(q', n) \/ q[i][1] = n
               /\ HowOften(n, q) = HowOften(n, q') + (IF q[i][1] = n THEN 1 ELSE 0)
    BY <1>0, <2>1, TakenOut
  <2>4. /\ \A n : Has(mess', n) <=> Has(mess, n) \/ q[i][1] = n
        /\ mess' # <<>>
    <3>1. mess' # <<>>
      BY <1>0, <2>1, <2>2, AppendProperties
    <3> QED BY <1>0, <2>1, <2>2, <3>1, HasBoth
  <2>5. SoFar' = SoFar
    BY <2>2 DEF SoFar
  <2>6. l' = IF l \in {"pause", "read"} THEN "woken" ELSE IF l = "blocked" THEN "unblock" ELSE l
    BY <1>0, <1>5 DEF Handler, l
  <2>7. ASSUME NEW n \in {INT, QUIT}
        PROVE  Fits(n)'
    <3> DEFINE d == IF q[i][1] = n THEN 1 ELSE 0
               k == HowOften(n, q')
    <3>1. HowOften(n, mess') = HowOften(n, mess) + d
      BY <1>0, <1>3, <2>1, <2>2, HowOftenMore
    <3>2. k \in Nat
      <4>1. q' \in Seq(Signal)
        BY <1>0, <2>1, TakenOut
      <4> QED BY <4>1, HowOftenBoth
    <3>3. HowOften(n, q) = k + d /\ d \in Nat
      BY <2>3
    <3>4. \A a, b, c, u, e \in Nat :
            a + (b + e) + u <= c => a + b + (u + e) <= c /\ a + b + 0 <= c
      OBVIOUS
    <3>5. Fits(n)
      BY <1>1, <2>2
    <3>6. l' = "counted" <=> l = "counted"
      BY <2>6
    <3> HIDE DEF k, d
    <3>7. CASE l = "counted"
      <4>1. HowOften(n, out) + (k + d) + 0 <= HowOften(n, SoFar)
        BY <3>3, <3>5, <3>7
      <4>2. HowOften(n, out) + k + 0 <= HowOften(n, SoFar)
        BY <1>n, <3>2, <3>3, <3>4, <4>1
      <4> QED BY <2>2, <2>5, <3>6, <3>7, <4>2 DEF k
    <3>8. CASE l # "counted"
      <4>1. HowOften(n, out) + (k + d) + HowOften(n, mess) <= HowOften(n, SoFar)
        BY <3>3, <3>5, <3>8
      <4>2. HowOften(n, out) + k + (HowOften(n, mess) + d) <= HowOften(n, SoFar)
        BY <1>n, <3>2, <3>3, <3>4, <4>1
      <4> QED BY <2>2, <2>5, <3>1, <3>6, <3>8, <4>2 DEF k
    <3> QED BY <3>7, <3>8
  <2>8. ASSUME NEW n \in {INT, QUIT}
        PROVE  Held(n)'
    BY <1>1, <2>2, <2>3, <2>4, <2>5
  <2>9. Main1' /\ Quits'
    BY <1>1, <2>2, <2>3, <2>4, <2>5, <2>6
  <2> HIDE DEF Fits, Held
  <2> QED BY <1>2, <2>7, <2>8, <2>9
<1>6. CASE Suspend
  <2>1. q' = q /\ step' = step /\ SoFar' = SoFar /\ flag' = flag /\ l # "done"
    BY <1>6 DEF Suspend, q, l, SoFar
  <2>2. CASE out' = out /\ mess' = mess /\ l \in {"loop", "pausing"}
    <3>1. /\ l' \in {"done", "pausing", "pause"} /\ (l' = "done" => flag)
          /\ mask' \in {mask, {}}
      BY <1>0, <1>6, <2>2 DEF Suspend, Go, l
    <3>2. l' # "counted" /\ l' # "woken" /\ l # "counted"
      BY <2>2, <3>1
    <3> QED BY <1>1, <1>2, <2>1, <2>2, <3>1, <3>2
  <2>3. CASE out' = out \o mess /\ mess' = mess /\ mask' = mask /\ l = "woken" /\ l' = "counted"
    <3>1. ASSUME NEW n \in {INT, QUIT}
          PROVE  Fits(n)'
      <4>1. HowOften(n, out') = HowOften(n, out) + HowOften(n, mess)
        BY <1>0, <2>3, HowOftenBoth
      <4>2. \A a, b, c, u \in Nat : a + b + u <= c => (a + u) + b + 0 <= c
        OBVIOUS
      <4>3. HowOften(n, out) + HowOften(n, q) + HowOften(n, mess) <= HowOften(n, SoFar)
        BY <1>1, <2>3
      <4>4. (HowOften(n, out) + HowOften(n, mess)) + HowOften(n, q) + 0 <= HowOften(n, SoFar)
        BY <1>n, <4>2, <4>3
      <4> QED BY <2>1, <2>3, <4>1, <4>4
    <3>2. out' # <<>>
      <4>1. mess # <<>>
        BY <1>1, <2>3
      <4>2. Len(mess) \in Nat /\ Len(out) \in Nat /\ Len(mess) # 0
        BY <1>0, <4>1, EmptySeq, LenProperties
      <4>3. out \o mess \in Seq(Signal) /\ Len(out \o mess) = Len(out) + Len(mess)
        BY <1>0, ConcatProperties
      <4>4. Len(out \o mess) # 0
        BY <4>2, <4>3
      <4> QED BY <2>3, <4>3, <4>4, EmptySeq
    <3> HIDE DEF Fits
    <3> QED BY <1>1, <1>2, <2>1, <2>3, <3>1, <3>2
  <2>4. CASE out' = out /\ mess' = <<>> /\ mask' = mask /\ l = "counted" /\ l' = "loop"
    <3>1. ASSUME NEW n \in {INT, QUIT}
          PROVE  Fits(n)'
      <4>1. HowOften(n, mess') = 0
        BY <2>4, OnlyOfNone DEF HowOften
      <4> QED BY <1>1, <2>1, <2>4, <4>1
    <3> HIDE DEF Fits
    <3> QED BY <1>1, <1>2, <2>1, <2>4, <3>1
  <2>5. \/ out' = out /\ mess' = mess /\ l \in {"loop", "pausing"}
        \/ out' = out \o mess /\ mess' = mess /\ mask' = mask /\ l = "woken" /\ l' = "counted"
        \/ out' = out /\ mess' = <<>> /\ mask' = mask /\ l = "counted" /\ l' = "loop"
    BY <1>0, <1>6 DEF Suspend, Go, l
  <2> QED BY <2>2, <2>3, <2>4, <2>5
<1>7. CASE UNCHANGED vars
  <2>1. /\ q' = q /\ mask' = mask /\ out' = out /\ mess' = mess /\ l' = l /\ flag' = flag
        /\ SoFar' = SoFar
    BY <1>7 DEF vars, q, l, SoFar
  <2> QED BY <1>1, <1>2, <2>1
<1>8. Sender \/ Handler \/ Suspend \/ UNCHANGED vars
  BY <1>0 DEF Next, Peers, Main, Deliver, KillPeer, WaitPeer, NextIs, EstablishHandlers, At,
    Unblock, TestDone, Fetch, Messaging, ImpAbort, RaiseMain, EnterHandler, InHandler
<1> QED BY <1>4, <1>5, <1>6, <1>7, <1>8

\* The output of confirm_nodefer.c, as far as it has come.
LEMMA Foretelling ==
  ASSUME NEW n \in 0..7
  PROVE  /\ Append(SubSeq(Foretold, 1, n), Foretold[n + 1]) = SubSeq(Foretold, 1, n + 1)
         /\ Len(SubSeq(Foretold, 1, n)) = n /\ Len(SubSeq(Foretold, 1, 8)) = 8
         /\ SubSeq(Foretold, 1, 0) = <<>> /\ (n # 0 => SubSeq(Foretold, 1, n) # <<>>)
<1> DEFINE S == {"Entered", "Left"}
<1>1. Foretold \in Seq(S) /\ Len(Foretold) = 8
  BY DEF Foretold
<1>2. n \in 0..8 /\ n + 1 \in 1..8 /\ 8 \in 0..8
  OBVIOUS
<1>3. \A k \in 0..8 : Len(SubSeq(Foretold, 1, k)) = k
  BY <1>1
<1>4. Append(SubSeq(Foretold, 1, n), Foretold[n + 1]) = SubSeq(Foretold, 1, n + 1)
  BY <1>1, <1>2
<1>5. SubSeq(Foretold, 1, 0) = <<>> /\ Len(<<>>) = 0
  BY <1>1
<1> QED BY <1>2, <1>3, <1>4, <1>5

\* confirm_nodefer.c goes from each of its states to the next.
LEMMA NoDeferStep ==
  ASSUME SignalsTyped, NoDeferInv, [Next]_vars
  PROVE  NoDeferInv'
<1>t. tool' = tool
  BY DEF Next, Peers, Sender, Main, Deliver, Handler, EnterHandler, Unblock, TestDone,
    EstablishHandlers, Fetch, Messaging, Suspend, ImpAbort, RaiseMain, InHandler, vars,
    KillPeer, WaitPeer
<1> SUFFICES ASSUME tool = "confirm_nodefer"
             PROVE  NoDeferInv'
  BY <1>t DEF NoDeferInv
<1> DEFINE raised == pend["parent"] # <<>>
           nodefer == pc["parent"] = "nodefer"
           F(n) == SubSeq(Foretold, 1, n)
<1>0. /\ tool \notin Handled /\ tool \notin Fetched /\ tool \notin PingPong
      /\ "parent" \in Procs
      /\ USR \in {USR} /\ USR \notin {} /\ step["parent"] \in Nat
  BY DEF SignalsTyped, Procs, Handled, Fetched, PingPong
<1>q. Kill("parent", <<USR, 0>>) => raised'
  <2>1. \A z \in Seq(Signal) : Queued(z, <<USR, 0>>) # <<>>
    <3> SUFFICES ASSUME NEW z \in Seq(Signal) PROVE Queued(z, <<USR, 0>>) # <<>>
      OBVIOUS
    <3>1. Has(Queued(z, <<USR, 0>>), USR)
      BY RaisesTyped, HasBoth, Numbers
    <3> QED BY <3>1 DEF Has
  <2> QED BY <1>0, <2>1, KillTyped, RaisesTyped DEF SignalsTyped
<1>1. RaiseMain =>
        /\ mess = <<>> /\ ~raised /\ step["parent"] < 2 /\ mask' = mask /\ mess' = mess
        /\ \/ /\ out = <<>> \/ (Len(out) = 4 /\ nodefer)
              /\ ~flag /\ raised' /\ out' = out /\ flag' = flag
              /\ step'["parent"] = step["parent"] /\ (nodefer' <=> nodefer)
           \/ /\ flag /\ out' = Append(out, "Left") /\ flag' = FALSE /\ nodefer'
              /\ step'["parent"] = step["parent"] + 1 /\ ~raised'
  <2> SUFFICES ASSUME RaiseMain
               PROVE  /\ mess = <<>> /\ ~raised /\ step["parent"] < 2 /\ mask' = mask /\ mess' = mess
                      /\ \/ /\ out = <<>> \/ (Len(out) = 4 /\ nodefer)
                            /\ ~flag /\ raised' /\ out' = out /\ flag' = flag
                            /\ step'["parent"] = step["parent"] /\ (nodefer' <=> nodefer)
                         \/ /\ flag /\ out' = Append(out, "Left") /\ flag' = FALSE /\ nodefer'
                            /\ step'["parent"] = step["parent"] + 1 /\ ~raised'
    OBVIOUS
  <2>1. Go("nodefer") => nodefer'
    BY <1>0 DEF Go, SignalsTyped
  <2>2. Advance("parent") => step'["parent"] = step["parent"] + 1
    BY <1>0 DEF Advance, SignalsTyped
  <2> QED BY <1>q, <2>1, <2>2 DEF RaiseMain
<1>2. EnterHandler =>
        /\ raised /\ USR \notin mask /\ ~raised' /\ out' = Append(out, "Entered")
        /\ mess' = <<IF flag THEN "return" ELSE "raise">> \o mess
        /\ mask' = (IF nodefer THEN {} ELSE {USR})
        /\ flag' = flag /\ step'["parent"] = step["parent"] /\ (nodefer' <=> nodefer)
  BY <1>0 DEF EnterHandler, SignalsTyped
<1>3. InHandler =>
        /\ mess # <<>> /\ (~raised \/ USR \in mask)
        /\ step'["parent"] = step["parent"] /\ (nodefer' <=> nodefer)
        /\ \/ /\ Head(mess) = "raise" /\ flag' = TRUE /\ raised'
              /\ mess' = <<"left">> \o Tail(mess) /\ mask' = mask /\ out' = out
           \/ /\ Head(mess) = "left" /\ out' = Append(out, "Left") /\ mess' = Tail(mess)
              /\ mask' = {} /\ (raised' <=> raised) /\ flag' = flag
           \/ /\ Head(mess) \notin {"raise", "left"} /\ mess' = Tail(mess) /\ mask' = {}
              /\ (raised' <=> raised) /\ out' = out /\ flag' = flag
  BY <1>q DEF InHandler
<1>4. /\ F(0) = <<>> /\ Append(F(0), "Entered") = F(1) /\ Append(F(1), "Left") = F(2)
      /\ Append(F(2), "Entered") = F(3) /\ Append(F(3), "Left") = F(4)
      /\ Append(F(4), "Entered") = F(5) /\ Append(F(5), "Entered") = F(6)
      /\ Append(F(6), "Left") = F(7) /\ Append(F(7), "Left") = F(8)
  <2>1. /\ Foretold[1] = "Entered" /\ Foretold[2] = "Left" /\ Foretold[3] = "Entered"
        /\ Foretold[4] = "Left" /\ Foretold[5] = "Entered" /\ Foretold[6] = "Entered"
        /\ Foretold[7] = "Left" /\ Foretold[8] = "Left"
    BY DEF Foretold
  <2>2. \A n \in 0..7 : Append(F(n), Foretold[n + 1]) = F(n + 1)
    BY Foretelling
  <2>3. F(0) = <<>>
    BY Foretelling
  <2>4. /\ 0 + 1 = 1 /\ 1 + 1 = 2 /\ 2 + 1 = 3 /\ 3 + 1 = 4 /\ 4 + 1 = 5 /\ 5 + 1 = 6
        /\ 6 + 1 = 7
        /\ 7 + 1 = 8 /\ 0..7 = {0, 1, 2, 3, 4, 5, 6, 7}
    OBVIOUS
  <2> HIDE DEF F
  <2>5. Append(F(0), Foretold[1]) = F(1) /\ Append(F(1), Foretold[2]) = F(2)
    BY <2>2, <2>4, Zenon
  <2>6. Append(F(2), Foretold[3]) = F(3) /\ Append(F(3), Foretold[4]) = F(4)
    BY <2>2, <2>4, Zenon
  <2>7. Append(F(4), Foretold[5]) = F(5) /\ Append(F(5), Foretold[6]) = F(6)
    BY <2>2, <2>4, Zenon
  <2>8. Append(F(6), Foretold[7]) = F(7) /\ Append(F(7), Foretold[8]) = F(8)
    BY <2>2, <2>4, Zenon
  <2> QED BY <2>1, <2>3, <2>5, <2>6, <2>7, <2>8
<1>5. /\ Len(F(0)) = 0 /\ Len(F(1)) = 1 /\ Len(F(2)) = 2 /\ Len(F(3)) = 3 /\ Len(F(4)) = 4
      /\ Len(F(5)) = 5 /\ Len(F(6)) = 6 /\ Len(F(7)) = 7 /\ Len(F(8)) = 8 /\ Len(<<>>) = 0
  <2>1. \A n \in 0..7 : Len(F(n)) = n /\ Len(F(8)) = 8
    BY Foretelling
  <2>2. 0..7 = {0, 1, 2, 3, 4, 5, 6, 7} /\ Len(<<>>) = 0
    OBVIOUS
  <2> HIDE DEF F
  <2> QED BY <2>1, <2>2, Zenon
<1> DEFINE none == <<>>  raise == <<"raise">>  left == <<"left">>  return == <<"return">>
           both == <<"return", "left">>
<1>6. /\ none # raise /\ none # left /\ none # return /\ none # both /\ return # both
      /\ EnterHandler /\ mess = none => mess' = IF flag THEN return ELSE raise
      /\ EnterHandler /\ mess = left /\ flag => mess' = both
      /\ InHandler /\ mess = raise =>
           flag' = TRUE /\ raised' /\ mess' = left /\ mask' = mask /\ out' = out
      /\ InHandler /\ mess = left =>
           /\ out' = Append(out, "Left") /\ mess' = none /\ mask' = {} /\ (raised' <=> raised)
           /\ flag' = flag
      /\ InHandler /\ mess \in {return, both} =>
           /\ mess' = (IF mess = return THEN none ELSE left) /\ mask' = {} /\ (raised' <=> raised)
           /\ out' = out /\ flag' = flag
  <2>1. none # raise /\ none # left /\ none # return /\ none # both /\ return # both
    <3>1. /\ <<"raise">> # <<>> /\ <<"left">> # <<>> /\ <<"return">> # <<>>
          /\ <<"return", "left">> # <<>> /\ <<"return">> # <<"return", "left">>
      OBVIOUS
    <3> QED BY <3>1
  <2>2. /\ <<"raise">> \o <<>> = <<"raise">> /\ <<"return">> \o <<>> = <<"return">>
        /\ <<"return">> \o <<"left">> = <<"return", "left">>
        /\ <<"left">> \o <<>> = <<"left">>
    <3> DEFINE S == {"raise", "return", "left"}
    <3>1. <<"raise">> \in Seq(S) /\ <<"return">> \in Seq(S) /\ <<"left">> \in Seq(S)
      OBVIOUS
    <3>2. Append(<<"return">>, "left") = <<"return", "left">>
      <4> DEFINE a == Append(<<"return">>, "left")  b == <<"return", "left">>
      <4>1. b \in Seq(S) /\ Len(b) = 2 /\ b[1] = "return" /\ b[2] = "left"
        OBVIOUS
      <4>2. a \in Seq(S) /\ Len(a) = 2 /\ a[1] = "return" /\ a[2] = "left"
        <5>1. Len(<<"return">>) = 1 /\ <<"return">>[1] = "return" /\ "left" \in S
          OBVIOUS
        <5> QED BY <3>1, <5>1, AppendProperties
      <4>3. \A i \in 1..2 : i = 1 \/ i = 2
        OBVIOUS
      <4> HIDE DEF a, b
      <4>4. \A i \in 1..Len(a) : a[i] = b[i]
        BY <4>1, <4>2, <4>3
      <4>5. a = b
        BY <4>1, <4>2, <4>4, SeqEqual
      <4> QED BY <4>5 DEF a, b
    <3>3. Append(<<"return">>, "left") = <<"return">> \o <<"left">>
      BY <3>1, AppendIsConcat
    <3>4. \A z \in Seq(S) : z \o <<>> = z
      BY ConcatEmptySeq
    <3> QED BY <3>1, <3>2, <3>3, <3>4
  <2>3. Tail(<<"raise">>) = <<>> /\ Tail(<<"return">>) = <<>> /\ Tail(<<"left">>) = <<>>
    OBVIOUS
  <2>4. Tail(<<"return", "left">>) = <<"left">>
    OBVIOUS
  <2>5. /\ Head(<<"return", "left">>) = "return" /\ Head(<<"raise">>) = "raise"
        /\ Head(<<"return">>) = "return" /\ Head(<<"left">>) = "left"
    OBVIOUS
  <2>6. /\ EnterHandler /\ mess = none => mess' = IF flag THEN return ELSE raise
        /\ EnterHandler /\ mess = left /\ flag => mess' = both
    BY <1>2, <2>2
  <2>7. InHandler /\ mess = raise =>
          flag' = TRUE /\ raised' /\ mess' = left /\ mask' = mask /\ out' = out
    BY <1>3, <2>2, <2>3, <2>5
  <2>8. InHandler /\ mess = left =>
          /\ out' = Append(out, "Left") /\ mess' = none /\ mask' = {} /\ (raised' <=> raised)
          /\ flag' = flag
    BY <1>3, <2>3, <2>5
  <2>9. InHandler /\ mess = return =>
          mess' = none /\ mask' = {} /\ (raised' <=> raised) /\ out' = out /\ flag' = flag
    BY <1>3, <2>3, <2>5
  <2>10. InHandler /\ mess = both =>
          mess' = left /\ mask' = {} /\ (raised' <=> raised) /\ out' = out /\ flag' = flag
    BY <1>3, <2>4, <2>5
  <2> HIDE DEF none, raise, left, return, both
  <2> QED BY <2>1, <2>6, <2>7, <2>8, <2>9, <2>10
<1>e. /\ RaiseMain => mess = none
      /\ InHandler => /\ mess # none /\ (~raised \/ USR \in mask)
                      /\ step'["parent"] = step["parent"] /\ (nodefer' <=> nodefer)
      /\ EnterHandler =>
           /\ raised /\ USR \notin mask /\ ~raised' /\ out' = Append(out, "Entered")
           /\ mask' = (IF nodefer THEN {} ELSE {USR})
           /\ flag' = flag /\ step'["parent"] = step["parent"] /\ (nodefer' <=> nodefer)
  BY <1>1, <1>2, <1>3
<1>7. CASE UNCHANGED vars
  BY <1>7 DEF vars, NoDeferInv, NoDefer
<1>8. ASSUME RaiseMain \/ EnterHandler \/ InHandler
      PROVE  NoDeferInv'
  <2> DEFINE Now(n, r, m, running, f, k) ==
               /\ out = F(n) /\ (r <=> raised) /\ mask = m /\ mess = running /\ flag = f
               /\ step["parent"] = k /\ (nodefer <=> k > 0)
  <2>a. \A n, r, m, running, f, k :
          /\ NoDefer(n, r, m, running, f, k) <=> Now(n, r, m, running, f, k)
          /\ NoDefer(n, r, m, running, f, k)' <=> Now(n, r, m, running, f, k)'
    BY DEF NoDefer
  <2>b. \/ Now(0, FALSE, {}, none, FALSE, 0)
        \/ Now(0, TRUE, {}, none, FALSE, 0)
        \/ Now(1, FALSE, {USR}, raise, FALSE, 0)
        \/ Now(1, TRUE, {USR}, left, TRUE, 0)
        \/ Now(2, TRUE, {}, none, TRUE, 0)
        \/ Now(3, FALSE, {USR}, return, TRUE, 0)
        \/ Now(3, FALSE, {}, none, TRUE, 0)
        \/ Now(4, FALSE, {}, none, FALSE, 1)
        \/ Now(4, TRUE, {}, none, FALSE, 1)
        \/ Now(5, FALSE, {}, raise, FALSE, 1)
        \/ Now(5, TRUE, {}, left, TRUE, 1)
        \/ Now(6, FALSE, {}, both, TRUE, 1)
        \/ Now(6, FALSE, {}, left, TRUE, 1)
        \/ Now(7, FALSE, {}, none, TRUE, 1)
        \/ Now(8, FALSE, {}, none, FALSE, 2)
    BY <2>a DEF NoDeferInv
  <2>0. RaiseMain \/ EnterHandler \/ InHandler
    BY <1>8
  <2> HIDE DEF raised, nodefer, F, none, raise, left, return, both
  <2>1. CASE Now(0, FALSE, {}, none, FALSE, 0)
    <3>1. RaiseMain
      BY <1>1, <1>5, <1>6, <1>e, <2>0, <2>1
    <3>2. out' = F(0) /\ mess' = none
      BY <1>1, <1>4, <1>5, <1>6, <1>e, <2>1, <3>1
    <3>3. raised' /\ mask' = {} /\ flag' = FALSE
      BY <1>1, <1>5, <1>6, <1>e, <2>1, <3>1
    <3>4. step'["parent"] = 0 /\ ~nodefer'
      BY <1>1, <1>5, <1>6, <1>e, <2>1, <3>1
    <3>5. NoDefer(0, TRUE, {}, <<>>, FALSE, 0)'
      BY <3>2, <3>3, <3>4 DEF NoDefer, F, raised, nodefer, none, raise, left, return, both
    <3> QED BY <1>t, <3>5 DEF NoDeferInv
  <2>2. CASE Now(0, TRUE, {}, none, FALSE, 0)
    <3>1. EnterHandler
      BY <1>1, <1>5, <1>6, <1>e, <2>0, <2>2
    <3>2. out' = F(1) /\ mess' = raise
      BY <1>1, <1>4, <1>5, <1>6, <1>e, <2>2, <3>1
    <3>3. ~raised' /\ mask' = {USR} /\ flag' = FALSE
      BY <1>1, <1>5, <1>6, <1>e, <2>2, <3>1
    <3>4. step'["parent"] = 0 /\ ~nodefer'
      BY <1>1, <1>5, <1>6, <1>e, <2>2, <3>1
    <3>5. NoDefer(1, FALSE, {USR}, <<"raise">>, FALSE, 0)'
      BY <3>2, <3>3, <3>4 DEF NoDefer, F, raised, nodefer, none, raise, left, return, both
    <3> QED BY <1>t, <3>5 DEF NoDeferInv
  <2>3. CASE Now(1, FALSE, {USR}, raise, FALSE, 0)
    <3>1. InHandler
      BY <1>1, <1>5, <1>6, <1>e, <2>0, <2>3
    <3>2. out' = F(1) /\ mess' = left
      BY <1>1, <1>4, <1>5, <1>6, <1>e, <2>3, <3>1
    <3>3. raised' /\ mask' = {USR} /\ flag' = TRUE
      BY <1>1, <1>5, <1>6, <1>e, <2>3, <3>1
    <3>4. step'["parent"] = 0 /\ ~nodefer'
      BY <1>1, <1>5, <1>6, <1>e, <2>3, <3>1
    <3>5. NoDefer(1, TRUE, {USR}, <<"left">>, TRUE, 0)'
      BY <3>2, <3>3, <3>4 DEF NoDefer, F, raised, nodefer, none, raise, left, return, both
    <3> QED BY <1>t, <3>5 DEF NoDeferInv
  <2>4. CASE Now(1, TRUE, {USR}, left, TRUE, 0)
    <3>1. InHandler
      BY <1>1, <1>5, <1>6, <1>e, <2>0, <2>4
    <3>2. out' = F(2) /\ mess' = none
      BY <1>1, <1>4, <1>5, <1>6, <1>e, <2>4, <3>1
    <3>3. raised' /\ mask' = {} /\ flag' = TRUE
      BY <1>1, <1>5, <1>6, <1>e, <2>4, <3>1
    <3>4. step'["parent"] = 0 /\ ~nodefer'
      BY <1>1, <1>5, <1>6, <1>e, <2>4, <3>1
    <3>5. NoDefer(2, TRUE, {}, <<>>, TRUE, 0)'
      BY <3>2, <3>3, <3>4 DEF NoDefer, F, raised, nodefer, none, raise, left, return, both
    <3> QED BY <1>t, <3>5 DEF NoDeferInv
  <2>5. CASE Now(2, TRUE, {}, none, TRUE, 0)
    <3>1. EnterHandler
      BY <1>1, <1>5, <1>6, <1>e, <2>0, <2>5
    <3>2. out' = F(3) /\ mess' = return
      BY <1>1, <1>4, <1>5, <1>6, <1>e, <2>5, <3>1
    <3>3. ~raised' /\ mask' = {USR} /\ flag' = TRUE
      BY <1>1, <1>5, <1>6, <1>e, <2>5, <3>1
    <3>4. step'["parent"] = 0 /\ ~nodefer'
      BY <1>1, <1>5, <1>6, <1>e, <2>5, <3>1
    <3>5. NoDefer(3, FALSE, {USR}, <<"return">>, TRUE, 0)'
      BY <3>2, <3>3, <3>4 DEF NoDefer, F, raised, nodefer, none, raise, left, return, both
    <3> QED BY <1>t, <3>5 DEF NoDeferInv
  <2>6. CASE Now(3, FALSE, {USR}, return, TRUE, 0)
    <3>1. InHandler
      BY <1>1, <1>5, <1>6, <1>e, <2>0, <2>6
    <3>2. out' = F(3) /\ mess' = none
      BY <1>1, <1>4, <1>5, <1>6, <1>e, <2>6, <3>1
    <3>3. ~raised' /\ mask' = {} /\ flag' = TRUE
      BY <1>1, <1>5, <1>6, <1>e, <2>6, <3>1
    <3>4. step'["parent"] = 0 /\ ~nodefer'
      BY <1>1, <1>5, <1>6, <1>e, <2>6, <3>1
    <3>5. NoDefer(3, FALSE, {}, <<>>, TRUE, 0)'
      BY <3>2, <3>3, <3>4 DEF NoDefer, F, raised, nodefer, none, raise, left, return, both
    <3> QED BY <1>t, <3>5 DEF NoDeferInv
  <2>7. CASE Now(3, FALSE, {}, none, TRUE, 0)
    <3>1. RaiseMain
      BY <1>1, <1>5, <1>6, <1>e, <2>0, <2>7
    <3>2. out' = F(4) /\ mess' = none
      BY <1>1, <1>4, <1>5, <1>6, <1>e, <2>7, <3>1
    <3>3. ~raised' /\ mask' = {} /\ flag' = FALSE
      BY <1>1, <1>5, <1>6, <1>e, <2>7, <3>1
    <3>4. step'["parent"] = 1 /\ nodefer'
      BY <1>1, <1>5, <1>6, <1>e, <2>7, <3>1
    <3>5. NoDefer(4, FALSE, {}, <<>>, FALSE, 1)'
      BY <3>2, <3>3, <3>4 DEF NoDefer, F, raised, nodefer, none, raise, left, return, both
    <3> QED BY <1>t, <3>5 DEF NoDeferInv
  <2>8. CASE Now(4, FALSE, {}, none, FALSE, 1)
    <3>1. RaiseMain
      BY <1>1, <1>5, <1>6, <1>e, <2>0, <2>8
    <3>2. out' = F(4) /\ mess' = none
      BY <1>1, <1>4, <1>5, <1>6, <1>e, <2>8, <3>1
    <3>3. raised' /\ mask' = {} /\ flag' = FALSE
      BY <1>1, <1>5, <1>6, <1>e, <2>8, <3>1
    <3>4. step'["parent"] = 1 /\ nodefer'
      BY <1>1, <1>5, <1>6, <1>e, <2>8, <3>1
    <3>5. NoDefer(4, TRUE, {}, <<>>, FALSE, 1)'
      BY <3>2, <3>3, <3>4 DEF NoDefer, F, raised, nodefer, none, raise, left, return, both
    <3> QED BY <1>t, <3>5 DEF NoDeferInv
  <2>9. CASE Now(4, TRUE, {}, none, FALSE, 1)
    <3>1. EnterHandler
      BY <1>1, <1>5, <1>6, <1>e, <2>0, <2>9
    <3>2. out' = F(5) /\ mess' = raise
      BY <1>1, <1>4, <1>5, <1>6, <1>e, <2>9, <3>1
    <3>3. ~raised' /\ mask' = {} /\ flag' = FALSE
      BY <1>1, <1>5, <1>6, <1>e, <2>9, <3>1
    <3>4. step'["parent"] = 1 /\ nodefer'
      BY <1>1, <1>5, <1>6, <1>e, <2>9, <3>1
    <3>5. NoDefer(5, FALSE, {}, <<"raise">>, FALSE, 1)'
      BY <3>2, <3>3, <3>4 DEF NoDefer, F, raised, nodefer, none, raise, left, return, both
    <3> QED BY <1>t, <3>5 DEF NoDeferInv
  <2>10. CASE Now(5, FALSE, {}, raise, FALSE, 1)
    <3>1. InHandler
      BY <1>1, <1>5, <1>6, <1>e, <2>0, <2>10
    <3>2. out' = F(5) /\ mess' = left
      BY <1>1, <1>4, <1>5, <1>6, <1>e, <2>10, <3>1
    <3>3. raised' /\ mask' = {} /\ flag' = TRUE
      BY <1>1, <1>5, <1>6, <1>e, <2>10, <3>1
    <3>4. step'["parent"] = 1 /\ nodefer'
      BY <1>1, <1>5, <1>6, <1>e, <2>10, <3>1
    <3>5. NoDefer(5, TRUE, {}, <<"left">>, TRUE, 1)'
      BY <3>2, <3>3, <3>4 DEF NoDefer, F, raised, nodefer, none, raise, left, return, both
    <3> QED BY <1>t, <3>5 DEF NoDeferInv
  <2>11. CASE Now(5, TRUE, {}, left, TRUE, 1)
    <3>1. EnterHandler
      BY <1>1, <1>5, <1>6, <1>e, <2>0, <2>11
    <3>2. out' = F(6) /\ mess' = both
      BY <1>1, <1>4, <1>5, <1>6, <1>e, <2>11, <3>1
    <3>3. ~raised' /\ mask' = {} /\ flag' = TRUE
      BY <1>1, <1>5, <1>6, <1>e, <2>11, <3>1
    <3>4. step'["parent"] = 1 /\ nodefer'
      BY <1>1, <1>5, <1>6, <1>e, <2>11, <3>1
    <3>5. NoDefer(6, FALSE, {}, <<"return", "left">>, TRUE, 1)'
      BY <3>2, <3>3, <3>4 DEF NoDefer, F, raised, nodefer, none, raise, left, return, both
    <3> QED BY <1>t, <3>5 DEF NoDeferInv
  <2>12. CASE Now(6, FALSE, {}, both, TRUE, 1)
    <3>1. InHandler
      BY <1>1, <1>5, <1>6, <1>e, <2>0, <2>12
    <3>2. out' = F(6) /\ mess' = left
      BY <1>1, <1>4, <1>5, <1>6, <1>e, <2>12, <3>1
    <3>3. ~raised' /\ mask' = {} /\ flag' = TRUE
      BY <1>1, <1>5, <1>6, <1>e, <2>12, <3>1
    <3>4. step'["parent"] = 1 /\ nodefer'
      BY <1>1, <1>5, <1>6, <1>e, <2>12, <3>1
    <3>5. NoDefer(6, FALSE, {}, <<"left">>, TRUE, 1)'
      BY <3>2, <3>3, <3>4 DEF NoDefer, F, raised, nodefer, none, raise, left, return, both
    <3> QED BY <1>t, <3>5 DEF NoDeferInv
  <2>13. CASE Now(6, FALSE, {}, left, TRUE, 1)
    <3>1. InHandler
      BY <1>1, <1>5, <1>6, <1>e, <2>0, <2>13
    <3>2. out' = F(7) /\ mess' = none
      BY <1>1, <1>4, <1>5, <1>6, <1>e, <2>13, <3>1
    <3>3. ~raised' /\ mask' = {} /\ flag' = TRUE
      BY <1>1, <1>5, <1>6, <1>e, <2>13, <3>1
    <3>4. step'["parent"] = 1 /\ nodefer'
      BY <1>1, <1>5, <1>6, <1>e, <2>13, <3>1
    <3>5. NoDefer(7, FALSE, {}, <<>>, TRUE, 1)'
      BY <3>2, <3>3, <3>4 DEF NoDefer, F, raised, nodefer, none, raise, left, return, both
    <3> QED BY <1>t, <3>5 DEF NoDeferInv
  <2>14. CASE Now(7, FALSE, {}, none, TRUE, 1)
    <3>1. RaiseMain
      BY <1>1, <1>5, <1>6, <1>e, <2>0, <2>14
    <3>2. out' = F(8) /\ mess' = none
      BY <1>1, <1>4, <1>5, <1>6, <1>e, <2>14, <3>1
    <3>3. ~raised' /\ mask' = {} /\ flag' = FALSE
      BY <1>1, <1>5, <1>6, <1>e, <2>14, <3>1
    <3>4. step'["parent"] = 2 /\ nodefer'
      BY <1>1, <1>5, <1>6, <1>e, <2>14, <3>1
    <3>5. NoDefer(8, FALSE, {}, <<>>, FALSE, 2)'
      BY <3>2, <3>3, <3>4 DEF NoDefer, F, raised, nodefer, none, raise, left, return, both
    <3> QED BY <1>t, <3>5 DEF NoDeferInv
  <2>15. CASE Now(8, FALSE, {}, none, FALSE, 2)
    BY <1>1, <1>6, <1>e, <2>0, <2>15
  <2> QED BY <2>b, <2>1, <2>2, <2>3, <2>4, <2>5, <2>6, <2>7, <2>8, <2>9, <2>10, <2>11,
    <2>12, <2>13, <2>14, <2>15
<1>9. RaiseMain \/ EnterHandler \/ InHandler \/ UNCHANGED vars
  BY <1>0 DEF Next, Peers, Main, Deliver, KillPeer, WaitPeer, NextIs, EstablishHandlers, At,
    Unblock, TestDone, Fetch, Messaging, Suspend, ImpAbort, Sender, Handler
<1> QED BY <1>7, <1>8, <1>9

\* The invariant holds at first.
LEMMA SignalsInit == ASSUME SignalsFit PROVE Init => SigInv
<1> SUFFICES ASSUME Init PROVE SigInv
  OBVIOUS
<1>0. /\ "parent" \in Procs /\ "child" \in Procs /\ "nobody" \notin Procs
      /\ <<>> \in Seq(Signal)
      /\ Len(Sent) \in Nat /\ Rounds \in Nat
  BY DEF SignalsFit, Procs
<1>1. SignalsTyped
  <2>1. mask \subseteq Every
    BY DEF Init, Every
  <2>2. pc \in [Procs -> Places]
    BY DEF Init, Places
  <2> QED BY <1>0, <2>1, <2>2 DEF Init, SignalsTyped
<1>2. Turn(0, 0, "nobody")
  BY <1>0 DEF Init, Turn
<1>3. TurnsInv
  <2>1. 0 \in 0..2 * Rounds
    BY <1>0
  <2> QED BY <1>2, <2>1 DEF TurnsInv
<1>4. SoFar = <<>> /\ out = <<>> /\ mess = <<>> /\ pend["parent"] = <<>>
  BY <1>0, NothingSent DEF Init, SoFar
<1>5. ReceiverInv
  <2>1. RealTime(<<>>) = <<>> /\ HowOften(USR, <<>>) = 0 /\ <<>> \o <<>> = <<>>
    BY OnlyOfNone DEF RealTime, HowOften
  <2>2. Accounted(<<>>, <<>>, <<>>)
    <3> DEFINE e == <<>>
    <3>1. RealTime(e) \o RealTime(e) = RealTime(e) /\ HowOften(USR, e) = 0
      BY <2>1
    <3> HIDE DEF e
    <3>2. Accounted(e, e, e)
      BY <3>1 DEF Accounted
    <3> QED BY <3>2 DEF e
  <2>3. tool \in {"catch_rtsigs", "sig_receiver"} => mask \in {{}, Every \ {INT}, Every}
    BY DEF Init, PingPong, Fetched
  <2> QED BY <1>4, <2>2, <2>3 DEF ReceiverInv
<1>6. LettersInv
  <2>1. tool = "signal_messaging" => mask = {}
    BY DEF Init, PingPong, Fetched
  <2> QED BY <1>4, <2>1 DEF LettersInv, Ascending, Before, ToBeSent
<1>7. SuspendInv
  <2>1. tool = "t_sigsuspend" => mask = {INT, QUIT} /\ pc["parent"] = "loop"
    BY <1>0 DEF Init, PingPong, Fetched
  <2>2. \A n : HowOften(n, <<>>) = 0 /\ ~Has(<<>>, n)
    <3>1. Len(<<>>) = 0
      OBVIOUS
    <3> QED BY <3>1, OnlyOfNone DEF HowOften, Has
  <2>3. SoFar = <<>> /\ out = <<>> /\ mess = <<>> /\ pend["parent"] = <<>>
    BY <1>4
  <2> QED BY <2>1, <2>2, <2>3 DEF SuspendInv
<1>8. NoDeferInv
  <2>1. tool = "confirm_nodefer" => mask = {} /\ pc["parent"] = "loop"
    BY <1>0 DEF Init, PingPong, Fetched
  <2>2. SubSeq(Foretold, 1, 0) = <<>>
    BY Foretelling
  <2>3. flag = FALSE /\ step["parent"] = 0
    BY <1>0 DEF Init
  <2>4. tool = "confirm_nodefer" => NoDefer(0, FALSE, {}, <<>>, FALSE, 0)
    BY <1>4, <2>1, <2>2, <2>3 DEF NoDefer
  <2> QED BY <2>4 DEF NoDeferInv
<1> QED BY <1>1, <1>3, <1>5, <1>6, <1>7, <1>8 DEF SigInv

\* Every step keeps it.
LEMMA SignalsStep == ASSUME SignalsFit PROVE SigInv /\ [Next]_vars => SigInv'
BY SignalsTypeStep, TurnsStep, ReceiverStep, LettersStep, SuspendStep, NoDeferStep DEF
  SigInv

\* It says what the run checks.
LEMMA SignalsMeans == ASSUME SignalsFit PROVE SigInv => SignalsArrive
<1> SUFFICES ASSUME SigInv PROVE SignalsArrive
  OBVIOUS
<1> USE DEF SigInv
<1>0. /\ SignalsTyped /\ \A p \in Procs : p = "child" \/ p = "parent"
      /\ "child" \in Procs /\ "parent" \in Procs /\ "nobody" \notin Procs
      /\ Peer("child") = "parent" /\ Peer("parent") = "child"
  BY DEF Procs, Peer
<1>1. ASSUME tool \in PingPong, NEW p \in Procs, NextIs(p, "wait"), pend[p] = <<>>
      PROVE  /\ step[Peer(p)] < Len(Script(Peer(p)))
             /\ NextIs(Peer(p), "wait") => pend[Peer(p)] # <<>>
  <2>1. \A c, d, to : Turn(c, d, to) =>
          /\ step["child"] = c /\ step["parent"] = d
          /\ to \in Procs => pend[to] # <<>>
    BY DEF Turn
  <2>2. CASE tool \in {"sig_speed_sigwaitinfo", "sig_speed_sigsuspend"}
    <3>1. PICK n \in 0..2 * Rounds : Rounded(n)
      BY <2>2 DEF TurnsInv, Rounded
    <3>2. /\ step[p] < 2 * Rounds /\ Len(Script(Peer(p))) = 2 * Rounds /\ Rounds \in Nat
          /\ (step[p] + 1) % 2 # (IF p = "child" THEN 1 ELSE 0)
          /\ NextIs(Peer(p), "wait") =>
               (step[Peer(p)] + 1) % 2 # (IF Peer(p) = "child" THEN 1 ELSE 0)
      BY <1>0, <1>1, <2>2, NextInRounds, RoundsAlternate
    <3>3. CASE Turn(n, n, "nobody")
      BY <1>0, <2>1, <3>2, <3>3
    <3>4. CASE n < 2 * Rounds /\ n % 2 = 0 /\ Turn(n + 1, n, "parent")
      BY <1>0, <1>1, <2>1, <3>2, <3>4
    <3>5. CASE n < 2 * Rounds /\ n % 2 = 1 /\ Turn(n, n + 1, "child")
      BY <1>0, <1>1, <2>1, <3>2, <3>5
    <3> QED BY <3>1, <3>3, <3>4, <3>5 DEF Rounded
  <2>3. CASE tool = "fork_sig_sync"
    <3>1. /\ p = "parent" /\ step["parent"] = 0 /\ ~NextIs("child", "wait")
          /\ Len(Script("child")) = 1
      BY <1>0, <1>1, <2>3, NextInOthers
    <3> QED BY <1>0, <1>1, <2>1, <2>3, <3>1 DEF TurnsInv
  <2>4. CASE tool = "double_wait"
    <3>1. /\ NextIs("child", "wait") => step["child"] = 0
          /\ NextIs("parent", "wait") => step["parent"] = 1
          /\ Len(Script("child")) = 2 /\ Len(Script("parent")) = 2
      BY <1>0, <2>4, NextInOthers
    <3>2. CASE p = "child"
      BY <1>0, <1>1, <2>1, <2>4, <3>1, <3>2 DEF TurnsInv
    <3>3. CASE p = "parent"
      BY <1>0, <1>1, <2>1, <2>4, <3>1, <3>3 DEF TurnsInv
    <3> QED BY <1>0, <3>2, <3>3
  <2> QED BY <1>1, <2>2, <2>3, <2>4 DEF PingPong
<1>2. tool \in {"catch_rtsigs", "sig_receiver"} \union Fetched /\ pc["parent"] # "done" =>
        Accounted(out, pend["parent"], SoFar)
  BY DEF ReceiverInv
<1>3. tool = "signal_messaging" => \A i, j \in 1..Len(out) : i < j => out[i][2] < out[j][2]
  BY DEF LettersInv, Ascending
<1>4. ASSUME tool = "t_sigsuspend"
      PROVE  /\ \A n \in Understood : pc["parent"] # "done" =>
                  /\ HowOften(n, out) + HowOften(n, pend["parent"]) <= HowOften(n, SoFar)
                  /\ Has(SoFar, n) /\ out = <<>> => Has(mess, n) \/ Has(pend["parent"], n)
             /\ Has(SoFar, QUIT) => flag \/ Has(pend["parent"], QUIT)
  <2>0. Understood = {INT, QUIT} /\ tool \in Handled
    BY <1>4 DEF Understood, Handled
  <2>1. /\ out \in Seq(Signal) /\ mess \in Seq(Signal) /\ pend["parent"] \in Seq(Signal)
        /\ SoFar \in Seq(Signal)
    <3>1. Sent \in Seq(Signal) /\ step["child"] \in 0..Len(Sent)
      BY <1>0, <2>0 DEF SignalsFit, SignalsTyped
    <3>2. SoFar \in Seq(Signal)
      BY <3>1, SplitAt DEF SoFar
    <3> QED BY <1>0, <2>0, <3>2 DEF SignalsTyped
  <2>2. \A n : /\ HowOften(n, out) \in Nat /\ HowOften(n, pend["parent"]) \in Nat
               /\ HowOften(n, mess) \in Nat /\ HowOften(n, SoFar) \in Nat
    BY <2>1, HowOftenBoth
  <2>3. \A a, b, c, u \in Nat : a + b + u <= c => a + b <= c
    OBVIOUS
  <2>4. ASSUME NEW n \in {INT, QUIT}, pc["parent"] # "done"
        PROVE  HowOften(n, out) + HowOften(n, pend["parent"]) <= HowOften(n, SoFar)
    <3> DEFINE u == IF pc["parent"] = "counted" THEN 0 ELSE HowOften(n, mess)
    <3>1. u \in Nat /\ HowOften(n, out) + HowOften(n, pend["parent"]) + u <= HowOften(n, SoFar)
      BY <1>4, <2>2, <2>4 DEF SuspendInv
    <3> QED BY <2>2, <2>3, <3>1
  <2> QED BY <1>4, <2>0, <2>4 DEF SuspendInv
<1>5. ASSUME tool = "confirm_nodefer"
      PROVE  out = SubSeq(Foretold, 1, Len(out))
  <2>1. PICK n \in 0..8 : out = SubSeq(Foretold, 1, n)
    BY <1>5 DEF NoDeferInv, NoDefer
  <2>2. Len(SubSeq(Foretold, 1, n)) = n
    <3>1. n \in 0..7 \/ n = 8
      OBVIOUS
    <3> QED BY <3>1, Foretelling
  <2> QED BY <2>1, <2>2
<1> QED BY <1>0, <1>1, <1>2, <1>3, <1>4, <1>5 DEF SignalsArrive, Foretold
=============================================================================
