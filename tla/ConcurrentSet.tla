---------------------------- MODULE ConcurrentSet ----------------------------
(***************************************************************************)
(* What the tree of chapter 30 promises (exercise 30-2: thread-safe add,   *)
(* delete and lookup): every call takes effect at one instant between its  *)
(* invocation and its return, on one set of keys.                          *)
(***************************************************************************)
EXTENDS Integers

CONSTANTS Threads, Call

VARIABLES
  set,     \* the keys in the set
  phase,   \* phase[t]: "idle", "called" or "done" (took effect, not returned)
  req,     \* req[t]: the call of thread t
  res      \* res[t]: its result: 0, or -1 for a duplicate or a missing key

svars == <<set, phase, req, res>>

SInit ==
  /\ set = {}
  /\ phase = [t \in Threads |-> "idle"]
  /\ req \in [Threads -> Call]
  /\ res = [t \in Threads |-> 0]

Invoke(t) ==
  /\ phase[t] = "idle"
  /\ \E c \in Call : req' = [req EXCEPT ![t] = c]
  /\ phase' = [phase EXCEPT ![t] = "called"]
  /\ UNCHANGED <<set, res>>

\* A key is added when it is absent, and found or deleted when it is present.
Succeeds(c) == CASE c.op = "add" -> c.key \notin set
                 [] c.op \in {"lookup", "delete"} -> c.key \in set
                 [] OTHER -> TRUE

Effect(t) ==
  /\ phase[t] = "called"
  /\ phase' = [phase EXCEPT ![t] = "done"]
  /\ res' = [res EXCEPT ![t] = IF Succeeds(req[t]) THEN 0 ELSE -1]
  /\ set' = CASE req[t].op = "add"    -> set \cup {req[t].key}
              [] req[t].op = "delete" -> set \ {req[t].key}
              [] OTHER -> set
  /\ UNCHANGED req

Respond(t) ==
  /\ phase[t] = "done"
  /\ phase' = [phase EXCEPT ![t] = "idle"]
  /\ UNCHANGED <<set, req, res>>

SSpec == SInit /\ [][\E t \in Threads : Invoke(t) \/ Effect(t) \/ Respond(t)]_svars
=============================================================================
