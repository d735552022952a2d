------------------------------ MODULE NvServer --------------------------------
(***************************************************************************)
(* 59_Sockets_Internet_Domain/nv_sv.c and its client nv_cl.c: a server of  *)
(* name-value pairs that takes one connection at a time.  Two trees of     *)
(* lib/binary_tree.c hold the values and, under the same names, the        *)
(* passwords; each is here the map that tree implements (KeyValueMap).     *)
(*                                                                         *)
(* A client stands for its password, and runs nv_cl.c again when its last  *)
(* request has been taken.  Names, values and passwords fit their fields;  *)
(* malloc, accept and a client's write do not fail.                        *)
(***************************************************************************)
EXTENDS Integers, Sequences, FiniteSets

CONSTANTS
  Clients, Keys, Values,
  None         \* no password

VARIABLES
  tree,        \* tree: a function from the names that are there to values
  auth_tree,   \* the same of passwords
  backlog,     \* the clients that are connected and not accepted yet
  spc, cfd,    \* the server, and the client it has accepted
  cpc,         \* cpc[c]: where client c is
  first,       \* auxiliary: first[k], who added name k first of all
  creator      \* auxiliary: creator[k], who added the pair that is there

vars == <<tree, auth_tree, backlog, spc, cfd, cpc, first, creator>>
trees == <<tree, auth_tree, first, creator>>

EmptyTree == [k \in {} |-> None]

Init ==
  /\ tree = EmptyTree /\ auth_tree = EmptyTree
  /\ backlog = <<>> /\ spc = "accept" /\ cfd \in Clients
  /\ cpc = [c \in Clients |-> "start"]
  /\ first = [k \in Keys |-> None] /\ creator = first

-----------------------------------------------------------------------------
\* bt_add: a name that is there keeps its value.
Added(map, k, v) == IF k \in DOMAIN map THEN map
                    ELSE [j \in DOMAIN map \cup {k} |-> IF j = k THEN v ELSE map[j]]

\* bt_lookup: -1 only from an empty tree; in any other a miss is a NULL
\* dereference.
Looked(map, k) == IF k \in DOMAIN map THEN "found"
                  ELSE IF DOMAIN map = {} THEN "missing" ELSE "crash"

Accept ==
  /\ spc = "accept" /\ backlog # <<>>
  /\ cfd' = Head(backlog) /\ backlog' = Tail(backlog)
  /\ spc' = "read"
  /\ UNCHANGED <<trees, cpc>>

\* read() of what the client that was accepted has sent, close(cfd); the client
\* is free to connect again.
Served(outcome) ==
  /\ spc = "read" /\ cpc[cfd] = "sent"
  /\ spc' = IF outcome = "crash" THEN "crashed" ELSE "accept"
  /\ cpc' = [cpc EXCEPT ![cfd] = "start"]
  /\ UNCHANGED <<backlog, cfd>>

DropPartial == Served("dropped") /\ UNCHANGED trees

\* Mutant: the last one to try an add owns the name.
AddOverwrites(k, v) ==
  /\ Served("added")
  /\ tree' = Added(tree, k, v)
  /\ auth_tree' = [j \in DOMAIN auth_tree \cup {k} |->
                     IF j = k THEN cfd ELSE auth_tree[j]]
  /\ first' = [first EXCEPT ![k] = IF @ = None THEN cfd ELSE @]
  /\ creator' = [creator EXCEPT ![k] = IF k \in DOMAIN tree THEN @ ELSE cfd]

\* CMD_ADD: a duplicate in one tree does not keep it from the other.
Add(k, v) ==
  /\ Served("added")
  /\ tree' = Added(tree, k, v)
  /\ auth_tree' = Added(auth_tree, k, cfd)
  /\ first' = [first EXCEPT ![k] = IF @ = None THEN cfd ELSE @]
  /\ creator' = [creator EXCEPT ![k] = IF k \in DOMAIN tree THEN @ ELSE cfd]

Authentic(k) == k \in DOMAIN auth_tree /\ auth_tree[k] = cfd

\* CMD_DEL and CMD_MOD: "Key doesn't exist", "Couldn't authenticate", or the
\* crash of the lookup.
Refuse(k) ==
  /\ Served(Looked(auth_tree, k)) /\ ~Authentic(k)
  /\ UNCHANGED trees

\* CMD_DEL leaves auth_tree alone.
Delete(k) ==
  /\ Served("deleted") /\ Authentic(k)
  /\ tree' = [j \in DOMAIN tree \ {k} |-> tree[j]]
  /\ UNCHANGED <<auth_tree, first, creator>>

\* CMD_MOD
Modify(k, v) ==
  /\ Served(Looked(tree, k)) /\ Authentic(k)
  /\ tree' = [j \in DOMAIN tree |-> IF j = k THEN v ELSE tree[j]]
  /\ UNCHANGED <<auth_tree, first, creator>>

\* CMD_GET: the value is printed by the server; the client hears nothing.
Get(k) == Served(Looked(tree, k)) /\ UNCHANGED trees

\* The request is chosen when it is read: nobody looks at it before.
Server == \/ Accept \/ DropPartial
          \/ \E k \in Keys : \/ Refuse(k) \/ Delete(k) \/ Get(k)
                             \/ \E v \in Values : Add(k, v) \/ Modify(k, v)

-----------------------------------------------------------------------------
Connect(c) ==
  /\ cpc[c] = "start" /\ spc # "crashed"
  /\ cpc' = [cpc EXCEPT ![c] = "connected"]
  /\ backlog' = Append(backlog, c)
  /\ UNCHANGED <<trees, spc, cfd>>

\* nv_cl.c writes the whole request at once; another client may write less and
\* close, or nothing for ever.
Write(c) ==
  /\ cpc[c] = "connected"
  /\ cpc' = [cpc EXCEPT ![c] = "sent"]
  /\ UNCHANGED <<trees, backlog, spc, cfd>>

Next == Server \/ \E c \in Clients : Connect(c) \/ Write(c)

Spec == Init /\ [][Next]_vars

\* The server runs.  Nothing is assumed of the clients.
FairSpec == Spec /\ WF_vars(Server)

-----------------------------------------------------------------------------
TypeOK ==
  /\ DOMAIN tree \subseteq Keys /\ \A k \in DOMAIN tree : tree[k] \in Values
  /\ DOMAIN auth_tree \subseteq Keys
  /\ \A k \in DOMAIN auth_tree : auth_tree[k] \in Clients
  /\ backlog \in Seq(Clients) /\ spc \in {"accept", "read", "crashed"}
  /\ cfd \in Clients /\ cpc \in [Clients -> {"start", "connected", "sent"}]
  /\ {first, creator} \subseteq [Keys -> Clients \cup {None}]

\* The pair with name k is removed or changed, by the client that is served.
Changes(k) == k \in DOMAIN tree /\ (k \notin DOMAIN tree' \/ tree'[k] # tree[k])

(***************************************************************************)
(* A pair is removed or changed only for the client that was the first of  *)
(* all to add its name, even if the name was deleted and added by others   *)
(* since: auth_tree keeps every password it was ever given.                *)
(***************************************************************************)
FirstAdderDecides == [][\A k \in Keys : Changes(k) => cfd = first[k]]_vars

(***************************************************************************)
(* README.md of chapter 59, exercise 59-4: "only the client that created   *)
(* the name to delete it or to modify the value associated with it".       *)
(***************************************************************************)
CreatorDecides == [][\A k \in Keys : Changes(k) => cfd = creator[k]]_vars

\* Every pair has a password, so that a request for it is not refused, or the
\* server brought down, for lack of one.
PairsHavePasswords == DOMAIN tree \subseteq DOMAIN auth_tree

\* A client that has sent its request is served, unless the server waits for
\* ever for another that stays connected and sends nothing.
RequestsAreServed ==
  \/ <>[](spc = "read" /\ cpc[cfd] = "connected")
  \/ \A c \in Clients : cpc[c] = "sent" ~> cpc[c] = "start" \/ spc = "crashed"
=============================================================================
