------------------------------- MODULE TsBTree -------------------------------
(***************************************************************************)
(* 30_Thread_Synchronhization/ts_btree.h: an unbalanced binary search tree *)
(* whose nodes each carry a mutex.  A thread goes down the tree hand over  *)
(* hand: it locks the child, then unlocks the parent, then looks at the    *)
(* child's key.                                                            *)
(*                                                                         *)
(* The tree header and the nodes are treated alike, as OWNERS of a mutex   *)
(* and of the pointers that mutex protects: the header owns the slot       *)
(* `root', a node owns `left' and `right'.                                 *)
(*                                                                         *)
(* Not modelled: a failing malloc or pthread call, and the stored values.  *)
(***************************************************************************)
EXTENDS Integers, Sequences, FiniteSets

CONSTANTS
  Threads,    \* the threads that call the tree
  Keys,       \* the keys; strcmp orders them as the integers are ordered
  Nodes,      \* the addresses malloc may return for a node
  Tree,       \* the BTree_ts header
  Null,       \* NULL; also "no thread" and "no key written yet"
  Works       \* programs: work[t] is the set of calls thread t makes, each
              \* once, in any order

Call == [op : {"add", "lookup", "delete", "print"}, key : Keys]

ASSUME KeysAssumption  == Keys \subseteq Int /\ Keys # {}
ASSUME NullAssumption  == Null \notin Nodes \cup Threads \cup Keys \cup {Tree}
ASSUME TreeAssumption  == Tree \notin Nodes
ASSUME WorksAssumption == Works \subseteq [Threads -> SUBSET Call]

Owners == Nodes \cup {Tree}
Slots  == {<<Tree, "root">>} \cup (Nodes \X {"left", "right"})

VARIABLES
  child,    \* child[s]: the pointer stored in slot s
  key,      \* key[n]: the key of node n, Null until bt_create_node_ts wrote it
  mtx,      \* mtx[o]: the thread that holds the mutex of owner o
  pc,       \* pc[t]: where thread t is
  call,     \* call[t]: the call thread t is executing, or its last one
  cur,      \* cur[t]: the owner thread t has locked and stands at
  nxt,      \* nxt[t]: the child thread t goes to, or the node it creates
  stack,    \* stack[t]: the nodes bt_print_rec_ts has still to visit
  todo,     \* todo[t]: the calls thread t has still to make
  result,   \* result[t]: what the last call of t returned
  crashed,  \* a thread dereferenced an invalid pointer; the process is gone
  range     \* auxiliary: range[n], the keys whose search goes through node n

vars == <<child, key, mtx, pc, call, cur, nxt, stack, todo, result, crashed,
          range>>

(***************************************************************************)
(* The slot where a search for k continues from owner o (strcmp_rv < 0 or  *)
(* not), and the keys that are searched for through slot s.                *)
(***************************************************************************)
SlotOf(o, k) == IF o = Tree THEN <<Tree, "root">>
                ELSE <<o, IF k < key[o] THEN "left" ELSE "right">>

SlotRange(s) ==
  IF s[1] = Tree THEN Keys
  ELSE {k \in range[s[1]] : \/ s[2] = "left" /\ k < key[s[1]]
                            \/ s[2] = "right" /\ k > key[s[1]]}

\* malloc returns a block no pointer refers to: nodes are never freed here.
Allocated == {child[s] : s \in Slots} \ {Null}

\* bt_initialize_ts, and every thread about to start its work.
Init ==
  /\ child = [s \in Slots |-> Null]
  /\ key = [n \in Nodes |-> Null]
  /\ mtx = [o \in Owners |-> Null]
  /\ pc = [t \in Threads |-> "idle"]
  /\ call = [t \in Threads |-> CHOOSE c \in Call : TRUE]
  /\ cur = [t \in Threads |-> Tree]
  /\ nxt = [t \in Threads |-> Null]
  /\ stack = [t \in Threads |-> <<>>]
  /\ todo \in Works
  /\ result = [t \in Threads |-> 0]
  /\ crashed = FALSE
  /\ range = [n \in Nodes |-> {}]

-----------------------------------------------------------------------------
(* Steps shared by the operations.                                         *)

At(t, l) == ~crashed /\ pc[t] = l
GoTo(t, l) == pc' = [pc EXCEPT ![t] = l]

Lock(t, o) == mtx[o] = Null /\ mtx' = [mtx EXCEPT ![o] = t]
Unlock(o) == mtx' = [mtx EXCEPT ![o] = Null]

\* A segmentation fault ends every thread of the process.
Crash == /\ crashed' = TRUE
         /\ UNCHANGED <<child, key, mtx, pc, call, cur, nxt, stack, todo,
                        result, range>>

Op(t) == call[t].op
Key(t) == call[t].key
Slot(t) == SlotOf(cur[t], Key(t))
KeyHere(t) == cur[t] # Tree /\ key[cur[t]] = Key(t)

\* if (c != NULL) bt_print_rec_ts(c)
Follow(c) == IF c = Null THEN <<>> ELSE <<c>>

Begin(t) ==
  /\ At(t, "idle")
  /\ \E c \in todo[t] :
       /\ todo' = [todo EXCEPT ![t] = @ \ {c}]
       /\ call' = [call EXCEPT ![t] = c]
  /\ GoTo(t, "lockTree")
  /\ UNCHANGED <<child, key, mtx, cur, nxt, stack, result, crashed, range>>

LockTree(t) ==
  /\ At(t, "lockTree")
  /\ Lock(t, Tree)
  /\ cur' = [cur EXCEPT ![t] = Tree]
  /\ IF Op(t) = "print"
     THEN /\ GoTo(t, "print")
          /\ stack' = [stack EXCEPT ![t] = Follow(child[<<Tree, "root">>])]
     ELSE GoTo(t, "at") /\ UNCHANGED stack
  /\ UNCHANGED <<child, key, call, nxt, todo, result, crashed, range>>

\* The pointer is not NULL: go on to the child, still holding the parent.
Descend(t) ==
  /\ At(t, "at")
  /\ ~KeyHere(t)
  /\ child[Slot(t)] # Null
  /\ nxt' = [nxt EXCEPT ![t] = child[Slot(t)]]
  /\ GoTo(t, "lockChild")
  /\ UNCHANGED <<child, key, mtx, call, cur, stack, todo, result, crashed,
                 range>>

LockChild(t) ==
  /\ At(t, "lockChild")
  /\ Lock(t, nxt[t])
  /\ GoTo(t, "unlockParent")
  /\ UNCHANGED <<child, key, call, cur, nxt, stack, todo, result, crashed,
                 range>>

UnlockParent(t) ==
  /\ At(t, "unlockParent")
  /\ Unlock(cur[t])
  /\ cur' = [cur EXCEPT ![t] = nxt[t]]
  /\ GoTo(t, "at")
  /\ UNCHANGED <<child, key, call, nxt, stack, todo, result, crashed, range>>

\* The unlock of the owner t stands at, then `return r'.
Leave(t) ==
  /\ At(t, "leave")
  /\ Unlock(cur[t])
  /\ GoTo(t, "idle")
  /\ UNCHANGED <<child, key, call, cur, nxt, stack, todo, result, crashed,
                 range>>

LeaveWith(t, r) == GoTo(t, "leave") /\ result' = [result EXCEPT ![t] = r]

-----------------------------------------------------------------------------
(* bt_add_ts, bt_add_rec_ts and bt_create_node_ts.                         *)

\* strcmp_rv == 0: errno = EINVAL, and -1 is returned with the node locked
\* (ReturnLocked: the `return rv' that no UNLOCK precedes).
AddDuplicate(t) ==
  /\ At(t, "at") /\ Op(t) = "add"
  /\ KeyHere(t)
  /\ GoTo(t, "return")
  /\ result' = [result EXCEPT ![t] = -1]
  /\ UNCHANGED <<child, key, mtx, call, cur, nxt, stack, todo, crashed, range>>

ReturnLocked(t) ==
  /\ At(t, "return")
  /\ GoTo(t, "idle")
  /\ UNCHANGED <<child, key, mtx, call, cur, nxt, stack, todo, result, crashed,
                 range>>

\* Mutant: the node is unlocked before bt_create_node_ts instead of after it.
AddUnlocksTooEarly(t) ==
  /\ At(t, "at") /\ Op(t) = "add"
  /\ ~KeyHere(t)
  /\ child[Slot(t)] = Null
  /\ Unlock(cur[t])
  /\ GoTo(t, "create")
  /\ UNCHANGED <<child, key, call, cur, nxt, stack, todo, result, crashed,
                 range>>

AddFindsRoom(t) ==
  /\ At(t, "at") /\ Op(t) = "add"
  /\ ~KeyHere(t)
  /\ child[Slot(t)] = Null
  /\ GoTo(t, "create")
  /\ UNCHANGED <<child, key, mtx, call, cur, nxt, stack, todo, result, crashed,
                 range>>

\* malloc's result goes straight into the tree, before the node is filled in.
PublishNode(t) ==
  /\ At(t, "create")
  /\ \E n \in Nodes \ Allocated :
       /\ child' = [child EXCEPT ![Slot(t)] = n]
       /\ nxt' = [nxt EXCEPT ![t] = n]
       /\ range' = [range EXCEPT ![n] = SlotRange(Slot(t))]
  /\ GoTo(t, "fill")
  /\ UNCHANGED <<key, mtx, call, cur, stack, todo, result, crashed>>

\* Mutant: the UNLOCK after bt_create_node_ts is missing.
FillKeepsLock(t) ==
  /\ At(t, "fill")
  /\ key' = [key EXCEPT ![nxt[t]] = Key(t)]
  /\ child' = [child EXCEPT ![<<nxt[t], "left">>] = Null,
                            ![<<nxt[t], "right">>] = Null]
  /\ GoTo(t, "return")
  /\ result' = [result EXCEPT ![t] = 0]
  /\ UNCHANGED <<mtx, call, cur, nxt, stack, todo, crashed, range>>

FillNode(t) ==
  /\ At(t, "fill")
  /\ key' = [key EXCEPT ![nxt[t]] = Key(t)]
  /\ child' = [child EXCEPT ![<<nxt[t], "left">>] = Null,
                            ![<<nxt[t], "right">>] = Null]
  /\ LeaveWith(t, 0)
  /\ UNCHANGED <<mtx, call, cur, nxt, stack, todo, crashed, range>>

-----------------------------------------------------------------------------
(* bt_find_node_ts, with its two callers bt_lookup_ts and bt_delete_ts.    *)

\* An empty tree: unlock the header and return -1.
TreeEmpty(t) ==
  /\ At(t, "at") /\ Op(t) \in {"lookup", "delete"}
  /\ cur[t] = Tree /\ child[Slot(t)] = Null
  /\ LeaveWith(t, -1)
  /\ UNCHANGED <<child, key, mtx, call, cur, nxt, stack, todo, crashed, range>>

\* bt_find_node_ts unlocks the last node and returns NULL to its caller.
FindFails(t) ==
  /\ At(t, "at") /\ Op(t) \in {"lookup", "delete"}
  /\ cur[t] # Tree /\ ~KeyHere(t) /\ child[Slot(t)] = Null
  /\ Unlock(cur[t])
  /\ GoTo(t, "notFound")
  /\ result' = [result EXCEPT ![t] = -1]
  /\ UNCHANGED <<child, key, call, cur, nxt, stack, todo, crashed, range>>

DeleteMisses(t) ==
  /\ At(t, "notFound") /\ Op(t) = "delete"
  /\ GoTo(t, "idle")
  /\ UNCHANGED <<child, key, mtx, call, cur, nxt, stack, todo, result, crashed,
                 range>>

\* bt_lookup_ts goes on to UNLOCK((*target->node)->mtx) with target == NULL.
LookupMisses(t) == At(t, "notFound") /\ Op(t) = "lookup" /\ Crash

LookupFinds(t) ==
  /\ At(t, "at") /\ Op(t) = "lookup"
  /\ KeyHere(t)
  /\ LeaveWith(t, 0)
  /\ UNCHANGED <<child, key, mtx, call, cur, nxt, stack, todo, crashed, range>>

DeleteFinds(t) ==
  /\ At(t, "at") /\ Op(t) = "delete"
  /\ KeyHere(t)
  /\ GoTo(t, "lockLeft")
  /\ result' = [result EXCEPT ![t] = 0]
  /\ UNCHANGED <<child, key, mtx, call, cur, nxt, stack, todo, crashed, range>>

\* LOCK(target_left->mtx) and LOCK(target_right->mtx) come before the children
\* are counted, so a node with fewer than two children is a NULL dereference.
DeleteLocks(t, here, dir, next) ==
  LET c == child[<<cur[t], dir>>] IN
  /\ At(t, here)
  /\ c # Null
  /\ Lock(t, c)
  /\ GoTo(t, next)
  /\ UNCHANGED <<child, key, call, cur, nxt, stack, todo, result, crashed,
                 range>>

DeleteLocksLeft(t)  == DeleteLocks(t, "lockLeft", "left", "lockRight")
DeleteLocksRight(t) == DeleteLocks(t, "lockRight", "right", "unlockLeft")

DeleteFaults(t) ==
  /\ \/ At(t, "lockLeft") /\ child[<<cur[t], "left">>] = Null
     \/ At(t, "lockRight") /\ child[<<cur[t], "right">>] = Null
  /\ Crash

\* case 2 of the switch is empty: nothing is removed.
DeleteUnlocksLeft(t) ==
  /\ At(t, "unlockLeft")
  /\ Unlock(child[<<cur[t], "left">>])
  /\ GoTo(t, "unlockRight")
  /\ UNCHANGED <<child, key, call, cur, nxt, stack, todo, result, crashed,
                 range>>

\* The target itself, locked by bt_find_node_ts, is not unlocked.
DeleteUnlocksRight(t) ==
  /\ At(t, "unlockRight")
  /\ Unlock(child[<<cur[t], "right">>])
  /\ GoTo(t, "idle")
  /\ UNCHANGED <<child, key, call, cur, nxt, stack, todo, result, crashed,
                 range>>

-----------------------------------------------------------------------------
(* bt_print_ts and bt_print_rec_ts: the header is locked, no node is.      *)

Children(n) == Follow(child[<<n, "right">>]) \o Follow(child[<<n, "left">>])

PrintVisits(t) ==
  /\ At(t, "print") /\ stack[t] # <<>>
  /\ key[Head(stack[t])] # Null
  /\ stack' = [stack EXCEPT ![t] = Children(Head(@)) \o Tail(@)]
  /\ UNCHANGED <<child, key, mtx, pc, call, cur, nxt, todo, result, crashed,
                 range>>

\* A node still being filled in: its fields are whatever malloc returned.
PrintReadsGarbage(t) ==
  /\ At(t, "print") /\ stack[t] # <<>>
  /\ key[Head(stack[t])] = Null
  /\ \/ Crash
     \/ /\ stack' = [stack EXCEPT ![t] = Tail(@)]
        /\ UNCHANGED <<child, key, mtx, pc, call, cur, nxt, todo, result,
                       crashed, range>>

PrintEnds(t) ==
  /\ At(t, "print") /\ stack[t] = <<>>
  /\ LeaveWith(t, 0)
  /\ UNCHANGED <<child, key, mtx, call, cur, nxt, stack, todo, crashed, range>>

-----------------------------------------------------------------------------
Step(t) ==
  \/ Begin(t) \/ LockTree(t) \/ Descend(t) \/ LockChild(t) \/ UnlockParent(t)
  \/ Leave(t)
  \/ AddDuplicate(t) \/ ReturnLocked(t) \/ AddFindsRoom(t) \/ PublishNode(t) \/ FillNode(t)
  \/ TreeEmpty(t) \/ FindFails(t) \/ DeleteMisses(t) \/ LookupMisses(t)
  \/ LookupFinds(t) \/ DeleteFinds(t) \/ DeleteLocksLeft(t)
  \/ DeleteLocksRight(t) \/ DeleteFaults(t) \/ DeleteUnlocksLeft(t)
  \/ DeleteUnlocksRight(t)
  \/ PrintVisits(t) \/ PrintReadsGarbage(t) \/ PrintEnds(t)

\* pthread_join in main: every thread has done its work.
Joined == ~crashed /\ \A t \in Threads : pc[t] = "idle" /\ todo[t] = {}

Done == Joined /\ UNCHANGED vars

Next == (\E t \in Threads : Step(t)) \/ Done

Spec == Init /\ [][Next]_vars

\* The scheduler runs every thread that can run.
FairSpec == Spec /\ \A t \in Threads : WF_vars(Step(t))

-----------------------------------------------------------------------------
(* Properties.                                                             *)

PCs == {"idle", "lockTree", "at", "lockChild", "unlockParent", "create",
        "fill", "leave", "return", "notFound", "lockLeft", "lockRight", "unlockLeft",
        "unlockRight", "print"}

\* The type of every variable, with every node pointer NULL or a node.
TypeOK ==
  /\ child \in [Slots -> Nodes \cup {Null}]
  /\ key \in [Nodes -> Keys \cup {Null}]
  /\ mtx \in [Owners -> Threads \cup {Null}]
  /\ pc \in [Threads -> PCs]
  /\ call \in [Threads -> Call]
  /\ cur \in [Threads -> Owners]
  /\ nxt \in [Threads -> Nodes \cup {Null}]
  /\ stack \in [Threads -> Seq(Nodes)]
  /\ todo \in [Threads -> SUBSET Call]
  /\ result \in [Threads -> {0, -1}]
  /\ crashed \in BOOLEAN
  /\ range \in [Nodes -> SUBSET Keys]

Filled(n) == key[n] # Null

\* The keys in the tree.
KeySet == {key[n] : n \in {m \in Nodes : Filled(m)}}

(***************************************************************************)
(* No two nodes ever get the same key, whatever the interleaving of the    *)
(* adds: between the comparison that finds no room-mate and the node's     *)
(* creation another thread may be adding the same key further up.          *)
(***************************************************************************)
KeysUnique ==
  \A m, n \in Nodes : Filled(m) /\ key[m] = key[n] => m = n

\* Where an undisturbed search for k goes from owner o; and where it stops.
SearchNext(o, k) ==
  IF (o # Tree /\ key[o] = k) \/ child[SlotOf(o, k)] = Null THEN o
  ELSE child[SlotOf(o, k)]

SearchPath(k) ==
  LET down[d \in 0..Cardinality(Nodes)] ==
        IF d = 0 THEN Tree ELSE SearchNext(down[d - 1], k)
  IN  down

SearchEnd(k) == SearchPath(k)[Cardinality(Nodes)]

\* A key that was stored is found by every later search: no add ever unlinks
\* or hides what another one has stored.
StoredKeysAreFound ==
  \A n \in Nodes : Filled(n) => SearchEnd(key[n]) = n

\* A thread that holds the node it stands at sees a node that is filled in:
\* bt_create_node_ts publishes it early, but under its parent's mutex.
NodesSeenAreFilled ==
  \A t \in Threads : pc[t] = "at" /\ cur[t] # Tree => Filled(cur[t])

(***************************************************************************)
(* Threads that only add, and never the same key, get through their work:  *)
(* hand-over-hand locking does not deadlock.  (A duplicate add and a       *)
(* delete leave their node locked, and others wait for it for ever.)       *)
(***************************************************************************)
DistinctAdds ==
  /\ \A t \in Threads : \A c \in todo[t] : c.op = "add"
  /\ \A t, u \in Threads : t # u => todo[t] \cap todo[u] = {}

AllThreadsFinish == DistinctAdds => <>Joined

(***************************************************************************)
(* The inductive invariant behind TypeOK, KeysUnique and NodesSeenAreFilled.*)
(* The keys not yet stored are divided among the OPEN slots, those where a *)
(* node may still be filled in: an open slot's keys are in no node and in  *)
(* no other open slot's share.                                             *)
(***************************************************************************)
Dir == {"left", "right"}

OpenSlot(s) == /\ s[1] = Tree \/ Filled(s[1])
               /\ child[s] = Null \/ ~Filled(child[s])

TreeInv ==
  /\ \A s1, s2 \in Slots : child[s1] # Null /\ child[s1] = child[s2] => s1 = s2
  /\ \A n \in Nodes : ~Filled(n) => \A d \in Dir : child[<<n, d>>] = Null
  /\ \A n \in Nodes : Filled(n) => /\ key[n] \in range[n]
                                  /\ \E s \in Slots : child[s] = n
  /\ \A s \in Slots : child[s] # Null => range[child[s]] = SlotRange(s)

ShareInv ==
  /\ \A s1, s2 \in Slots : OpenSlot(s1) /\ OpenSlot(s2) /\ s1 # s2
                             => SlotRange(s1) \cap SlotRange(s2) = {}
  /\ \A s \in Slots, n \in Nodes : OpenSlot(s) /\ Filled(n)
                                     => key[n] \notin SlotRange(s)

\* A node is unfilled only while its creator holds the parent.
BirthInv ==
  \A s \in Slots : child[s] # Null /\ ~Filled(child[s]) =>
    \E t \in Threads : pc[t] = "fill" /\ Slot(t) = s

Holding == PCs \ {"idle", "lockTree", "notFound", "return"}
Searching == {"at", "lockChild", "unlockParent", "create", "fill"}
Deleting == {"lockLeft", "lockRight", "unlockLeft", "unlockRight"}

HasChild(t, d) == /\ child[<<cur[t], d>>] # Null
                  /\ mtx[child[<<cur[t], d>>]] = t

ThreadInv(t) ==
  /\ pc[t] \in Holding => mtx[cur[t]] = t
  /\ pc[t] \in Searching /\ cur[t] # Tree =>
       Filled(cur[t]) /\ Key(t) \in range[cur[t]]
  /\ pc[t] \in {"lockChild", "unlockParent"} =>
       /\ ~KeyHere(t) /\ nxt[t] # Null
       /\ nxt[t] = child[Slot(t)] /\ Filled(nxt[t])
  /\ pc[t] = "unlockParent" => mtx[nxt[t]] = t
  /\ pc[t] = "create" => ~KeyHere(t) /\ child[Slot(t)] = Null
  /\ pc[t] = "fill" => /\ ~KeyHere(t) /\ nxt[t] # Null
                       /\ nxt[t] = child[Slot(t)] /\ ~Filled(nxt[t])
  /\ pc[t] \in Deleting => cur[t] # Tree
  /\ pc[t] \in {"lockRight", "unlockLeft"} => HasChild(t, "left")
  /\ pc[t] \in {"unlockLeft", "unlockRight"} => HasChild(t, "right")

IndInv == /\ TypeOK /\ KeysUnique /\ TreeInv /\ ShareInv /\ BirthInv
          /\ \A t \in Threads : ThreadInv(t)

(***************************************************************************)
(* The tree is a concurrent set.  An add takes effect when it has filled   *)
(* its node in; a lookup or delete that finds its key when it compares     *)
(* equal; a call that fails when it sees the key, or the empty slot.       *)
(***************************************************************************)
Phase(t) ==
  CASE pc[t] = "idle" -> "idle"
    [] pc[t] \in {"lockLeft", "lockRight", "unlockLeft", "unlockRight",
                  "notFound", "leave", "return"} -> "done"
    [] OTHER -> "called"

ConcurrentSet ==
  INSTANCE ConcurrentSet WITH
    set   <- KeySet,
    phase <- [t \in Threads |-> Phase(t)],
    req   <- call,
    res   <- result

IsConcurrentSet == ConcurrentSet!SSpec

\* A thread that is not in a call holds no mutex.
IdleHoldsNoMutex ==
  \A t \in Threads, o \in Owners : mtx[o] = t => pc[t] # "idle"
=============================================================================
