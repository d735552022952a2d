---------------------------- MODULE TsBTreeProofs ----------------------------
(***************************************************************************)
(* Proofs about TsBTree, for any number of threads, keys and nodes and any *)
(* work: every variable keeps its type, no key is ever stored twice, a     *)
(* thread never stands at a half-built node, a search comes to every key   *)
(* that is stored, and without deletes the tree is a concurrent set.       *)
(***************************************************************************)
EXTENDS TsBTree, FiniteSetTheorems, DataLemmas, TLAPS

Assumptions == /\ KeysAssumption /\ NullAssumption /\ TreeAssumption
               /\ WorksAssumption

\* Threads other than t keep their locals and the mutexes they hold.
LocalTo(t) ==
  \A u \in Threads \ {t} :
    /\ pc'[u] = pc[u] /\ call'[u] = call[u]
    /\ cur'[u] = cur[u] /\ nxt'[u] = nxt[u]
    /\ \A o \in Owners : mtx[o] = u => mtx'[o] = u

SameTree == UNCHANGED <<child, key, range>>

-----------------------------------------------------------------------------
(* Shape of the tree.                                                      *)

\* A slot a thread stands at is a slot of the owner it stands at.
LEMMA SlotType ==
  ASSUME NEW o \in Owners, NEW k
  PROVE  SlotOf(o, k) \in Slots /\ SlotOf(o, k)[1] = o
BY TreeAssumption DEF SlotOf, Slots, Owners

\* No node is its own child: its key is outside the range of both its slots.
LEMMA NoLoop ==
  ASSUME TypeOK, TreeInv, NEW n \in Nodes, NEW d \in Dir
  PROVE  child[<<n, d>>] # n
<1> SUFFICES ASSUME child[<<n, d>>] = n PROVE FALSE
  OBVIOUS
<1>1. <<n, d>> \in Slots /\ n # Null
  BY NullAssumption DEF Slots, Dir
<1>2. Filled(n)
  BY <1>1 DEF TreeInv, Filled
<1>3. key[n] \in SlotRange(<<n, d>>)
  BY <1>1, <1>2 DEF TreeInv
<1>4. key[n] \in Keys
  BY <1>2 DEF TypeOK, Filled
<1>5. n # Tree /\ <<n, d>>[1] = n
  BY TreeAssumption
<1>6. key[n] < key[n] \/ key[n] > key[n]
  BY <1>3, <1>5 DEF SlotRange
<1>7. key[n] \in Int
  BY <1>4, KeysAssumption
<1> QED
  BY <1>6, <1>7

-----------------------------------------------------------------------------
(* Steps that leave the tree alone.                                        *)

\* Such a step cannot disturb what another thread relies on.
LEMMA OtherThreads ==
  ASSUME TypeOK, NEW t \in Threads, NEW u \in Threads \ {t}, ThreadInv(u),
         LocalTo(t), SameTree
  PROVE  ThreadInv(u)'
<1>1. /\ pc'[u] = pc[u] /\ call'[u] = call[u]
      /\ cur'[u] = cur[u] /\ nxt'[u] = nxt[u]
      /\ \A o \in Owners : mtx[o] = u => mtx'[o] = u
  BY DEF LocalTo
<1>2. child' = child /\ key' = key /\ range' = range
  BY DEF SameTree
<1>3. /\ Key(u)' = Key(u) /\ Slot(u)' = Slot(u) /\ KeyHere(u)' = KeyHere(u)
      /\ \A n : Filled(n)' = Filled(n)
  BY <1>1, <1>2 DEF Key, Slot, SlotOf, KeyHere, Filled
<1>4. \A d \in Dir : cur[u] # Tree /\ HasChild(u, d) => HasChild(u, d)'
  <2> SUFFICES ASSUME NEW d \in Dir, cur[u] # Tree, HasChild(u, d)
               PROVE  HasChild(u, d)'
    OBVIOUS
  <2>1. child[<<cur[u], d>>] \in Owners
    BY DEF TypeOK, HasChild, Owners, Slots, Dir
  <2> QED
    BY <2>1, <1>1, <1>2 DEF HasChild
<1>5. cur[u] \in Owners /\ (nxt[u] # Null => nxt[u] \in Owners)
  BY DEF TypeOK, Owners
<1> QED
  BY <1>1, <1>2, <1>3, <1>4, <1>5 DEF ThreadInv, Dir, Deleting

\* So it preserves the invariant when it preserves the moving thread's part.
LEMMA QuietStep ==
  ASSUME IndInv, NEW t \in Threads, SameTree, LocalTo(t), pc[t] # "fill",
         TypeOK', ThreadInv(t)'
  PROVE  IndInv'
<1>1. child' = child /\ key' = key /\ range' = range
  BY DEF SameTree
<1>2. \A s : OpenSlot(s)' = OpenSlot(s) /\ SlotRange(s)' = SlotRange(s)
  BY <1>1 DEF OpenSlot, SlotRange, Filled
<1>3. KeysUnique' /\ TreeInv' /\ ShareInv'
  BY <1>1, <1>2 DEF IndInv, KeysUnique, TreeInv, ShareInv, Filled
<1>4. BirthInv'
  <2> SUFFICES ASSUME NEW s \in Slots, child[s] # Null, ~Filled(child[s])
               PROVE  \E u \in Threads : (pc[u] = "fill" /\ Slot(u) = s)'
    BY <1>1 DEF BirthInv, Filled
  <2>1. PICK u \in Threads : pc[u] = "fill" /\ Slot(u) = s
    BY DEF IndInv, BirthInv
  <2>2. pc'[u] = pc[u] /\ cur'[u] = cur[u] /\ call'[u] = call[u]
    BY <2>1 DEF LocalTo
  <2> QED
    BY <2>1, <2>2, <1>1 DEF Slot, SlotOf, Key
<1>5. \A u \in Threads : ThreadInv(u)'
  BY OtherThreads DEF IndInv
<1> QED
  BY <1>3, <1>4, <1>5 DEF IndInv

\* A thread that neither moves nor starts a call looks at the same slot.
LEMMA SameSpot ==
  ASSUME NEW t \in Threads, SameTree, cur'[t] = cur[t], call'[t] = call[t]
  PROVE  /\ Key(t)' = Key(t) /\ Slot(t)' = Slot(t) /\ KeyHere(t)' = KeyHere(t)
         /\ \A n : Filled(n)' = Filled(n)
BY DEF SameTree, Key, Slot, SlotOf, KeyHere, Filled

\* The children of the node a deleting thread stands at are two other nodes.
LEMMA OtherNodes ==
  ASSUME TypeOK, TreeInv, NEW t \in Threads, cur[t] # Tree
  PROVE  /\ \A d \in Dir : child[<<cur[t], d>>] # Null =>
              child[<<cur[t], d>>] \in Owners \ {cur[t]}
         /\ child[<<cur[t], "left">>] # Null =>
              child[<<cur[t], "left">>] # child[<<cur[t], "right">>]
<1>1. cur[t] \in Nodes
  BY DEF TypeOK, Owners
<1>2. \A d \in Dir : <<cur[t], d>> \in Slots
  BY <1>1 DEF Slots, Dir
<1>3. child[<<cur[t], "left">>] # Null =>
        child[<<cur[t], "left">>] # child[<<cur[t], "right">>]
  BY <1>2 DEF TreeInv, Dir
<1>4. \A d \in Dir : child[<<cur[t], d>>] # Null =>
              child[<<cur[t], d>>] \in Owners
  BY <1>2 DEF TypeOK, Owners
<1>5. \A d \in Dir : child[<<cur[t], d>>] # cur[t]
  BY <1>1, NoLoop
<1> QED
  BY <1>3, <1>4, <1>5

-----------------------------------------------------------------------------
(* Every step that leaves the tree alone preserves the invariant.          *)

\* A thread with no mutex starts a call.
LEMMA BeginQuiet ==
  ASSUME IndInv, NEW t \in Threads, Begin(t)
  PROVE  IndInv'
<1>1. /\ pc[t] = "idle" /\ pc' = [pc EXCEPT ![t] = "lockTree"]
      /\ UNCHANGED <<child, key, range, cur, nxt, mtx>>
  BY DEF Begin, At, GoTo
<1>2. SameTree /\ LocalTo(t)
  BY <1>1, NullAssumption DEF Begin, GoTo, SameTree, LocalTo, IndInv, TypeOK
<1>3. TypeOK'
  BY <1>1 DEF Begin, GoTo, IndInv, TypeOK, PCs
<1>5. ThreadInv(t)'
  BY <1>1 DEF IndInv, TypeOK, ThreadInv, Holding, Searching, Deleting, PCs
<1> QED
  BY <1>1, <1>2, <1>3, <1>5, QuietStep

\* The last unlock of a call releases a mutex the thread holds.
LEMMA LeaveQuiet ==
  ASSUME IndInv, NEW t \in Threads, Leave(t)
  PROVE  IndInv'
<1>1. /\ pc[t] = "leave" /\ pc' = [pc EXCEPT ![t] = "idle"]
      /\ mtx[cur[t]] = t /\ mtx' = [mtx EXCEPT ![cur[t]] = Null]
      /\ UNCHANGED <<child, key, range, cur, call, nxt>>
  BY DEF Leave, At, GoTo, Unlock, IndInv, ThreadInv, Holding, PCs
<1>2. SameTree /\ LocalTo(t)
  BY <1>1, NullAssumption DEF Leave, GoTo, SameTree, LocalTo, IndInv, TypeOK,
    Unlock, IndInv, ThreadInv, Holding, PCs
<1>3. TypeOK'
  BY <1>1 DEF Leave, GoTo, IndInv, TypeOK, PCs, Unlock, IndInv, ThreadInv,
    Holding, PCs
<1>4. /\ Key(t)' = Key(t) /\ Slot(t)' = Slot(t) /\ KeyHere(t)' = KeyHere(t)
      /\ \A n : Filled(n)' = Filled(n)
  BY <1>1, <1>2, SameSpot
<1>5. ThreadInv(t)'
  BY <1>1, <1>2, <1>4, TreeAssumption, NullAssumption DEF IndInv, ThreadInv,
    Holding, Searching, Deleting, PCs, SameTree, TypeOK, Owners
<1> QED
  BY <1>1, <1>2, <1>3, <1>5, QuietStep

\* A duplicate add keeps its mutex; the tree does not change.
LEMMA AddDuplicateQuiet ==
  ASSUME IndInv, NEW t \in Threads, AddDuplicate(t)
  PROVE  IndInv'
<1>1. /\ pc[t] = "at" /\ pc' = [pc EXCEPT ![t] = "return"]
      /\ UNCHANGED mtx
      /\ UNCHANGED <<child, key, range, cur, call, nxt>>
  BY DEF AddDuplicate, At, GoTo
<1>2. SameTree /\ LocalTo(t)
  BY <1>1, NullAssumption DEF AddDuplicate, GoTo, SameTree, LocalTo, IndInv,
    TypeOK
<1>3. TypeOK'
  BY <1>1 DEF AddDuplicate, GoTo, IndInv, TypeOK, PCs
<1>4. /\ Key(t)' = Key(t) /\ Slot(t)' = Slot(t) /\ KeyHere(t)' = KeyHere(t)
      /\ \A n : Filled(n)' = Filled(n)
  BY <1>1, <1>2, SameSpot
<1>5. ThreadInv(t)'
  BY <1>1, <1>2, <1>4, TreeAssumption, NullAssumption DEF IndInv, ThreadInv,
    Holding, Searching, Deleting, PCs, SameTree, TypeOK, Owners
<1> QED
  BY <1>1, <1>2, <1>3, <1>5, QuietStep

\* Returning changes nothing but the thread's place.
LEMMA ReturnLockedQuiet ==
  ASSUME IndInv, NEW t \in Threads, ReturnLocked(t)
  PROVE  IndInv'
<1>1. /\ pc[t] = "return" /\ pc' = [pc EXCEPT ![t] = "idle"]
      /\ UNCHANGED mtx
      /\ UNCHANGED <<child, key, range, cur, call, nxt>>
  BY DEF ReturnLocked, At, GoTo
<1>2. SameTree /\ LocalTo(t)
  BY <1>1, NullAssumption DEF ReturnLocked, GoTo, SameTree, LocalTo, IndInv,
    TypeOK
<1>3. TypeOK'
  BY <1>1 DEF ReturnLocked, GoTo, IndInv, TypeOK, PCs
<1>4. /\ Key(t)' = Key(t) /\ Slot(t)' = Slot(t) /\ KeyHere(t)' = KeyHere(t)
      /\ \A n : Filled(n)' = Filled(n)
  BY <1>1, <1>2, SameSpot
<1>5. ThreadInv(t)'
  BY <1>1, <1>2, <1>4, TreeAssumption, NullAssumption DEF IndInv, ThreadInv,
    Holding, Searching, Deleting, PCs, SameTree, TypeOK, Owners
<1> QED
  BY <1>1, <1>2, <1>3, <1>5, QuietStep

\* The empty slot stays empty: its owner is locked.
LEMMA AddFindsRoomQuiet ==
  ASSUME IndInv, NEW t \in Threads, AddFindsRoom(t)
  PROVE  IndInv'
<1>1. /\ pc[t] = "at" /\ pc' = [pc EXCEPT ![t] = "create"]
      /\ ~KeyHere(t) /\ child[Slot(t)] = Null
      /\ UNCHANGED mtx
      /\ UNCHANGED <<child, key, range, cur, call, nxt>>
  BY DEF AddFindsRoom, At, GoTo
<1>2. SameTree /\ LocalTo(t)
  BY <1>1, NullAssumption DEF AddFindsRoom, GoTo, SameTree, LocalTo, IndInv,
    TypeOK
<1>3. TypeOK'
  BY <1>1 DEF AddFindsRoom, GoTo, IndInv, TypeOK, PCs
<1>4. /\ Key(t)' = Key(t) /\ Slot(t)' = Slot(t) /\ KeyHere(t)' = KeyHere(t)
      /\ \A n : Filled(n)' = Filled(n)
  BY <1>1, <1>2, SameSpot
<1>5. ThreadInv(t) /\ pc'[t] = "create" /\ cur' = cur /\ nxt' = nxt /\ mtx' = mtx
  BY <1>1 DEF IndInv, TypeOK
<1>6. Key(t)' = Key(t) /\ range' = range /\ child[Slot(t)] = Null /\ child' = child
  BY <1>1, <1>4
<1>7. cur[t] # Tree => Filled(cur[t])' /\ Key(t)' \in range'[cur'[t]]
  BY <1>1, <1>4, <1>5, <1>6 DEF ThreadInv, Searching
<1>8. mtx'[cur'[t]] = t /\ ~KeyHere(t)' /\ child'[Slot(t)'] = Null
  <2>1. mtx[cur[t]] = t
    BY <1>1, <1>5 DEF ThreadInv, Holding, PCs
  <2> QED BY <1>1, <1>4, <1>5, <1>6, <2>1
<1>9. ThreadInv(t)'
  BY <1>5, <1>7, <1>8 DEF ThreadInv, Deleting
<1> QED
  BY <1>1, <1>2, <1>3, <1>9, QuietStep

\* Nothing changes but the thread's place.
LEMMA TreeEmptyQuiet ==
  ASSUME IndInv, NEW t \in Threads, TreeEmpty(t)
  PROVE  IndInv'
<1>1. /\ pc[t] = "at" /\ pc' = [pc EXCEPT ![t] = "leave"]
      /\ UNCHANGED mtx
      /\ UNCHANGED <<child, key, range, cur, call, nxt>>
  BY DEF TreeEmpty, At, GoTo, LeaveWith
<1>2. SameTree /\ LocalTo(t)
  BY <1>1, NullAssumption DEF TreeEmpty, GoTo, SameTree, LocalTo, IndInv,
    TypeOK, LeaveWith
<1>3. TypeOK'
  BY <1>1 DEF TreeEmpty, GoTo, IndInv, TypeOK, PCs, LeaveWith
<1>4. /\ Key(t)' = Key(t) /\ Slot(t)' = Slot(t) /\ KeyHere(t)' = KeyHere(t)
      /\ \A n : Filled(n)' = Filled(n)
  BY <1>1, <1>2, SameSpot
<1>5. ThreadInv(t)'
  BY <1>1, <1>2, <1>4, TreeAssumption, NullAssumption DEF IndInv, ThreadInv,
    Holding, Searching, Deleting, PCs, SameTree, TypeOK, Owners
<1> QED
  BY <1>1, <1>2, <1>3, <1>5, QuietStep

\* bt_find_node_ts unlocks the node it holds.
LEMMA FindFailsQuiet ==
  ASSUME IndInv, NEW t \in Threads, FindFails(t)
  PROVE  IndInv'
<1>1. /\ pc[t] = "at" /\ pc' = [pc EXCEPT ![t] = "notFound"]
      /\ mtx[cur[t]] = t /\ mtx' = [mtx EXCEPT ![cur[t]] = Null]
      /\ UNCHANGED <<child, key, range, cur, call, nxt>>
  BY DEF FindFails, At, GoTo, Unlock, IndInv, ThreadInv, Holding, PCs
<1>2. SameTree /\ LocalTo(t)
  BY <1>1, NullAssumption DEF FindFails, GoTo, SameTree, LocalTo, IndInv,
    TypeOK, Unlock, IndInv, ThreadInv, Holding, PCs
<1>3. TypeOK'
  BY <1>1 DEF FindFails, GoTo, IndInv, TypeOK, PCs, Unlock, IndInv, ThreadInv,
    Holding, PCs
<1>4. /\ Key(t)' = Key(t) /\ Slot(t)' = Slot(t) /\ KeyHere(t)' = KeyHere(t)
      /\ \A n : Filled(n)' = Filled(n)
  BY <1>1, <1>2, SameSpot
<1>5. ThreadInv(t)'
  BY <1>1, <1>2, <1>4, TreeAssumption, NullAssumption DEF IndInv, ThreadInv,
    Holding, Searching, Deleting, PCs, SameTree, TypeOK, Owners
<1> QED
  BY <1>1, <1>2, <1>3, <1>5, QuietStep

\* Nothing changes but the thread's place.
LEMMA DeleteMissesQuiet ==
  ASSUME IndInv, NEW t \in Threads, DeleteMisses(t)
  PROVE  IndInv'
<1>1. /\ pc[t] = "notFound" /\ pc' = [pc EXCEPT ![t] = "idle"]
      /\ UNCHANGED mtx
      /\ UNCHANGED <<child, key, range, cur, call, nxt>>
  BY DEF DeleteMisses, At, GoTo
<1>2. SameTree /\ LocalTo(t)
  BY <1>1, NullAssumption DEF DeleteMisses, GoTo, SameTree, LocalTo, IndInv,
    TypeOK
<1>3. TypeOK'
  BY <1>1 DEF DeleteMisses, GoTo, IndInv, TypeOK, PCs
<1>4. /\ Key(t)' = Key(t) /\ Slot(t)' = Slot(t) /\ KeyHere(t)' = KeyHere(t)
      /\ \A n : Filled(n)' = Filled(n)
  BY <1>1, <1>2, SameSpot
<1>5. ThreadInv(t)'
  BY <1>1, <1>2, <1>4, TreeAssumption, NullAssumption DEF IndInv, ThreadInv,
    Holding, Searching, Deleting, PCs, SameTree, TypeOK, Owners
<1> QED
  BY <1>1, <1>2, <1>3, <1>5, QuietStep

\* Nothing changes but the thread's place.
LEMMA LookupFindsQuiet ==
  ASSUME IndInv, NEW t \in Threads, LookupFinds(t)
  PROVE  IndInv'
<1>1. /\ pc[t] = "at" /\ pc' = [pc EXCEPT ![t] = "leave"]
      /\ UNCHANGED mtx
      /\ UNCHANGED <<child, key, range, cur, call, nxt>>
  BY DEF LookupFinds, At, GoTo, LeaveWith
<1>2. SameTree /\ LocalTo(t)
  BY <1>1, NullAssumption DEF LookupFinds, GoTo, SameTree, LocalTo, IndInv,
    TypeOK, LeaveWith
<1>3. TypeOK'
  BY <1>1 DEF LookupFinds, GoTo, IndInv, TypeOK, PCs, LeaveWith
<1>4. /\ Key(t)' = Key(t) /\ Slot(t)' = Slot(t) /\ KeyHere(t)' = KeyHere(t)
      /\ \A n : Filled(n)' = Filled(n)
  BY <1>1, <1>2, SameSpot
<1>5. ThreadInv(t)'
  BY <1>1, <1>2, <1>4, TreeAssumption, NullAssumption DEF IndInv, ThreadInv,
    Holding, Searching, Deleting, PCs, SameTree, TypeOK, Owners
<1> QED
  BY <1>1, <1>2, <1>3, <1>5, QuietStep

\* The target, found by its key, is a node.
LEMMA DeleteFindsQuiet ==
  ASSUME IndInv, NEW t \in Threads, DeleteFinds(t)
  PROVE  IndInv'
<1>1. /\ pc[t] = "at" /\ pc' = [pc EXCEPT ![t] = "lockLeft"]
      /\ cur[t] # Tree
      /\ UNCHANGED mtx
      /\ UNCHANGED <<child, key, range, cur, call, nxt>>
  BY DEF DeleteFinds, At, GoTo, KeyHere
<1>2. SameTree /\ LocalTo(t)
  BY <1>1, NullAssumption DEF DeleteFinds, GoTo, SameTree, LocalTo, IndInv,
    TypeOK, KeyHere
<1>3. TypeOK'
  BY <1>1 DEF DeleteFinds, GoTo, IndInv, TypeOK, PCs, KeyHere
<1>4. /\ Key(t)' = Key(t) /\ Slot(t)' = Slot(t) /\ KeyHere(t)' = KeyHere(t)
      /\ \A n : Filled(n)' = Filled(n)
  BY <1>1, <1>2, SameSpot
<1>5. ThreadInv(t)'
  BY <1>1, <1>2, <1>4, TreeAssumption, NullAssumption DEF IndInv, ThreadInv,
    Holding, Searching, Deleting, PCs, SameTree, TypeOK, Owners
<1> QED
  BY <1>1, <1>2, <1>3, <1>5, QuietStep

\* Locking the left child leaves the target locked.
LEMMA DeleteLocksLeftQuiet ==
  ASSUME IndInv, NEW t \in Threads, DeleteLocksLeft(t)
  PROVE  IndInv'
<1>1. /\ pc[t] = "lockLeft" /\ pc' = [pc EXCEPT ![t] = "lockRight"]
      /\ child[<<cur[t], "left">>] # Null /\ cur[t] # Tree
      /\ mtx[child[<<cur[t], "left">>]] = Null /\ mtx' = [mtx EXCEPT ![child[<<cur[t], "left">>]] = t]
      /\ UNCHANGED <<child, key, range, cur, call, nxt>>
  BY DEF DeleteLocksLeft, At, GoTo, Lock, DeleteLocks, IndInv, ThreadInv,
    Holding, PCs, Deleting
<1>2. /\ child[<<cur[t], "left">>] \in Owners \ {cur[t]}
      /\ child[<<cur[t], "left">>] # Null => child[<<cur[t], "left">>] # child[<<cur[t], "right">>]
  BY <1>1, OtherNodes DEF IndInv, Dir, HasChild
<1>3. SameTree /\ LocalTo(t)
  BY <1>1, NullAssumption DEF SameTree, LocalTo, IndInv, TypeOK
<1>4. TypeOK'
  BY <1>1, <1>2 DEF DeleteLocksLeft, DeleteLocks, IndInv, TypeOK, PCs
<1>5. /\ Key(t)' = Key(t) /\ Slot(t)' = Slot(t) /\ KeyHere(t)' = KeyHere(t)
      /\ \A n : Filled(n)' = Filled(n)
  BY <1>1, <1>3, SameSpot
<1>6. mtx[cur[t]] = t
  BY <1>1 DEF IndInv, ThreadInv, Holding, PCs
<1>7. mtx'[cur[t]] = t
  BY <1>1, <1>2, <1>6 DEF IndInv, TypeOK
<1>8. HasChild(t, "left")'
  BY <1>1, <1>2 DEF IndInv, TypeOK, HasChild
<1>9. ThreadInv(t)'
  BY <1>1, <1>7, <1>8 DEF IndInv, TypeOK, ThreadInv, Holding, Searching,
    Deleting, PCs
<1> QED
  BY <1>1, <1>3, <1>4, <1>9, QuietStep

\* Locking the right child leaves the two others locked.
LEMMA DeleteLocksRightQuiet ==
  ASSUME IndInv, NEW t \in Threads, DeleteLocksRight(t)
  PROVE  IndInv'
<1>1. /\ pc[t] = "lockRight" /\ pc' = [pc EXCEPT ![t] = "unlockLeft"]
      /\ child[<<cur[t], "right">>] # Null /\ cur[t] # Tree
      /\ HasChild(t, "left")
      /\ mtx[child[<<cur[t], "right">>]] = Null /\ mtx' = [mtx EXCEPT ![child[<<cur[t], "right">>]] = t]
      /\ UNCHANGED <<child, key, range, cur, call, nxt>>
  BY DEF DeleteLocksRight, At, GoTo, Lock, DeleteLocks, IndInv, ThreadInv,
    Holding, PCs, Deleting
<1>2. /\ child[<<cur[t], "right">>] \in Owners \ {cur[t]}
      /\ child[<<cur[t], "left">>] # Null => child[<<cur[t], "left">>] # child[<<cur[t], "right">>]
  BY <1>1, OtherNodes DEF IndInv, Dir, HasChild
<1>3. SameTree /\ LocalTo(t)
  BY <1>1, NullAssumption DEF SameTree, LocalTo, IndInv, TypeOK
<1>4. TypeOK'
  BY <1>1, <1>2 DEF DeleteLocksRight, DeleteLocks, IndInv, TypeOK, PCs
<1>5. /\ Key(t)' = Key(t) /\ Slot(t)' = Slot(t) /\ KeyHere(t)' = KeyHere(t)
      /\ \A n : Filled(n)' = Filled(n)
  BY <1>1, <1>3, SameSpot
<1>6. mtx[cur[t]] = t
  BY <1>1 DEF IndInv, ThreadInv, Holding, PCs
<1>7. mtx'[cur[t]] = t
  BY <1>1, <1>2, <1>6 DEF IndInv, TypeOK
<1>8. HasChild(t, "left")' /\ HasChild(t, "right")'
  BY <1>1, <1>2 DEF IndInv, TypeOK, HasChild
<1>9. ThreadInv(t)'
  BY <1>1, <1>7, <1>8 DEF IndInv, TypeOK, ThreadInv, Holding, Searching,
    Deleting, PCs
<1> QED
  BY <1>1, <1>3, <1>4, <1>9, QuietStep

\* Unlocking the left child leaves the right one locked.
LEMMA DeleteUnlocksLeftQuiet ==
  ASSUME IndInv, NEW t \in Threads, DeleteUnlocksLeft(t)
  PROVE  IndInv'
<1>1. /\ pc[t] = "unlockLeft" /\ pc' = [pc EXCEPT ![t] = "unlockRight"]
      /\ cur[t] # Tree /\ HasChild(t, "left") /\ HasChild(t, "right")
      /\ mtx[child[<<cur[t], "left">>]] = t /\ mtx' = [mtx EXCEPT ![child[<<cur[t], "left">>]] = Null]
      /\ UNCHANGED <<child, key, range, cur, call, nxt>>
  BY DEF DeleteUnlocksLeft, At, GoTo, Unlock, IndInv, ThreadInv, Holding, PCs,
    Deleting, HasChild
<1>2. /\ child[<<cur[t], "left">>] \in Owners \ {cur[t]}
      /\ child[<<cur[t], "left">>] # Null => child[<<cur[t], "left">>] # child[<<cur[t], "right">>]
  BY <1>1, OtherNodes DEF IndInv, Dir, HasChild
<1>3. SameTree /\ LocalTo(t)
  BY <1>1, NullAssumption DEF SameTree, LocalTo, IndInv, TypeOK
<1>4. TypeOK'
  BY <1>1, <1>2 DEF DeleteUnlocksLeft, IndInv, TypeOK, PCs
<1>5. /\ Key(t)' = Key(t) /\ Slot(t)' = Slot(t) /\ KeyHere(t)' = KeyHere(t)
      /\ \A n : Filled(n)' = Filled(n)
  BY <1>1, <1>3, SameSpot
<1>6. mtx[cur[t]] = t
  BY <1>1 DEF IndInv, ThreadInv, Holding, PCs
<1>7. mtx'[cur[t]] = t
  BY <1>1, <1>2, <1>6 DEF IndInv, TypeOK
<1>8. HasChild(t, "right")'
  BY <1>1, <1>2 DEF IndInv, TypeOK, HasChild
<1>9. ThreadInv(t)'
  BY <1>1, <1>7, <1>8 DEF IndInv, TypeOK, ThreadInv, Holding, Searching,
    Deleting, PCs
<1> QED
  BY <1>1, <1>3, <1>4, <1>9, QuietStep

\* Unlocking the right child takes no mutex from another thread.
LEMMA DeleteUnlocksRightQuiet ==
  ASSUME IndInv, NEW t \in Threads, DeleteUnlocksRight(t)
  PROVE  IndInv'
<1>1. /\ pc[t] = "unlockRight" /\ pc' = [pc EXCEPT ![t] = "idle"]
      /\ cur[t] # Tree /\ HasChild(t, "right")
      /\ mtx[child[<<cur[t], "right">>]] = t /\ mtx' = [mtx EXCEPT ![child[<<cur[t], "right">>]] = Null]
      /\ UNCHANGED <<child, key, range, cur, call, nxt>>
  BY DEF DeleteUnlocksRight, At, GoTo, Unlock, IndInv, ThreadInv, Holding,
    PCs, Deleting, HasChild
<1>2. /\ child[<<cur[t], "right">>] \in Owners \ {cur[t]}
      /\ child[<<cur[t], "left">>] # Null => child[<<cur[t], "left">>] # child[<<cur[t], "right">>]
  BY <1>1, OtherNodes DEF IndInv, Dir, HasChild
<1>3. SameTree /\ LocalTo(t)
  BY <1>1, NullAssumption DEF SameTree, LocalTo, IndInv, TypeOK
<1>4. TypeOK'
  BY <1>1, <1>2 DEF DeleteUnlocksRight, IndInv, TypeOK, PCs
<1>5. /\ Key(t)' = Key(t) /\ Slot(t)' = Slot(t) /\ KeyHere(t)' = KeyHere(t)
      /\ \A n : Filled(n)' = Filled(n)
  BY <1>1, <1>3, SameSpot
<1>6. mtx[cur[t]] = t
  BY <1>1 DEF IndInv, ThreadInv, Holding, PCs
<1>7. mtx'[cur[t]] = t
  BY <1>1, <1>2, <1>6 DEF IndInv, TypeOK
<1>8. pc'[t] = "idle"
  BY <1>1, <1>2 DEF IndInv, TypeOK, HasChild
<1>9. ThreadInv(t)'
  BY <1>1, <1>7, <1>8 DEF IndInv, TypeOK, ThreadInv, Holding, Searching,
    Deleting, PCs
<1> QED
  BY <1>1, <1>3, <1>4, <1>9, QuietStep

\* The header is still locked.
LEMMA PrintEndsQuiet ==
  ASSUME IndInv, NEW t \in Threads, PrintEnds(t)
  PROVE  IndInv'
<1>1. /\ pc[t] = "print" /\ pc' = [pc EXCEPT ![t] = "leave"]
      /\ UNCHANGED mtx
      /\ UNCHANGED <<child, key, range, cur, call, nxt>>
  BY DEF PrintEnds, At, GoTo, LeaveWith
<1>2. SameTree /\ LocalTo(t)
  BY <1>1, NullAssumption DEF PrintEnds, GoTo, SameTree, LocalTo, IndInv,
    TypeOK, LeaveWith
<1>3. TypeOK'
  BY <1>1 DEF PrintEnds, GoTo, IndInv, TypeOK, PCs, LeaveWith
<1>4. /\ Key(t)' = Key(t) /\ Slot(t)' = Slot(t) /\ KeyHere(t)' = KeyHere(t)
      /\ \A n : Filled(n)' = Filled(n)
  BY <1>1, <1>2, SameSpot
<1>5. ThreadInv(t)'
  BY <1>1, <1>2, <1>4, TreeAssumption, NullAssumption DEF IndInv, ThreadInv,
    Holding, Searching, Deleting, PCs, SameTree, TypeOK, Owners
<1> QED
  BY <1>1, <1>2, <1>3, <1>5, QuietStep

\* A crash changes nothing but `crashed'.
LEMMA LookupMissesQuiet ==
  ASSUME IndInv, NEW t \in Threads, LookupMisses(t)
  PROVE  IndInv'
<1>1. UNCHANGED <<child, key, mtx, pc, call, cur, nxt, stack, todo, result, range>>
      /\ crashed' = TRUE /\ pc[t] # "fill"
  BY DEF LookupMisses, At, Crash
<1>2. SameTree /\ LocalTo(t) /\ TypeOK'
  BY <1>1 DEF SameTree, LocalTo, IndInv, TypeOK
<1>3. ThreadInv(t)'
  BY <1>1 DEF IndInv, ThreadInv, Key, Slot, SlotOf, KeyHere, Filled, HasChild
<1> QED
  BY <1>1, <1>2, <1>3, QuietStep

\* A crash changes nothing but `crashed'.
LEMMA DeleteFaultsQuiet ==
  ASSUME IndInv, NEW t \in Threads, DeleteFaults(t)
  PROVE  IndInv'
<1>1. UNCHANGED <<child, key, mtx, pc, call, cur, nxt, stack, todo, result, range>>
      /\ crashed' = TRUE /\ pc[t] # "fill"
  BY DEF DeleteFaults, At, Crash
<1>2. SameTree /\ LocalTo(t) /\ TypeOK'
  BY <1>1 DEF SameTree, LocalTo, IndInv, TypeOK
<1>3. ThreadInv(t)'
  BY <1>1 DEF IndInv, ThreadInv, Key, Slot, SlotOf, KeyHere, Filled, HasChild
<1> QED
  BY <1>1, <1>2, <1>3, QuietStep

\* A thread that holds nothing takes the header.
LEMMA LockTreeQuiet ==
  ASSUME IndInv, NEW t \in Threads, LockTree(t)
  PROVE  IndInv'
<1>1. /\ pc[t] = "lockTree"
      /\ pc' = [pc EXCEPT ![t] = "at"] \/ pc' = [pc EXCEPT ![t] = "print"]
      /\ mtx[Tree] = Null /\ mtx' = [mtx EXCEPT ![Tree] = t]
      /\ cur' = [cur EXCEPT ![t] = Tree]
      /\ UNCHANGED <<child, key, range, call, nxt, todo, result, crashed>>
  BY DEF LockTree, At, GoTo, Lock
<1>2. SameTree /\ LocalTo(t)
  BY <1>1, NullAssumption DEF SameTree, LocalTo, IndInv, TypeOK
<1>3. stack' \in [Threads -> Seq(Nodes)]
  <2>1. <<Tree, "root">> \in Slots
    BY DEF Slots
  <2>2. Follow(child[<<Tree, "root">>]) \in Seq(Nodes)
    BY <2>1 DEF Follow, IndInv, TypeOK
  <2> QED
    BY <2>2 DEF LockTree, IndInv, TypeOK
<1>4. TypeOK'
  BY <1>1, <1>3 DEF IndInv, TypeOK, PCs, Owners
<1>5. mtx'[Tree] = t /\ cur'[t] = Tree /\ pc'[t] \in {"at", "print"}
  BY <1>1 DEF IndInv, TypeOK, Owners
<1>6. ThreadInv(t)'
  BY <1>5 DEF ThreadInv, Searching, Deleting
<1> QED
  BY <1>1, <1>2, <1>4, <1>6, QuietStep

\* A child of the node a thread has locked is filled in: whoever is filling a
\* node holds its parent.
LEMMA SeenFilled ==
  ASSUME IndInv, NEW t \in Threads, pc[t] = "at", child[Slot(t)] # Null
  PROVE  Filled(child[Slot(t)])
<1> SUFFICES ASSUME ~Filled(child[Slot(t)]) PROVE FALSE
  OBVIOUS
<1>1. cur[t] \in Owners /\ \A u \in Threads : cur[u] \in Owners
  BY DEF IndInv, TypeOK
<1>2. Slot(t) \in Slots /\ \A u \in Threads : Slot(u)[1] = cur[u]
  BY <1>1, SlotType DEF Slot
<1>3. PICK u \in Threads : pc[u] = "fill" /\ Slot(u) = Slot(t)
  BY <1>2 DEF IndInv, BirthInv
<1>4. mtx[cur[u]] = u /\ mtx[cur[t]] = t /\ cur[u] = cur[t]
  BY <1>2, <1>3 DEF IndInv, ThreadInv, Holding, PCs
<1> QED
  BY <1>3, <1>4

\* A key a thread is looking for belongs to the slot where it goes on.
LEMMA KeyInSlotRange ==
  ASSUME TypeOK, NEW t \in Threads, ThreadInv(t), pc[t] \in Searching,
         ~KeyHere(t)
  PROVE  Key(t) \in SlotRange(Slot(t))
<1>1. Key(t) \in Keys /\ cur[t] \in Owners
  BY DEF TypeOK, Key, Call
<1>2. CASE cur[t] = Tree
  BY <1>1, <1>2 DEF SlotRange, Slot, SlotOf
<1>3. CASE cur[t] # Tree
  <2>1. Key(t) \in range[cur[t]] /\ key[cur[t]] \in Keys /\ key[cur[t]] # Key(t)
    BY <1>1, <1>3 DEF ThreadInv, KeyHere, Filled, TypeOK, Owners
  <2>2. Key(t) \in Int /\ key[cur[t]] \in Int
    BY <1>1, <2>1, KeysAssumption
  <2>3. CASE Key(t) < key[cur[t]]
    <3>1. Slot(t) = <<cur[t], "left">>
      BY <1>3, <2>3 DEF Slot, SlotOf
    <3> QED
      BY <3>1, <2>1, <2>3, <1>3 DEF SlotRange
  <2>4. CASE ~(Key(t) < key[cur[t]])
    <3>1. Slot(t) = <<cur[t], "right">> /\ Key(t) > key[cur[t]]
      BY <1>3, <2>1, <2>2, <2>4 DEF Slot, SlotOf
    <3> QED
      BY <3>1, <2>1, <1>3 DEF SlotRange
  <2> QED
    BY <2>3, <2>4
<1> QED
  BY <1>2, <1>3

\* The child it goes to is filled in and cannot be unlinked.
LEMMA DescendQuiet ==
  ASSUME IndInv, NEW t \in Threads, Descend(t)
  PROVE  IndInv'
<1>1. /\ pc[t] = "at" /\ pc' = [pc EXCEPT ![t] = "lockChild"]
      /\ ~KeyHere(t) /\ child[Slot(t)] # Null
      /\ nxt' = [nxt EXCEPT ![t] = child[Slot(t)]]
      /\ UNCHANGED <<child, key, range, mtx, call, cur, stack, todo, result,
                     crashed>>
  BY DEF Descend, At, GoTo
<1>2. SameTree /\ LocalTo(t)
  BY <1>1 DEF SameTree, LocalTo, IndInv, TypeOK
<1>3. Slot(t) \in Slots
  BY SlotType DEF Slot, IndInv, TypeOK
<1>4. TypeOK'
  BY <1>1, <1>3 DEF IndInv, TypeOK, PCs
<1>5. Filled(child[Slot(t)])
  BY <1>1, SeenFilled
<1>6. /\ Key(t)' = Key(t) /\ Slot(t)' = Slot(t) /\ KeyHere(t)' = KeyHere(t)
      /\ \A n : Filled(n)' = Filled(n)
  BY <1>1, <1>2, SameSpot
<1>7. nxt'[t] = child[Slot(t)] /\ pc'[t] = "lockChild"
  BY <1>1 DEF IndInv, TypeOK
<1>8. ThreadInv(t)'
  BY <1>1, <1>5, <1>6, <1>7 DEF IndInv, ThreadInv, Holding, Searching,
    Deleting, PCs
<1> QED
  BY <1>1, <1>2, <1>4, <1>8, QuietStep

\* It then holds parent and child.
LEMMA LockChildQuiet ==
  ASSUME IndInv, NEW t \in Threads, LockChild(t)
  PROVE  IndInv'
<1>1. /\ pc[t] = "lockChild" /\ pc' = [pc EXCEPT ![t] = "unlockParent"]
      /\ mtx[nxt[t]] = Null /\ mtx' = [mtx EXCEPT ![nxt[t]] = t]
      /\ UNCHANGED <<child, key, range, call, cur, nxt, stack, todo, result,
                     crashed>>
  BY DEF LockChild, At, GoTo, Lock
<1>2. SameTree /\ LocalTo(t)
  BY <1>1, NullAssumption DEF SameTree, LocalTo, IndInv, TypeOK
<1>3. TypeOK'
  BY <1>1 DEF IndInv, TypeOK, PCs
<1>4. /\ Key(t)' = Key(t) /\ Slot(t)' = Slot(t) /\ KeyHere(t)' = KeyHere(t)
      /\ \A n : Filled(n)' = Filled(n)
  BY <1>1, <1>2, SameSpot
<1>5. /\ nxt[t] # Null /\ nxt[t] = child[Slot(t)] /\ Filled(nxt[t])
      /\ ~KeyHere(t) /\ mtx[cur[t]] = t
  BY <1>1 DEF IndInv, ThreadInv, Holding, PCs
<1>6. nxt[t] \in Owners /\ mtx'[nxt[t]] = t /\ mtx'[cur[t]] = t
  BY <1>1, <1>5 DEF IndInv, TypeOK, Owners
<1>7. pc'[t] = "unlockParent"
  BY <1>1 DEF IndInv, TypeOK
<1>8. ThreadInv(t)'
  BY <1>1, <1>4, <1>5, <1>6, <1>7 DEF IndInv, ThreadInv, Holding, Searching,
    Deleting, PCs
<1> QED
  BY <1>1, <1>2, <1>3, <1>8, QuietStep

\* It arrives at a filled node whose range has its key.
LEMMA UnlockParentQuiet ==
  ASSUME IndInv, NEW t \in Threads, UnlockParent(t)
  PROVE  IndInv'
<1>1. /\ pc[t] = "unlockParent" /\ pc' = [pc EXCEPT ![t] = "at"]
      /\ mtx' = [mtx EXCEPT ![cur[t]] = Null]
      /\ cur' = [cur EXCEPT ![t] = nxt[t]]
      /\ UNCHANGED <<child, key, range, call, nxt, stack, todo, result, crashed>>
  BY DEF UnlockParent, At, GoTo, Unlock
<1>2. /\ nxt[t] # Null /\ nxt[t] = child[Slot(t)] /\ Filled(nxt[t])
      /\ ~KeyHere(t) /\ mtx[cur[t]] = t /\ mtx[nxt[t]] = t
  BY <1>1 DEF IndInv, ThreadInv, Holding, PCs
<1>3. SameTree /\ LocalTo(t)
  BY <1>1, <1>2, NullAssumption DEF SameTree, LocalTo, IndInv, TypeOK
<1>4. nxt[t] \in Nodes /\ cur[t] \in Owners
  BY <1>2 DEF IndInv, TypeOK
<1>5. TypeOK'
  BY <1>1, <1>4 DEF IndInv, TypeOK, PCs, Owners
<1>6. Slot(t) \in Slots
  BY <1>4, SlotType DEF Slot
<1>7. Key(t) \in range[nxt[t]]
  <2>1. Key(t) \in SlotRange(Slot(t))
    BY <1>1, <1>2, KeyInSlotRange DEF IndInv, Searching
  <2> QED
    BY <2>1, <1>2, <1>6 DEF IndInv, TreeInv
<1>8. nxt[t] # cur[t]
  <2>1. CASE cur[t] = Tree
    BY <2>1, <1>4, TreeAssumption
  <2>2. CASE cur[t] # Tree
    <3>1. cur[t] \in Nodes /\ \E d \in Dir : Slot(t) = <<cur[t], d>>
      BY <2>2, <1>4 DEF Slot, SlotOf, Dir, Owners
    <3> QED
      BY <3>1, <1>2, NoLoop DEF IndInv
  <2> QED
    BY <2>1, <2>2
<1>9. mtx'[nxt[t]] = t /\ cur'[t] = nxt[t] /\ pc'[t] = "at"
  BY <1>1, <1>2, <1>4, <1>8 DEF IndInv, TypeOK, Owners
<1>10. ThreadInv(t)'
  BY <1>1, <1>2, <1>7, <1>9 DEF ThreadInv, Searching, Deleting, Filled, Key
<1> QED
  BY <1>1, <1>3, <1>5, <1>10, QuietStep

\* Printing only reads the tree.
LEMMA PrintVisitsQuiet ==
  ASSUME IndInv, NEW t \in Threads, PrintVisits(t)
  PROVE  IndInv'
<1>1. /\ pc[t] = "print" /\ stack[t] # <<>>
      /\ stack' = [stack EXCEPT ![t] = Children(Head(@)) \o Tail(@)]
      /\ UNCHANGED <<child, key, range, mtx, pc, call, cur, nxt, todo, result,
                     crashed>>
  BY DEF PrintVisits, At
<1>2. SameTree /\ LocalTo(t)
  BY <1>1 DEF SameTree, LocalTo
<1>3. stack[t] \in Seq(Nodes)
  BY DEF IndInv, TypeOK
<1>4. Head(stack[t]) \in Nodes /\ Tail(stack[t]) \in Seq(Nodes)
  BY <1>1, <1>3
<1>5. Children(Head(stack[t])) \in Seq(Nodes)
  <2>1. \A d \in Dir : child[<<Head(stack[t]), d>>] \in Nodes \cup {Null}
    BY <1>4 DEF IndInv, TypeOK, Slots, Dir
  <2>2. \A d \in Dir : Follow(child[<<Head(stack[t]), d>>]) \in Seq(Nodes)
    BY <2>1 DEF Follow
  <2> QED
    BY <2>2 DEF Children, Dir
<1>6. Children(Head(stack[t])) \o Tail(stack[t]) \in Seq(Nodes)
  BY <1>4, <1>5
<1>7. TypeOK'
  BY <1>1, <1>6 DEF IndInv, TypeOK
<1>8. ThreadInv(t)'
  BY <1>1 DEF IndInv, ThreadInv, Key, Slot, SlotOf, KeyHere, Filled, HasChild
<1> QED
  BY <1>1, <1>2, <1>7, <1>8, QuietStep

\* Printing only reads the tree, even a half-built node.
LEMMA PrintReadsGarbageQuiet ==
  ASSUME IndInv, NEW t \in Threads, PrintReadsGarbage(t)
  PROVE  IndInv'
<1>1. /\ pc[t] = "print" /\ stack[t] # <<>>
      /\ stack' = stack \/ stack' = [stack EXCEPT ![t] = Tail(@)]
      /\ crashed' \in {crashed, TRUE}
      /\ UNCHANGED <<child, key, range, mtx, pc, call, cur, nxt, todo, result>>
  BY DEF PrintReadsGarbage, At, Crash
<1>2. SameTree /\ LocalTo(t)
  BY <1>1 DEF SameTree, LocalTo
<1>3. stack[t] \in Seq(Nodes)
  BY DEF IndInv, TypeOK
<1>4. Tail(stack[t]) \in Seq(Nodes)
  BY <1>1, <1>3
<1>5. TypeOK'
  BY <1>1, <1>4 DEF IndInv, TypeOK
<1>6. ThreadInv(t)'
  BY <1>1 DEF IndInv, ThreadInv, Key, Slot, SlotOf, KeyHere, Filled, HasChild
<1> QED
  BY <1>1, <1>2, <1>5, <1>6, QuietStep

-----------------------------------------------------------------------------
(* The two steps that change the tree.                                     *)

\* A fresh node takes over the share of the slot it is linked into.
LEMMA PublishNodeInv ==
  ASSUME IndInv, NEW t \in Threads, PublishNode(t)
  PROVE  IndInv'
<1> DEFINE S == Slot(t)
<1>1. PICK n \in Nodes \ Allocated :
        /\ child' = [child EXCEPT ![S] = n]
        /\ nxt' = [nxt EXCEPT ![t] = n]
        /\ range' = [range EXCEPT ![n] = SlotRange(S)]
  BY DEF PublishNode
<1>2. /\ pc[t] = "create" /\ pc' = [pc EXCEPT ![t] = "fill"]
      /\ UNCHANGED <<key, mtx, call, cur, stack, todo, result, crashed>>
  BY DEF PublishNode, At, GoTo
<1>3. /\ ~KeyHere(t) /\ child[S] = Null /\ mtx[cur[t]] = t
      /\ cur[t] # Tree => Filled(cur[t])
  BY <1>2 DEF IndInv, ThreadInv, Holding, Searching, PCs
<1>4. cur[t] \in Owners /\ S \in Slots /\ S[1] = cur[t]
  BY SlotType DEF Slot, IndInv, TypeOK
<1>5. n # Null /\ \A s \in Slots : child[s] # n
  BY NullAssumption DEF Allocated
<1>6. ~Filled(n) /\ S[1] # n
  <2>1. ~Filled(n)
    BY <1>5 DEF IndInv, TreeInv
  <2> QED
    BY <2>1, <1>3, <1>4, TreeAssumption
<1>7. /\ \A s \in Slots : child'[s] = IF s = S THEN n ELSE child[s]
      /\ \A m \in Nodes : range'[m] = IF m = n THEN SlotRange(S) ELSE range[m]
      /\ \A m : Filled(m)' = Filled(m)
  BY <1>1, <1>2, <1>4 DEF IndInv, TypeOK, Filled
<1>8. \A s \in Slots : s[1] = n => child[s] = Null
  <2> SUFFICES ASSUME NEW s \in Slots, s[1] = n PROVE child[s] = Null
    OBVIOUS
  <2>1. PICK m \in Nodes, d \in Dir : s = <<m, d>>
    BY TreeAssumption DEF Slots, Dir
  <2> QED
    BY <2>1, <1>6 DEF IndInv, TreeInv
<1>9. \A s \in Slots : s[1] # n => SlotRange(s)' = SlotRange(s)
  <2> SUFFICES ASSUME NEW s \in Slots, s[1] # n
               PROVE  SlotRange(s)' = SlotRange(s)
    OBVIOUS
  <2>1. s[1] # Tree => s[1] \in Nodes /\ range'[s[1]] = range[s[1]]
    BY <1>7 DEF Slots
  <2> QED
    BY <2>1, <1>2 DEF SlotRange
<1>10. \A s \in Slots : OpenSlot(s)' = OpenSlot(s)
  BY <1>3, <1>5, <1>6, <1>7 DEF OpenSlot
<1>11. TypeOK'
  <2>1. SlotRange(S) \subseteq Keys
    <3>1. S[1] # Tree => S[1] \in Nodes
      BY <1>4 DEF Owners
    <3> QED
      BY <3>1 DEF SlotRange, IndInv, TypeOK
  <2> QED
    BY <2>1, <1>1, <1>2 DEF IndInv, TypeOK, PCs
<1>12. KeysUnique'
  BY <1>2 DEF IndInv, KeysUnique, Filled
<1>13. TreeInv'
  <2>1. \A s1, s2 \in Slots :
          child'[s1] # Null /\ child'[s1] = child'[s2] => s1 = s2
    BY <1>5, <1>7 DEF IndInv, TreeInv
  <2>2. \A m \in Nodes : ~Filled(m)' => \A d \in Dir : child'[<<m, d>>] = Null
    <3> SUFFICES ASSUME NEW m \in Nodes, ~Filled(m), NEW d \in Dir
                 PROVE  child'[<<m, d>>] = Null
      BY <1>7
    <3>1. <<m, d>> \in Slots /\ child[<<m, d>>] = Null
      BY DEF Slots, Dir, IndInv, TreeInv
    <3>2. <<m, d>> # S
      BY <1>3, <1>4, TreeAssumption
    <3> QED
      BY <3>1, <3>2, <1>7
  <2>3. \A m \in Nodes : Filled(m)' => /\ key'[m] \in range'[m]
                                       /\ \E s \in Slots : child'[s] = m
    <3> SUFFICES ASSUME NEW m \in Nodes, Filled(m)
                 PROVE  /\ key[m] \in range'[m]
                        /\ \E s \in Slots : child'[s] = m
      BY <1>2, <1>7
    <3>1. PICK s \in Slots : child[s] = m
      BY DEF IndInv, TreeInv
    <3>2. s # S /\ m # n
      BY <3>1, <1>3, <1>6, NullAssumption
    <3> QED
      BY <3>1, <3>2, <1>7 DEF IndInv, TreeInv
  <2>4. \A s \in Slots : child'[s] # Null => range'[child'[s]] = SlotRange(s)'
    <3> SUFFICES ASSUME NEW s \in Slots, child'[s] # Null
                 PROVE  range'[child'[s]] = SlotRange(s)'
      OBVIOUS
    <3>1. CASE s = S
      BY <3>1, <1>6, <1>7, <1>9, <1>4
    <3>2. CASE s # S
      <4>1. child'[s] = child[s] /\ child[s] \in Nodes /\ child[s] # n
        BY <3>2, <1>5, <1>7 DEF IndInv, TypeOK
      <4>2. s[1] # n
        BY <4>1, <1>8
      <4> QED
        BY <4>1, <4>2, <1>7, <1>9 DEF IndInv, TreeInv
    <3> QED
      BY <3>1, <3>2
  <2> QED
    BY <2>1, <2>2, <2>3, <2>4 DEF TreeInv
<1>14. ShareInv'
  <2>1. \A s \in Slots : OpenSlot(s) => s[1] # n
    BY <1>6, TreeAssumption DEF OpenSlot
  <2> QED
    BY <2>1, <1>2, <1>7, <1>9, <1>10 DEF IndInv, ShareInv
<1>15. \A u \in Threads : cur[u] # n => Slot(u)' = Slot(u) /\ KeyHere(u)' = KeyHere(u)
  BY <1>2 DEF Slot, SlotOf, KeyHere, Key
<1>16. BirthInv'
  <2> SUFFICES ASSUME NEW s \in Slots, child'[s] # Null, ~Filled(child'[s])
               PROVE  \E u \in Threads : pc'[u] = "fill" /\ Slot(u)' = s
    BY <1>7 DEF BirthInv
  <2>1. CASE s = S
    BY <2>1, <1>2, <1>4, <1>6, <1>15 DEF IndInv, TypeOK
  <2>2. CASE s # S
    <3>1. PICK u \in Threads : pc[u] = "fill" /\ Slot(u) = s
      BY <2>2, <1>7 DEF IndInv, BirthInv
    <3>2. cur[u] # n
      BY <3>1, <1>6, TreeAssumption DEF IndInv, ThreadInv, Searching
    <3> QED
      BY <3>1, <3>2, <1>2, <1>15 DEF IndInv, TypeOK
  <2> QED
    BY <2>1, <2>2
<1>17. \A u \in Threads \ {t} : ThreadInv(u)'
  <2> SUFFICES ASSUME NEW u \in Threads \ {t}
               PROVE  ThreadInv(u)'
    OBVIOUS
  <2>1. /\ pc'[u] = pc[u] /\ cur'[u] = cur[u] /\ nxt'[u] = nxt[u]
        /\ mtx' = mtx /\ Key(u)' = Key(u) /\ cur[u] \in Owners
    BY <1>1, <1>2 DEF Key, IndInv, TypeOK
  <2>2. pc[u] \in Holding => cur[u] # cur[t]
    BY <1>3 DEF IndInv, ThreadInv
  <2>3. pc[u] \in Searching => cur[u] # n
    BY <1>6, TreeAssumption DEF IndInv, ThreadInv
  <2>4. Slot(u) \in Slots /\ Slot(u)[1] = cur[u]
    BY <2>1, SlotType DEF Slot
  <2>5. pc[u] \in Searching => /\ child'[Slot(u)'] = child[Slot(u)]
                               /\ KeyHere(u)' = KeyHere(u)
    BY <2>2, <2>3, <2>4, <1>4, <1>7, <1>15 DEF Searching, Holding, PCs
  <2>6. \A d \in Dir : pc[u] \in Deleting /\ HasChild(u, d) => HasChild(u, d)'
    <3> SUFFICES ASSUME NEW d \in Dir, pc[u] \in Deleting, HasChild(u, d)
                 PROVE  HasChild(u, d)'
      OBVIOUS
    <3>1. cur[u] # cur[t] /\ cur[u] # Tree
      BY <2>2 DEF Deleting, Holding, PCs, IndInv, ThreadInv
    <3>2. <<cur[u], d>> \in Slots /\ <<cur[u], d>>[1] = cur[u]
      BY <3>1, <2>1 DEF Slots, Owners, Dir
    <3>3. <<cur[u], d>> # S
      BY <3>1, <3>2, <1>4
    <3>4. child'[<<cur[u], d>>] = child[<<cur[u], d>>]
      BY <3>2, <3>3, <1>7
    <3> QED
      BY <3>4, <2>1 DEF HasChild
  <2>7. pc[u] \in Searching /\ cur[u] # Tree => range'[cur[u]] = range[cur[u]]
    BY <2>1, <2>3, <1>7 DEF Owners
  <2>8. ThreadInv(u)
    BY DEF IndInv
  <2> QED
    BY <2>1, <2>5, <2>6, <2>7, <2>8, <1>7 DEF ThreadInv, Searching, Deleting,
      Dir
<1>18. ThreadInv(t)'
  <2>1. pc'[t] = "fill" /\ cur'[t] = cur[t] /\ nxt'[t] = n /\ mtx'[cur[t]] = t
    BY <1>1, <1>2, <1>3 DEF IndInv, TypeOK
  <2>2. Slot(t)' = S /\ KeyHere(t)' = KeyHere(t) /\ Key(t)' = Key(t)
    BY <1>2, <1>4, <1>6, <1>15 DEF Key
  <2>3. cur[t] # Tree => /\ Filled(cur[t])' /\ Key(t) \in range'[cur[t]]
    <3>1. cur[t] # Tree => Key(t) \in range[cur[t]]
      BY <1>2 DEF IndInv, ThreadInv, Searching
    <3>2. cur[t] # Tree => cur[t] \in Nodes /\ cur[t] # n
      BY <1>4, <1>6 DEF Owners
    <3> QED
      BY <3>1, <3>2, <1>2, <1>3, <1>7
  <2> QED
    BY <2>1, <2>2, <2>3, <1>3, <1>4, <1>5, <1>6, <1>7
    DEF ThreadInv, Deleting
<1> QED
  BY <1>11, <1>12, <1>13, <1>14, <1>16, <1>17, <1>18 DEF IndInv

\* The new node's two slots divide up the share of the slot it fills, less
\* its own key.
LEMMA FillNodeInv ==
  ASSUME IndInv, NEW t \in Threads, FillNode(t)
  PROVE  IndInv'
<1> DEFINE n == nxt[t]
<1> DEFINE S == Slot(t)
<1> DEFINE k == Key(t)
<1>1. /\ pc[t] = "fill" /\ pc' = [pc EXCEPT ![t] = "leave"]
      /\ key' = [key EXCEPT ![n] = k]
      /\ child' = [child EXCEPT ![<<n, "left">>] = Null,
                                ![<<n, "right">>] = Null]
      /\ result' = [result EXCEPT ![t] = 0]
      /\ UNCHANGED <<mtx, call, cur, nxt, stack, todo, crashed, range>>
  BY DEF FillNode, At, GoTo, LeaveWith
<1>2. /\ ~KeyHere(t) /\ n # Null /\ n = child[S] /\ ~Filled(n)
      /\ mtx[cur[t]] = t
      /\ cur[t] # Tree => Filled(cur[t])
  BY <1>1 DEF IndInv, ThreadInv, Holding, Searching, PCs
<1>3. cur[t] \in Owners /\ S \in Slots /\ S[1] = cur[t]
  BY SlotType DEF Slot, IndInv, TypeOK
<1>4. n \in Nodes /\ n # Tree /\ S[1] # n
  BY <1>2, <1>3, TreeAssumption DEF IndInv, TypeOK
<1>5. k \in Keys /\ k # Null /\ k \in Int
  <2>1. call[t] \in Call
    BY DEF IndInv, TypeOK
  <2>2. k \in Keys
    BY <2>1 DEF Key, Call
  <2> QED
    BY <2>2, KeysAssumption, NullAssumption
<1>6. k \in SlotRange(S) /\ range[n] = SlotRange(S) /\ OpenSlot(S)
  <2>1. k \in SlotRange(S)
    BY <1>1, <1>2, KeyInSlotRange DEF IndInv, Searching
  <2> QED
    BY <2>1, <1>2, <1>3 DEF IndInv, TreeInv, OpenSlot
<1>7. child' = child
  <2>1. child[<<n, "left">>] = Null /\ child[<<n, "right">>] = Null
    BY <1>2, <1>4 DEF IndInv, TreeInv, Dir
  <2> QED
    BY <2>1, <1>1, <1>4 DEF IndInv, TypeOK, Slots
<1>8. /\ \A m \in Nodes : key'[m] = IF m = n THEN k ELSE key[m]
      /\ \A m \in Nodes : Filled(m)' <=> (m = n \/ Filled(m))
      /\ range' = range
  BY <1>1, <1>4, <1>5 DEF IndInv, TypeOK, Filled
<1>9. \A s \in Slots : s[1] # n => SlotRange(s)' = SlotRange(s)
  <2> SUFFICES ASSUME NEW s \in Slots, s[1] # n
               PROVE  SlotRange(s)' = SlotRange(s)
    OBVIOUS
  <2>1. s[1] # Tree => s[1] \in Nodes /\ key'[s[1]] = key[s[1]]
    BY <1>8 DEF Slots
  <2> QED
    BY <2>1, <1>8 DEF SlotRange
<1>10. \A s \in Slots : s[1] = n => /\ s = <<n, "left">> \/ s = <<n, "right">>
                                    /\ child[s] = Null
  <2> SUFFICES ASSUME NEW s \in Slots, s[1] = n
               PROVE  /\ s = <<n, "left">> \/ s = <<n, "right">>
                      /\ child[s] = Null
    OBVIOUS
  <2>1. PICK m \in Nodes, d \in Dir : s = <<m, d>>
    BY <1>4 DEF Slots, Dir
  <2> QED
    BY <2>1, <1>2 DEF IndInv, TreeInv, Dir
<1>11. \A j : j \in SlotRange(<<n, "left">>)' <=> j \in range[n] /\ j < k
  <2>1. n' = n /\ key'[n] = k /\ range'[n] = range[n]
    BY <1>1, <1>4, <1>8
  <2> QED
    BY <2>1, <1>4 DEF SlotRange
<1>12. \A j : j \in SlotRange(<<n, "right">>)' <=> j \in range[n] /\ j > k
  <2>1. n' = n /\ key'[n] = k /\ range'[n] = range[n]
    BY <1>1, <1>4, <1>8
  <2> QED
    BY <2>1, <1>4 DEF SlotRange
<1>13. \A j \in range[n] : j \in Int
  <2>1. range[n] \subseteq Keys
    BY <1>4 DEF IndInv, TypeOK
  <2> QED
    BY <2>1, KeysAssumption
<1>14. \A s \in Slots : s[1] = n => /\ SlotRange(s)' \subseteq SlotRange(S)
                                    /\ k \notin SlotRange(s)'
  <2>1. n' = n
    BY <1>1
  <2>2. ~(k < k) /\ ~(k > k)
    BY <1>5
  <2> QED
    BY <2>1, <2>2, <1>6, <1>10, <1>11, <1>12
<1>15. \A s \in Slots : OpenSlot(s)' /\ s[1] # n => OpenSlot(s) /\ s # S
  <2> SUFFICES ASSUME NEW s \in Slots, OpenSlot(s)', s[1] # n
               PROVE  OpenSlot(s) /\ s # S
    OBVIOUS
  <2>1. s[1] = Tree \/ (s[1] \in Nodes /\ Filled(s[1]))
    BY <1>8 DEF OpenSlot, Slots
  <2>2. child[s] = Null \/ (child[s] \in Nodes /\ ~Filled(child[s]) /\ child[s] # n)
    BY <1>7, <1>8 DEF OpenSlot, IndInv, TypeOK
  <2> QED
    BY <2>1, <2>2, <1>2 DEF OpenSlot
<1>16. TypeOK'
  BY <1>1, <1>4, <1>5, <1>7 DEF IndInv, TypeOK, PCs
<1>17. \A m \in Nodes : Filled(m) => key[m] # k /\ m # n
  BY <1>2, <1>3, <1>6 DEF IndInv, ShareInv
<1>18. KeysUnique'
  <2> SUFFICES ASSUME NEW p \in Nodes, NEW q \in Nodes, Filled(p)',
                      key'[p] = key'[q]
               PROVE  p = q
    BY DEF KeysUnique
  <2>1. Filled(q)'
    BY DEF Filled
  <2>2. CASE p = n \/ q = n
    BY <2>1, <2>2, <1>8, <1>17
  <2>3. CASE p # n /\ q # n
    BY <2>3, <1>8 DEF IndInv, KeysUnique
  <2> QED
    BY <2>2, <2>3
<1>19. TreeInv'
  <2>1. \A s1, s2 \in Slots :
          child'[s1] # Null /\ child'[s1] = child'[s2] => s1 = s2
    BY <1>7 DEF IndInv, TreeInv
  <2>2. \A m \in Nodes : ~Filled(m)' => \A d \in Dir : child'[<<m, d>>] = Null
    BY <1>7, <1>8 DEF IndInv, TreeInv
  <2>3. \A m \in Nodes : Filled(m)' => /\ key'[m] \in range'[m]
                                       /\ \E s \in Slots : child'[s] = m
    BY <1>2, <1>3, <1>6, <1>7, <1>8 DEF IndInv, TreeInv
  <2>4. \A s \in Slots : child'[s] # Null => range'[child'[s]] = SlotRange(s)'
    BY <1>7, <1>8, <1>9, <1>10 DEF IndInv, TreeInv
  <2> QED
    BY <2>1, <2>2, <2>3, <2>4 DEF TreeInv
<1>20. \A s1, s2 \in Slots : OpenSlot(s1)' /\ OpenSlot(s2)' /\ s1 # s2
                               => SlotRange(s1)' \cap SlotRange(s2)' = {}
  <2> SUFFICES ASSUME NEW s1 \in Slots, NEW s2 \in Slots,
                      OpenSlot(s1)', OpenSlot(s2)', s1 # s2
               PROVE  SlotRange(s1)' \cap SlotRange(s2)' = {}
    OBVIOUS
  <2>1. CASE s1[1] # n /\ s2[1] # n
    BY <2>1, <1>9, <1>15 DEF IndInv, ShareInv
  <2>2. CASE s1[1] = n /\ s2[1] # n
    BY <2>2, <1>3, <1>6, <1>9, <1>14, <1>15 DEF IndInv, ShareInv
  <2>3. CASE s1[1] # n /\ s2[1] = n
    BY <2>3, <1>3, <1>6, <1>9, <1>14, <1>15 DEF IndInv, ShareInv
  <2>4. CASE s1[1] = n /\ s2[1] = n
    <3>1. n' = n
      BY <1>1
    <3>2. \A j \in range[n] : ~(j < k /\ j > k)
      BY <1>5, <1>13
    <3> QED
      BY <2>4, <3>1, <3>2, <1>10, <1>11, <1>12
  <2> QED
    BY <2>1, <2>2, <2>3, <2>4
<1>21. \A s \in Slots, m \in Nodes :
         OpenSlot(s)' /\ Filled(m)' => key'[m] \notin SlotRange(s)'
  <2> SUFFICES ASSUME NEW s \in Slots, NEW m \in Nodes, OpenSlot(s)', Filled(m)'
               PROVE  key'[m] \notin SlotRange(s)'
    OBVIOUS
  <2>1. CASE m = n
    BY <2>1, <1>3, <1>6, <1>8, <1>9, <1>14, <1>15 DEF IndInv, ShareInv
  <2>2. CASE m # n
    <3>1. Filled(m) /\ key'[m] = key[m]
      BY <2>2, <1>8
    <3> QED
      BY <3>1, <1>3, <1>6, <1>9, <1>14, <1>15 DEF IndInv, ShareInv
  <2> QED
    BY <2>1, <2>2
<1>22. \A u \in Threads : cur[u] # n => Slot(u)' = Slot(u) /\ KeyHere(u)' = KeyHere(u)
  <2> SUFFICES ASSUME NEW u \in Threads, cur[u] # n
               PROVE  Slot(u)' = Slot(u) /\ KeyHere(u)' = KeyHere(u)
    OBVIOUS
  <2>1. cur[u] # Tree => cur[u] \in Nodes /\ key'[cur[u]] = key[cur[u]]
    BY <1>8 DEF IndInv, TypeOK, Owners
  <2> QED
    BY <2>1, <1>1 DEF Slot, SlotOf, KeyHere, Key
<1>23. \A u \in Threads : pc[u] \in Searching => cur[u] # n
  BY <1>2, <1>4 DEF IndInv, ThreadInv
<1>24. BirthInv'
  <2> SUFFICES ASSUME NEW s \in Slots, child'[s] # Null, ~Filled(child[s])'
               PROVE  \E u \in Threads : pc'[u] = "fill" /\ Slot(u)' = s
    BY <1>7 DEF BirthInv
  <2>1. child[s] \in Nodes /\ ~Filled(child[s]) /\ child[s] # n
    BY <1>7, <1>8 DEF IndInv, TypeOK
  <2>2. PICK u \in Threads : pc[u] = "fill" /\ Slot(u) = s
    BY <2>1, <1>7 DEF IndInv, BirthInv
  <2>3. u # t /\ cur[u] # n
    BY <2>1, <2>2, <1>2, <1>23 DEF Searching
  <2> QED
    BY <2>2, <2>3, <1>1, <1>22 DEF IndInv, TypeOK
<1>25. \A u \in Threads \ {t} : ThreadInv(u)'
  <2> SUFFICES ASSUME NEW u \in Threads \ {t}
               PROVE  ThreadInv(u)'
    OBVIOUS
  <2>1. /\ pc'[u] = pc[u] /\ cur'[u] = cur[u] /\ nxt'[u] = nxt[u]
        /\ mtx' = mtx /\ Key(u)' = Key(u) /\ cur[u] \in Owners
    BY <1>1 DEF Key, IndInv, TypeOK
  <2>2. pc[u] \in Searching => Slot(u)' = Slot(u) /\ KeyHere(u)' = KeyHere(u)
    BY <1>22, <1>23
  <2>3. pc[u] = "fill" => nxt[u] # n
    <3>1. pc[u] = "fill" => /\ nxt[u] = child[Slot(u)] /\ mtx[cur[u]] = u
                            /\ Slot(u) \in Slots /\ Slot(u)[1] = cur[u]
      BY <2>1, SlotType DEF IndInv, ThreadInv, Holding, PCs, Slot
    <3> QED
      BY <3>1, <1>2, <1>3 DEF IndInv, TreeInv
  <2>4. \A d \in Dir : HasChild(u, d)' = HasChild(u, d)
    BY <2>1, <1>7 DEF HasChild
  <2>5. pc[u] \in Searching /\ cur[u] # Tree => Filled(cur[u])' 
    BY <2>1, <1>8 DEF IndInv, ThreadInv, Owners
  <2>6. /\ pc[u] \in {"lockChild", "unlockParent"} => Filled(nxt[u])'
        /\ pc[u] = "fill" => ~Filled(nxt[u])'
    <3>1. nxt[u] # Null => nxt[u] \in Nodes
      BY DEF IndInv, TypeOK
    <3> QED
      BY <3>1, <2>1, <2>3, <1>8 DEF IndInv, ThreadInv
  <2>7. ThreadInv(u)
    BY DEF IndInv
  <2> QED
    BY <2>1, <2>2, <2>4, <2>5, <2>6, <2>7, <1>7, <1>8
    DEF ThreadInv, Searching, Deleting, Dir
<1>26. ThreadInv(t)'
  <2>1. pc'[t] = "leave" /\ mtx'[cur'[t]] = t
    BY <1>1, <1>2 DEF IndInv, TypeOK
  <2> QED
    BY <2>1 DEF ThreadInv, Searching, Deleting
<1> QED
  BY <1>16, <1>18, <1>19, <1>20, <1>21, <1>24, <1>25, <1>26 DEF IndInv,
    ShareInv

-----------------------------------------------------------------------------
\* At first one slot, the root, has every key for its share.
LEMMA InitInv == Init => IndInv
<1> SUFFICES ASSUME Init PROVE IndInv
  OBVIOUS
<1>1. TypeOK
  <2> DEFINE c0 == CHOOSE c \in Call : TRUE
  <2>1. PICK k \in Keys : TRUE
    BY KeysAssumption
  <2>2. [op |-> "add", key |-> k] \in Call
    BY DEF Call
  <2>3. c0 \in Call
    BY <2>2
  <2>4. call \in [Threads -> Call]
    BY <2>3 DEF Init
  <2>5. stack \in [Threads -> Seq(Nodes)]
    BY DEF Init
  <2> QED
    BY <2>4, <2>5, WorksAssumption DEF Init, TypeOK, PCs, Owners
<1>2. \A n \in Nodes : ~Filled(n)
  BY DEF Init, Filled
<1>3. \A s \in Slots : child[s] = Null
  BY DEF Init
<1>4. KeysUnique
  BY <1>2 DEF KeysUnique
<1>5. TreeInv
  <2>1. \A n \in Nodes, d \in Dir : <<n, d>> \in Slots
    BY DEF Slots, Dir
  <2> QED
    BY <2>1, <1>2, <1>3 DEF TreeInv
<1>6. ShareInv
  <2>1. \A s \in Slots : OpenSlot(s) => s = <<Tree, "root">>
    <3> SUFFICES ASSUME NEW s \in Slots, OpenSlot(s), s # <<Tree, "root">>
                 PROVE  FALSE
      OBVIOUS
    <3>1. PICK n \in Nodes, d \in Dir : s = <<n, d>>
      BY DEF Slots, Dir
    <3> QED
      BY <3>1, <1>2, TreeAssumption DEF OpenSlot
  <2> QED
    BY <2>1, <1>2 DEF ShareInv
<1>7. BirthInv
  BY <1>3 DEF BirthInv
<1>8. \A t \in Threads : ThreadInv(t)
  BY DEF Init, ThreadInv, Holding, Searching, Deleting
<1> QED
  BY <1>1, <1>4, <1>5, <1>6, <1>7, <1>8 DEF IndInv

\* Every step preserves the invariant.
LEMMA NextInv == IndInv /\ [Next]_vars => IndInv'
<1> SUFFICES ASSUME IndInv, [Next]_vars PROVE IndInv'
  OBVIOUS
<1>1. CASE UNCHANGED vars
  <2>1. TypeOK' /\ KeysUnique'
    BY <1>1 DEF vars, IndInv, TypeOK, KeysUnique, Filled
  <2>2. TreeInv' /\ ShareInv'
    <3>1. child' = child /\ key' = key /\ range' = range
      BY <1>1 DEF vars
    <3>2. \A s : OpenSlot(s)' = OpenSlot(s) /\ SlotRange(s)' = SlotRange(s)
      BY <3>1 DEF OpenSlot, SlotRange, Filled
    <3> QED
      BY <3>1, <3>2 DEF IndInv, TreeInv, ShareInv, Filled
  <2>3. BirthInv'
    BY <1>1 DEF vars, IndInv, BirthInv, Slot, SlotOf, Key, Filled
  <2>4. \A t \in Threads : ThreadInv(t)'
    BY <1>1 DEF vars, IndInv, ThreadInv, Slot, SlotOf, Key, KeyHere, Filled,
      HasChild
  <2> QED
    BY <2>1, <2>2, <2>3, <2>4 DEF IndInv
<1>2. ASSUME NEW t \in Threads, Step(t) PROVE IndInv'
  BY <1>2, BeginQuiet, LockTreeQuiet, DescendQuiet, LockChildQuiet,
     UnlockParentQuiet, LeaveQuiet, AddDuplicateQuiet, ReturnLockedQuiet,
     AddFindsRoomQuiet, PublishNodeInv, FillNodeInv, TreeEmptyQuiet,
     FindFailsQuiet, DeleteMissesQuiet, LookupMissesQuiet, LookupFindsQuiet,
     DeleteFindsQuiet, DeleteLocksLeftQuiet, DeleteLocksRightQuiet,
     DeleteFaultsQuiet, DeleteUnlocksLeftQuiet, DeleteUnlocksRightQuiet,
     PrintVisitsQuiet, PrintReadsGarbageQuiet, PrintEndsQuiet
  DEF Step
<1> QED
  BY <1>1, <1>2 DEF Next, Done

\* The inductive invariant holds in every reachable state: the keys still to
\* be stored stay divided among the slots where bt_add_rec_ts may store them.
THEOREM Invariance == Spec => []IndInv
BY InitInv, NextInv, PTL DEF Spec

\* Every variable keeps its type: a thread never follows or locks a NULL
\* pointer on bt_add_rec_ts's and bt_find_node_ts's way down.
THEOREM TypeCorrect == Spec => []TypeOK
<1>1. IndInv => TypeOK
  BY DEF IndInv
<1> QED
  BY <1>1, Invariance, PTL

\* bt_add_ts never stores one key in two nodes, whatever threads do meanwhile.
THEOREM NoKeyTwice == Spec => []KeysUnique
<1>1. IndInv => KeysUnique
  BY DEF IndInv
<1> QED
  BY <1>1, Invariance, PTL

\* A thread that went down to a node finds it filled in, although
\* bt_create_node_ts links a node in before it writes its fields.
THEOREM NoHalfBuiltNode == Spec => []NodesSeenAreFilled
<1>1. IndInv => NodesSeenAreFilled
  BY DEF IndInv, ThreadInv, Searching, NodesSeenAreFilled
<1> QED
  BY <1>1, Invariance, PTL

-----------------------------------------------------------------------------
(* A search: from the header down, once through every node on its way.      *)

\* An owner on the way of a search for k that can still find it.
OnWay(o, k) == o = Tree \/ (o \in Nodes /\ Filled(o) /\ k \in range[o])

\* A search for the key of a node goes on from owner to child until it is there.
LEMMA SearchGoesOn ==
  ASSUME IndInv, NEW n \in Nodes, Filled(n), NEW o \in Owners, OnWay(o, key[n])
  PROVE  /\ o = n => SearchNext(o, key[n]) = n
         /\ o # n => /\ SearchNext(o, key[n]) = child[SlotOf(o, key[n])]
                     /\ SearchNext(o, key[n]) \in Nodes
                     /\ OnWay(SearchNext(o, key[n]), key[n])
<1> DEFINE k == key[n]
           s == SlotOf(o, k)
<1>1. s \in Slots /\ s[1] = o /\ k \in Keys /\ n # Tree /\ n # Null
  BY SlotType, TreeAssumption, NullAssumption DEF IndInv, TypeOK, Filled
<1>2. CASE o = n
  BY <1>1, <1>2 DEF SearchNext
<1>3. CASE o # n
  <2>1. o # Tree => key[o] # k /\ Filled(o) /\ o \in Nodes
    BY <1>3 DEF OnWay, IndInv, KeysUnique
  <2>2. k \in SlotRange(s)
    <3>1. CASE o = Tree
      BY <1>1, <3>1 DEF SlotRange
    <3>2. CASE o # Tree
      <4>1. k \in range[o] /\ key[o] \in Keys /\ k # key[o]
        BY <2>1, <3>2 DEF OnWay, IndInv, TypeOK, Filled
      <4>2. (k < key[o]) \/ (k > key[o])
        BY <1>1, <4>1, KeysAssumption
      <4>3. s = <<o, IF k < key[o] THEN "left" ELSE "right">>
        BY <3>2 DEF SlotOf
      <4>4. s[2] = IF k < key[o] THEN "left" ELSE "right"
        BY <4>3
      <4> QED BY <1>1, <3>2, <4>1, <4>2, <4>4 DEF SlotRange
    <3> QED BY <3>1, <3>2
  <2>3. child[s] # Null /\ Filled(child[s])
    <3>1. OpenSlot(s) => k \notin SlotRange(s)
      BY <1>1 DEF IndInv, ShareInv
    <3> QED BY <1>1, <2>1, <2>2, <3>1 DEF OpenSlot
  <2>4. child[s] \in Nodes /\ range[child[s]] = SlotRange(s)
    BY <1>1, <2>3 DEF IndInv, TypeOK, TreeInv
  <2>5. SearchNext(o, k) = child[s]
    BY <2>1, <2>3 DEF SearchNext
  <2> QED BY <1>3, <2>2, <2>3, <2>4, <2>5 DEF OnWay
<1> QED BY <1>2, <1>3

\* The path of a search, step by step.
LEMMA SearchPathSteps ==
  ASSUME IndInv, IsFiniteSet(Nodes), NEW k
  PROVE  /\ SearchPath(k)[0] = Tree
         /\ \A d \in 1..Cardinality(Nodes) : SearchPath(k)[d] = SearchNext(SearchPath(k)[d - 1], k)
<1> DEFINE D == Cardinality(Nodes)
           step == [d \in 1..D |-> [o \in Owners |-> SearchNext(o, k)]]
           P(f) == f = [d \in 0..D |-> IF d = 0 THEN Tree ELSE SearchNext(f[d - 1], k)]
<1>1. D \in Nat
  BY FS_CardinalityType
<1>2. \A o \in Owners : SearchNext(o, k) \in Owners
  BY SlotType DEF SearchNext, IndInv, TypeOK, Owners
<1>3. step \in [1..D -> [Owners -> Owners]] /\ Tree \in Owners
  BY <1>2 DEF Owners
<1>4. PICK f \in [0..D -> Owners] : f[0] = Tree /\ \A d \in 1..D : f[d] = step[d][f[d - 1]]
  <2> HIDE DEF step, D
  <2>1. PICK f \in [0..D -> Owners] : IsRecursion(f, D, Tree, step)
    BY <1>1, <1>3, RecursionUpTo
  <2> QED BY <2>1 DEF IsRecursion
<1>4a. \A d \in 1..D : f[d] = SearchNext(f[d - 1], k)
  <2> TAKE d \in 1..D
  <2>1. f[d - 1] \in Owners
    BY <1>1
  <2> QED BY <1>4, <2>1
<1>5. P(f)
  <2>1. \A d \in 0..D : f[d] = IF d = 0 THEN Tree ELSE SearchNext(f[d - 1], k)
    <3> TAKE d \in 0..D
    <3>1. CASE d = 0
      BY <3>1, <1>4
    <3>2. CASE d # 0
      <4>1. d \in 1..D /\ d - 1 \in 0..D
        BY <1>1, <3>2
      <4> QED BY <1>4a, <3>2, <4>1
    <3> QED BY <3>1, <3>2
  <2> QED BY <2>1
<1>6. P(SearchPath(k))
  <2>1. SearchPath(k) = CHOOSE g : P(g)
    BY DEF SearchPath
  <2> HIDE DEF P
  <2> QED BY <1>5, <2>1
<1>7. \A d \in 0..D : SearchPath(k)[d] = IF d = 0 THEN Tree ELSE SearchNext(SearchPath(k)[d - 1], k)
  BY <1>6
<1>8. 0 \in 0..D /\ \A d \in 1..D : d \in 0..D /\ d # 0
  BY <1>1
<1> QED BY <1>7, <1>8

\* A search finds the key that a node has been given.
LEMMA SearchFinds ==
  ASSUME IndInv, IsFiniteSet(Nodes), NEW n \in Nodes, Filled(n)
  PROVE  SearchEnd(key[n]) = n
<1> DEFINE D == Cardinality(Nodes)
           p == SearchPath(key[n])
<1> SUFFICES ASSUME p[D] # n
             PROVE  FALSE
  BY DEF SearchEnd
<1>1. D \in Nat /\ Cardinality(Nodes \ {n}) = D - 1 /\ IsFiniteSet(Nodes \ {n})
  BY FS_CardinalityType, FS_RemoveElement
<1>2. p[0] = Tree /\ \A d \in 1..D : p[d] = SearchNext(p[d - 1], key[n])
  BY SearchPathSteps
<1> HIDE DEF p, D
\* The search is not at n before its end, for it would stay there.
<1>3. \A d \in 0..D : p[d] \in Owners /\ OnWay(p[d], key[n])
  <2> DEFINE S == {d \in 0..D : p[d] \in Owners /\ OnWay(p[d], key[n])}
  <2>1. 0 \in S
    BY <1>1, <1>2 DEF OnWay, Owners
  <2>2. \A d \in 0..(D - 1) : d \in S => d + 1 \in S
    <3> SUFFICES ASSUME NEW d \in 0..(D - 1), d \in S
                 PROVE  d + 1 \in S
      OBVIOUS
    <3>1. d + 1 \in 1..D /\ d + 1 \in 0..D /\ (d + 1) - 1 = d
      BY <1>1
    <3>2. p[d + 1] = SearchNext(p[d], key[n])
      BY <1>2, <3>1
    <3>3. p[d + 1] = n \/ (p[d + 1] \in Nodes /\ OnWay(p[d + 1], key[n]))
      BY <3>2, SearchGoesOn
    <3>4. OnWay(n, key[n])
      BY DEF OnWay, IndInv, TreeInv
    <3> QED BY <3>1, <3>3, <3>4 DEF Owners
  <2> HIDE DEF S
  <2>3. 0..D \subseteq S
    BY <1>1, <2>1, <2>2, InductionUpTo
  <2> QED BY <2>3 DEF S
<1>4. \A d \in 0..D : p[d] # n
  <2> DEFINE S == {d \in 0..D : p[D - d] # n}
  <2>1. 0 \in S
    BY <1>1
  <2>2. \A d \in 0..(D - 1) : d \in S => d + 1 \in S
    <3> SUFFICES ASSUME NEW d \in 0..(D - 1), d \in S
                 PROVE  d + 1 \in S
      OBVIOUS
    <3>1. D - d \in 1..D /\ d + 1 \in 0..D /\ D - (d + 1) \in 0..D /\ (D - d) - 1 = D - (d + 1)
      BY <1>1
    <3>2. p[D - d] = SearchNext(p[D - (d + 1)], key[n])
      BY <1>2, <3>1
    <3>3. p[D - (d + 1)] # n
      BY <1>3, <3>1, <3>2, SearchGoesOn
    <3> QED BY <3>1, <3>3
  <2>3. 0..D \subseteq S
    <3> HIDE DEF S
    <3> QED BY <1>1, <2>1, <2>2, InductionUpTo
  <2> TAKE d \in 0..D
  <2>4. D - d \in 0..D /\ D - (D - d) = d
    BY <1>1
  <2> QED BY <2>3, <2>4
<1>5. \A d \in 1..D : /\ d - 1 \in 0..D /\ p[d] \in Nodes
                      /\ p[d] = child[SlotOf(p[d - 1], key[n])]
  <2> TAKE d \in 1..D
  <2>1. d - 1 \in 0..D
    BY <1>1
  <2> QED BY <2>1, <1>2, <1>3, <1>4, SearchGoesOn
\* It comes to no node twice: a node has one parent.
<1>6. \A i \in 0..D : \A j \in (i + 1)..D : p[i] # p[j]
  <2> DEFINE S == {i \in 0..D : \A j \in (i + 1)..D : p[i] # p[j]}
  <2>1. 0 \in S
    <3>1. \A j \in (0 + 1)..D : j \in 1..D
      OBVIOUS
    <3> QED BY <1>1, <1>2, <1>5, <3>1, TreeAssumption
  <2>2. \A i \in 0..(D - 1) : i \in S => i + 1 \in S
    <3> SUFFICES ASSUME NEW i \in 0..(D - 1), i \in S, NEW j \in ((i + 1) + 1)..D, p[i + 1] = p[j]
                 PROVE  FALSE
      BY <1>1
    <3>1. i + 1 \in 1..D /\ j \in 1..D /\ (i + 1) - 1 = i /\ j - 1 \in (i + 1)..D
          /\ i \in 0..D /\ j - 1 \in 0..D
      BY <1>1
    <3>2. p[i] \in Owners /\ p[j - 1] \in Owners
      BY <1>3, <3>1
    <3>3. child[SlotOf(p[i], key[n])] = child[SlotOf(p[j - 1], key[n])]
          /\ child[SlotOf(p[i], key[n])] \in Nodes
      BY <1>5, <3>1
    <3>4. SlotOf(p[i], key[n]) = SlotOf(p[j - 1], key[n])
      BY <3>2, <3>3, SlotType, NullAssumption DEF IndInv, TreeInv
    <3>5. p[i] = p[j - 1]
      BY <3>2, <3>4, SlotType
    <3> QED BY <3>1, <3>5
  <2>3. 0..D \subseteq S
    <3> HIDE DEF S
    <3> QED BY <1>1, <2>1, <2>2, InductionUpTo
  <2> QED BY <2>3
\* More nodes than there are besides n.
<1>7. PICK i \in 1..D, j \in 1..D : i # j /\ p[i] = p[j]
  <2> DEFINE f == [d \in 1..D |-> p[d]]
  <2>1. f \in [1..D -> Nodes \ {n}]
    <3>1. \A d \in 1..D : d \in 0..D
      BY <1>1
    <3> QED BY <1>4, <1>5, <3>1
  <2>2. IsFiniteSet(1..D) /\ Cardinality(1..D) = D /\ D > D - 1
    <3>1. D # 0
      BY <1>1, FS_EmptySet DEF D
    <3> QED BY <1>1, <3>1, FS_Interval
  <2>3. \E i, j \in 1..D : i # j /\ f[i] = f[j]
    <3> HIDE DEF f
    <3> QED BY <1>1, <2>1, <2>2, FS_PigeonHole
  <2> QED BY <2>3
<1>8. (i < j /\ j \in (i + 1)..D /\ i \in 0..D) \/ (j < i /\ i \in (j + 1)..D /\ j \in 0..D)
  BY <1>1, <1>7
<1> QED BY <1>6, <1>7, <1>8

\* A key that bt_add_ts has stored is found by every later search that nothing disturbs,
\* however far down it is: no add hides or unlinks what another one has stored.
THEOREM StoredIsFound == IsFiniteSet(Nodes) => (Spec => []StoredKeysAreFound)
<1> SUFFICES ASSUME IsFiniteSet(Nodes)
             PROVE  Spec => []StoredKeysAreFound
  OBVIOUS
<1>1. IndInv => StoredKeysAreFound
  BY SearchFinds DEF StoredKeysAreFound
<1> QED
  BY <1>1, Invariance, PTL

-----------------------------------------------------------------------------
(* The tree is the concurrent set that exercise 30-2 asks for.            *)

\* No thread ever deletes: a delete that succeeds removes nothing (the switch's case 2).
NoDeletes == \A w \in Works : \A t \in Threads : \A c \in w[t] : c.op # "delete"

\* No delete is under way or to come, and a thread is where its operation takes it.
OpInv(t) ==
  /\ \A c \in todo[t] : c.op # "delete"
  /\ pc[t] # "idle" => Op(t) # "delete"
  /\ pc[t] = "print" => Op(t) = "print"
  /\ pc[t] \in {"create", "fill"} => Op(t) = "add"

\* Nobody has begun.
LEMMA OpInit == NoDeletes /\ Init => \A t \in Threads : OpInv(t)
BY DEF NoDeletes, Init, OpInv

\* The step of a thread leaves the other threads' calls alone.
LEMMA OpStep ==
  ASSUME TypeOK, \A t \in Threads : OpInv(t), [Next]_vars
  PROVE  \A t \in Threads : OpInv(t)'
<1>1. CASE UNCHANGED vars
  BY <1>1 DEF vars, OpInv, Op
<1>2. ASSUME NEW t \in Threads, Step(t)
      PROVE  \A u \in Threads : OpInv(u)'
  <2> USE DEF TypeOK, OpInv, Op, At, GoTo
  <2>1. CASE Begin(t)
    BY <2>1 DEF Begin
  <2>2. CASE LockTree(t)
    BY <2>2 DEF LockTree
  <2>3. CASE Descend(t) \/ LockChild(t) \/ UnlockParent(t)
    BY <2>3 DEF Descend, LockChild, UnlockParent
  <2>4. CASE Leave(t) \/ ReturnLocked(t) \/ DeleteMisses(t) \/ DeleteUnlocksRight(t)
    BY <2>4 DEF Leave, ReturnLocked, DeleteMisses, DeleteUnlocksRight
  <2>5. CASE AddDuplicate(t) \/ AddFindsRoom(t) \/ PublishNode(t) \/ FillNode(t)
    BY <2>5 DEF AddDuplicate, AddFindsRoom, PublishNode, FillNode, LeaveWith
  <2>6. CASE TreeEmpty(t) \/ FindFails(t) \/ LookupFinds(t) \/ PrintEnds(t)
    BY <2>6 DEF TreeEmpty, FindFails, LookupFinds, PrintEnds, LeaveWith
  <2>7. CASE DeleteFinds(t) \/ DeleteLocksLeft(t) \/ DeleteLocksRight(t) \/ DeleteUnlocksLeft(t)
    BY <2>7 DEF DeleteFinds, DeleteLocksLeft, DeleteLocksRight, DeleteUnlocksLeft, DeleteLocks
  <2>8. CASE LookupMisses(t) \/ DeleteFaults(t) \/ PrintVisits(t) \/ PrintReadsGarbage(t)
    BY <2>8 DEF LookupMisses, DeleteFaults, PrintVisits, PrintReadsGarbage, Crash
  <2> QED
    BY <1>2, <2>1, <2>2, <2>3, <2>4, <2>5, <2>6, <2>7, <2>8 DEF Step
<1> QED
  BY <1>1, <1>2 DEF Next, Done

-----------------------------------------------------------------------------
(* Every step of the tree is a step of the concurrent set, or none.        *)

Effects == {"lockLeft", "lockRight", "unlockLeft", "unlockRight", "notFound", "leave", "return"}

\* The phase of a call, by the program counter.
LEMMA PhaseIs ==
  ASSUME NEW t \in Threads
  PROVE  Phase(t) = IF pc[t] = "idle" THEN "idle" ELSE IF pc[t] \in Effects THEN "done" ELSE "called"
BY DEF Phase, Effects

\* A step of t moves t alone, in the implementation and in the set.
LEMMA PhaseMoves ==
  ASSUME TypeOK, NEW t \in Threads, NEW l \in PCs, pc' = [pc EXCEPT ![t] = l]
  PROVE  [u \in Threads |-> Phase(u)]' =
           [[u \in Threads |-> Phase(u)] EXCEPT ![t] =
              IF l = "idle" THEN "idle" ELSE IF l \in Effects THEN "done" ELSE "called"]
<1>1. /\ Phase(t)' = IF l = "idle" THEN "idle" ELSE IF l \in Effects THEN "done" ELSE "called"
      /\ \A u \in Threads \ {t} : Phase(u)' = Phase(u)
  BY DEF TypeOK, Phase, Effects
<1> QED
  BY <1>1

\* The set depends on the keys alone.
LEMMA SameKeySet == key' = key => KeySet' = KeySet
BY DEF KeySet, Filled

\* The set as it is seen through the tree.
SetStep == \E t \in Threads : \/ ConcurrentSet!Invoke(t) \/ ConcurrentSet!Effect(t)
                              \/ ConcurrentSet!Respond(t)
Quiet == UNCHANGED <<KeySet, [t \in Threads |-> Phase(t)], call, result>>

\* Such a step is not seen: the call has begun, or has taken effect, before and after it.
LEMMA UnseenSteps ==
  ASSUME TypeOK, NEW t \in Threads,
         \/ LockTree(t) \/ Descend(t) \/ LockChild(t) \/ UnlockParent(t) \/ AddFindsRoom(t)
         \/ PublishNode(t) \/ LookupMisses(t) \/ DeleteLocksLeft(t) \/ DeleteLocksRight(t)
         \/ DeleteFaults(t) \/ DeleteUnlocksLeft(t) \/ PrintVisits(t) \/ PrintReadsGarbage(t)
  PROVE  Quiet
<1>1. key' = key /\ call' = call /\ result' = result
  BY DEF LockTree, Descend, LockChild, UnlockParent, AddFindsRoom, PublishNode, LookupMisses,
    DeleteLocksLeft, DeleteLocksRight, DeleteLocks, DeleteFaults, DeleteUnlocksLeft, PrintVisits,
    PrintReadsGarbage, Crash
<1>2. \A u \in Threads : /\ u # t => pc'[u] = pc[u]
                         /\ pc[t] # "idle" /\ pc'[t] # "idle"
                         /\ (pc'[t] \in Effects <=> pc[t] \in Effects)
  <2>1. pc \in [Threads -> PCs]
    BY DEF TypeOK
  <2>2. CASE LockTree(t) \/ Descend(t) \/ LockChild(t) \/ UnlockParent(t) \/ AddFindsRoom(t)
    BY <2>1, <2>2 DEF LockTree, Descend, LockChild, UnlockParent, AddFindsRoom, At, GoTo,
      Effects
  <2>3. CASE PublishNode(t)
    BY <2>1, <2>3 DEF PublishNode, At, GoTo, Effects
  <2>6. CASE LookupMisses(t)
    BY <2>1, <2>6 DEF LookupMisses, Crash, At, GoTo, Effects
  <2>5. CASE DeleteLocksLeft(t) \/ DeleteLocksRight(t)
    BY <2>1, <2>5 DEF DeleteLocksLeft, DeleteLocksRight, DeleteLocks, At, GoTo, Effects
  <2>4. CASE DeleteFaults(t) \/ DeleteUnlocksLeft(t) \/ PrintVisits(t) \/ PrintReadsGarbage(t)
    BY <2>1, <2>4 DEF DeleteFaults, DeleteUnlocksLeft, PrintVisits, PrintReadsGarbage, Crash,
      At, GoTo, Effects
  <2> QED BY <2>2, <2>3, <2>4, <2>5, <2>6
<1>3. \A u \in Threads : Phase(u)' = Phase(u)
  BY <1>2 DEF Phase, Effects
<1> QED
  BY <1>1, <1>3, SameKeySet DEF Quiet

\* A call begins.
LEMMA BeginInvokes ==
  ASSUME TypeOK, NEW t \in Threads, Begin(t)
  PROVE  ConcurrentSet!Invoke(t)
<1>1. PICK c \in todo[t] : call' = [call EXCEPT ![t] = c]
  BY DEF Begin
<1>2. c \in Call /\ pc[t] = "idle" /\ pc' = [pc EXCEPT ![t] = "lockTree"] /\ "lockTree" \in PCs
      /\ key' = key /\ result' = result
  BY DEF Begin, At, GoTo, TypeOK, PCs
<1>3. [u \in Threads |-> Phase(u)]' = [[u \in Threads |-> Phase(u)] EXCEPT ![t] = "called"]
  BY <1>2, PhaseMoves DEF Effects
<1>4. Phase(t) = "idle"
  BY <1>2, PhaseIs
<1> QED
  BY <1>1, <1>2, <1>3, <1>4, SameKeySet DEF ConcurrentSet!Invoke

\* A call returns.
LEMMA ReturnResponds ==
  ASSUME TypeOK, NEW t \in Threads,
         Leave(t) \/ ReturnLocked(t) \/ DeleteMisses(t) \/ DeleteUnlocksRight(t)
  PROVE  ConcurrentSet!Respond(t)
<1>1. /\ pc[t] \in Effects /\ pc[t] # "idle" /\ pc' = [pc EXCEPT ![t] = "idle"] /\ "idle" \in PCs
      /\ key' = key /\ result' = result /\ call' = call
  BY DEF Leave, ReturnLocked, DeleteMisses, DeleteUnlocksRight, At, GoTo, TypeOK, PCs, Effects
<1>2. [u \in Threads |-> Phase(u)]' = [[u \in Threads |-> Phase(u)] EXCEPT ![t] = "idle"]
  BY <1>1, PhaseMoves DEF Effects
<1>3. Phase(t) = "done"
  BY <1>1, PhaseIs
<1> QED
  BY <1>1, <1>2, <1>3, SameKeySet DEF ConcurrentSet!Respond

\* A call takes effect.
LEMMA TakesEffect ==
  ASSUME TypeOK, NEW t \in Threads, NEW l \in Effects, NEW r,
         pc[t] \notin Effects \cup {"idle"}, pc' = [pc EXCEPT ![t] = l],
         result' = [result EXCEPT ![t] = r], call' = call,
         r = IF ConcurrentSet!Succeeds(call[t]) THEN 0 ELSE -1,
         KeySet' = IF Op(t) = "add" THEN KeySet \cup {Key(t)} ELSE KeySet,
         Op(t) # "delete"
  PROVE  ConcurrentSet!Effect(t)
<1>1. l \in PCs /\ l # "idle"
  BY DEF Effects, PCs
<1>2. [u \in Threads |-> Phase(u)]' = [[u \in Threads |-> Phase(u)] EXCEPT ![t] = "done"]
  BY <1>1, PhaseMoves
<1>3. Phase(t) = "called"
  BY PhaseIs
<1>4. KeySet' = CASE call[t].op = "add"    -> KeySet \cup {call[t].key}
                  [] call[t].op = "delete" -> KeySet \ {call[t].key}
                  [] OTHER -> KeySet
  BY DEF Op, Key
<1> QED
  BY <1>2, <1>3, <1>4 DEF ConcurrentSet!Effect

\* A key a thread stands at is in the set; where a search ends, it is not.
LEMMA KeyHereIsIn ==
  ASSUME TypeOK, NEW t \in Threads, KeyHere(t)
  PROVE  Key(t) \in KeySet
<1>1. Key(t) \in Keys /\ cur[t] \in Nodes /\ key[cur[t]] = Key(t)
  BY DEF TypeOK, Call, Key, KeyHere, Owners
<1> QED
  BY <1>1, NullAssumption DEF KeySet, Filled

\* A key whose slot is open is not in the set.
LEMMA OpenSlotLacksKey ==
  ASSUME IndInv, NEW t \in Threads, pc[t] \in Searching, ~KeyHere(t),
         child[Slot(t)] = Null \/ ~Filled(child[Slot(t)])
  PROVE  Key(t) \notin KeySet
<1>1. ThreadInv(t) /\ TypeOK /\ cur[t] \in Owners
  BY DEF IndInv, TypeOK
<1>2. Slot(t) \in Slots /\ Slot(t)[1] = cur[t]
  BY <1>1, SlotType DEF Slot
<1>3. Key(t) \in SlotRange(Slot(t))
  BY <1>1, KeyInSlotRange
<1>4. OpenSlot(Slot(t))
  BY <1>1, <1>2 DEF OpenSlot, ThreadInv
<1> QED
  BY <1>2, <1>3, <1>4 DEF IndInv, ShareInv, KeySet

\* Each of the steps at which a call takes effect.
LEMMA EffectSteps ==
  ASSUME IndInv, NEW t \in Threads, OpInv(t),
         \/ AddDuplicate(t) \/ TreeEmpty(t) \/ FindFails(t) \/ LookupFinds(t) \/ PrintEnds(t)
  PROVE  ConcurrentSet!Effect(t)
<1>1. /\ TypeOK /\ key' = key /\ call' = call /\ KeySet' = KeySet
      /\ call[t] \in Call
  BY SameKeySet DEF IndInv, TypeOK, AddDuplicate, TreeEmpty, FindFails, LookupFinds, PrintEnds
<1>2. CASE AddDuplicate(t)
  <2>1. /\ pc[t] = "at" /\ pc' = [pc EXCEPT ![t] = "return"] /\ result' = [result EXCEPT ![t] = -1]
        /\ Op(t) = "add" /\ Key(t) \in KeySet
    BY <1>1, <1>2, KeyHereIsIn DEF AddDuplicate, At, GoTo
  <2>2. ~ ConcurrentSet!Succeeds(call[t]) /\ KeySet = KeySet \cup {Key(t)}
    BY <2>1 DEF ConcurrentSet!Succeeds, Op, Key
  <2> QED
    BY <1>1, <2>1, <2>2, TakesEffect DEF Effects
<1>3. CASE TreeEmpty(t) \/ FindFails(t)
  <2>1. \E l \in {"leave", "notFound"} :
          pc[t] = "at" /\ pc' = [pc EXCEPT ![t] = l] /\ result' = [result EXCEPT ![t] = -1]
    BY <1>3 DEF TreeEmpty, FindFails, At, GoTo, LeaveWith
  <2>2. Op(t) = "lookup" /\ ~KeyHere(t) /\ child[Slot(t)] = Null
    BY <1>3 DEF TreeEmpty, FindFails, OpInv, At, KeyHere
  <2>3. Key(t) \notin KeySet
    BY <2>1, <2>2, OpenSlotLacksKey DEF Searching
  <2>4. ~ ConcurrentSet!Succeeds(call[t])
    BY <2>2, <2>3 DEF ConcurrentSet!Succeeds, Op, Key
  <2> QED
    BY <1>1, <2>1, <2>2, <2>4, TakesEffect DEF Effects
<1>4. CASE LookupFinds(t)
  <2>1. /\ pc[t] = "at" /\ pc' = [pc EXCEPT ![t] = "leave"] /\ result' = [result EXCEPT ![t] = 0]
        /\ Op(t) = "lookup" /\ Key(t) \in KeySet
    BY <1>1, <1>4, KeyHereIsIn DEF LookupFinds, At, GoTo, LeaveWith
  <2>2. ConcurrentSet!Succeeds(call[t])
    BY <2>1 DEF ConcurrentSet!Succeeds, Op, Key
  <2> QED
    BY <1>1, <2>1, <2>2, TakesEffect DEF Effects
<1>5. CASE PrintEnds(t)
  <2>1. /\ pc[t] = "print" /\ pc' = [pc EXCEPT ![t] = "leave"] /\ result' = [result EXCEPT ![t] = 0]
        /\ Op(t) = "print"
    BY <1>5 DEF PrintEnds, At, GoTo, LeaveWith, OpInv
  <2>2. ConcurrentSet!Succeeds(call[t])
    BY <2>1 DEF ConcurrentSet!Succeeds, Op
  <2> QED
    BY <1>1, <2>1, <2>2, TakesEffect DEF Effects
<1> QED
  BY <1>2, <1>3, <1>4, <1>5

\* An add takes effect when the node it has linked in gets its key.
LEMMA FillTakesEffect ==
  ASSUME IndInv, NEW t \in Threads, OpInv(t), FillNode(t)
  PROVE  ConcurrentSet!Effect(t)
<1> DEFINE n == nxt[t]
<1>1. /\ pc[t] = "fill" /\ pc' = [pc EXCEPT ![t] = "leave"] /\ result' = [result EXCEPT ![t] = 0]
      /\ key' = [key EXCEPT ![n] = Key(t)] /\ call' = call /\ call[t] \in Call
  BY DEF FillNode, At, GoTo, LeaveWith, IndInv, TypeOK
<1>2. n \in Nodes /\ ~Filled(n) /\ ~KeyHere(t) /\ n = child[Slot(t)] /\ Op(t) = "add"
  BY <1>1 DEF IndInv, TypeOK, ThreadInv, OpInv
<1>3. Key(t) \notin KeySet
  BY <1>1, <1>2, OpenSlotLacksKey DEF Searching
<1>4. ConcurrentSet!Succeeds(call[t])
  BY <1>2, <1>3 DEF ConcurrentSet!Succeeds, Op, Key
<1>5. KeySet' = KeySet \cup {Key(t)}
  <2>1. Key(t) # Null /\ key \in [Nodes -> Keys \cup {Null}]
    BY <1>1, NullAssumption DEF Key, Call, IndInv, TypeOK
  <2>2. n' = n
    BY DEF FillNode
  <2>3. key'[n] = Key(t) /\ \A m \in Nodes \ {n} : key'[m] = key[m]
    BY <1>1, <1>2, <2>1
  <2>4. KeySet' = {key'[m] : m \in {m \in Nodes : key'[m] # Null}}
    BY DEF KeySet, Filled
  <2>5. \A x : x \in KeySet' <=> \E m \in Nodes : key'[m] # Null /\ x = key'[m]
    BY <2>4
  <2>6. \A x : x \in KeySet <=> \E m \in Nodes : key[m] # Null /\ x = key[m]
    BY DEF KeySet, Filled
  <2>7. key[n] = Null
    BY <1>2 DEF Filled
  <2> QED
    BY <1>2, <2>1, <2>3, <2>5, <2>6, <2>7
<1> QED
  BY <1>1, <1>2, <1>4, <1>5, TakesEffect DEF Effects, IndInv

\* Every step is a step of the set, or none.
LEMMA SetSimulation ==
  ASSUME IndInv, \A t \in Threads : OpInv(t), [Next]_vars
  PROVE  SetStep \/ Quiet
<1> USE DEF IndInv
<1>1. CASE UNCHANGED vars
  BY <1>1 DEF vars, Quiet, KeySet, Filled, Phase
<1>2. ASSUME NEW t \in Threads, Step(t)
      PROVE  SetStep \/ Quiet
  <2>1. ~ DeleteFinds(t)
    BY DEF DeleteFinds, OpInv, At
  <2> QED
    BY <1>2, <2>1, UnseenSteps, BeginInvokes, ReturnResponds, EffectSteps, FillTakesEffect
    DEF Step, SetStep
<1> QED
  BY <1>1, <1>2 DEF Next, Done

\* Every call that adds, looks up or prints takes effect at one instant between its
\* invocation and its return, whatever the threads and the shape of the tree: the
\* hand-over-hand locking of ts_btree.h makes a set of it.  (bt_delete_ts reports success
\* for a key it leaves in the tree, so no work may delete.)
THEOREM TreeIsASet == NoDeletes => (Spec => IsConcurrentSet)
<1> SUFFICES ASSUME NoDeletes
             PROVE  Spec => IsConcurrentSet
  OBVIOUS
<1>1. Init => \A t \in Threads : OpInv(t)
  BY OpInit
<1>2. Init => ConcurrentSet!SInit
  <2> SUFFICES ASSUME Init
               PROVE  ConcurrentSet!SInit
    OBVIOUS
  <2>1. TypeOK /\ KeySet = {} /\ \A t \in Threads : Phase(t) = "idle"
    BY InitInv, PhaseIs DEF IndInv, Init, KeySet, Filled
  <2> QED
    BY <2>1 DEF ConcurrentSet!SInit, Init, TypeOK
<1>3. IndInv /\ (\A t \in Threads : OpInv(t)) /\ [Next]_vars => (\A t \in Threads : OpInv(t))'
  BY OpStep DEF IndInv
<1>4. IndInv /\ (\A t \in Threads : OpInv(t)) /\ [Next]_vars =>
        [\E t \in Threads : ConcurrentSet!Invoke(t) \/ ConcurrentSet!Effect(t)
                              \/ ConcurrentSet!Respond(t)]_ConcurrentSet!svars
  BY SetSimulation DEF SetStep, Quiet, ConcurrentSet!svars
<1> QED
  BY <1>1, <1>2, <1>3, <1>4, Invariance, PTL
  DEF Spec, IsConcurrentSet, ConcurrentSet!SSpec

=============================================================================
