----------------------------- MODULE BinaryTree -------------------------------
(***************************************************************************)
(* lib/binary_tree.c, the binary search tree of one thread, under any      *)
(* sequence of calls.  Each call runs to its end: it is one action.        *)
(*                                                                         *)
(* A BTNode ** is a SLOT: the address of the root pointer, or of the left  *)
(* or right pointer of a node.  An address that has been freed and is      *)
(* still read would show as a node without a key; its pointers are Null.   *)
(*                                                                         *)
(* Not modelled: a failing malloc, keys longer than BT_KEY_MAX.            *)
(***************************************************************************)
EXTENDS Integers, FiniteSets

CONSTANTS
  Keys,      \* integers, ordered as strcmp orders the keys
  Values,
  Nodes,     \* the addresses malloc may return for a node
  Null       \* NULL; no node, key or value

ASSUME TreeAssumption ==
  Keys \subseteq Int /\ IsFiniteSet(Nodes) /\ Null \notin Keys \cup Nodes

Root == <<Null, "root">>    \* the address of tree->root
Slots == {Root} \cup (Nodes \X {"left", "right"})

VARIABLES
  child,     \* child[s]: the pointer in slot s
  key,       \* key[n]: the key of node n, Null if n is not allocated
  value,
  last       \* auxiliary: the last call, with what it returned

vars == <<child, key, value, last>>

Init ==
  /\ child = [s \in Slots |-> Null]
  /\ key = [n \in Nodes |-> Null]
  /\ value = [n \in Nodes |-> Null]
  /\ last = [op |-> "initialize"]

Crashed == last.op = "crash"
Allocated == {n \in Nodes : key[n] # Null}

\* The slot that strcmp chooses below node n.
Toward(n, k) == <<n, IF k < key[n] THEN "left" ELSE "right">>

\* bt_add_rec and bt_find_node: the slot that holds the node with key k, or
\* the empty slot where it would be.
SlotFor(k) ==
  LET down[d \in 0..Cardinality(Nodes)] ==
        LET s == IF d = 0 THEN Root ELSE down[d - 1] IN
        IF child[s] = Null \/ key[child[s]] = k THEN s ELSE Toward(child[s], k)
  IN  down[Cardinality(Nodes)]

Found(k) == child[SlotFor(k)] # Null

-----------------------------------------------------------------------------
\* bt_add; -1 for a duplicate.
AddDuplicate(k, v) ==
  /\ ~Crashed /\ Found(k)
  /\ last' = [op |-> "add", key |-> k, value |-> v, result |-> -1]
  /\ UNCHANGED <<child, key, value>>

Add(k, v) ==
  /\ ~Crashed /\ ~Found(k)
  /\ \E n \in Nodes \ Allocated :
       /\ child' = [child EXCEPT ![SlotFor(k)] = n, ![<<n, "left">>] = Null,
                                 ![<<n, "right">>] = Null]
       /\ key' = [key EXCEPT ![n] = k]
       /\ value' = [value EXCEPT ![n] = v]
  /\ last' = [op |-> "add", key |-> k, value |-> v, result |-> 0]

\* A miss in a tree that is not empty is *bt_find_node(...) with NULL.
Lookup(k) ==
  /\ ~Crashed
  /\ last' =
       IF child[Root] = Null THEN [op |-> "lookup", key |-> k, result |-> -1]
       ELSE IF ~Found(k) THEN [op |-> "crash"]
       ELSE [op |-> "lookup", key |-> k, result |-> 0,
             value |-> value[child[SlotFor(k)]]]
  /\ UNCHANGED <<child, key, value>>

DeleteMisses(k) ==
  /\ ~Crashed /\ ~Found(k)
  /\ last' = [op |-> "delete", key |-> k, result |-> -1]
  /\ UNCHANGED <<child, key, value>>

\* bt_free_node
Free(n) == /\ key' = [key EXCEPT ![n] = Null]
           /\ value' = [value EXCEPT ![n] = Null]

\* Mutant: a node with a right child is just freed.
DeleteLeftOnly(k) ==
  LET s == SlotFor(k) n == child[s] IN
  /\ ~Crashed /\ Found(k)
  /\ child[<<n, "left">>] = Null \/ child[<<n, "right">>] = Null
  /\ child' = [child EXCEPT ![s] = child[<<n, "left">>], ![<<n, "left">>] = Null,
                            ![<<n, "right">>] = Null]
  /\ Free(n)
  /\ last' = [op |-> "delete", key |-> k, result |-> 0]

\* No child or one: it takes the place of the node.
DeleteLink(k) ==
  LET s == SlotFor(k)
      n == child[s]
      left == child[<<n, "left">>]
      right == child[<<n, "right">>]
  IN
  /\ ~Crashed /\ Found(k)
  /\ left = Null \/ right = Null
  /\ child' = [child EXCEPT ![s] = IF left # Null THEN left ELSE right,
                            ![<<n, "left">>] = Null, ![<<n, "right">>] = Null]
  /\ Free(n)
  /\ last' = [op |-> "delete", key |-> k, result |-> 0]

\* The leftmost slot of the right subtree of n.
Leftmost(n) ==
  LET down[d \in 0..Cardinality(Nodes)] ==
        IF d = 0 THEN <<n, "right">>
        ELSE LET s == down[d - 1]
                 left == <<child[s], "left">>
             IN  IF child[left] = Null THEN s ELSE left
  IN  down[Cardinality(Nodes)]

\* Mutant: the subtree of the node that is moved is forgotten.
DeleteMoveAlone(k) ==
  LET n == child[SlotFor(k)] IN
  /\ ~Crashed /\ Found(k)
  /\ child[<<n, "left">>] # Null /\ child[<<n, "right">>] # Null
  /\ LET from == Leftmost(n)
         m == child[from]
     IN  /\ child' = [child EXCEPT ![<<m, "right">>] = Null, ![from] = Null]
         /\ key' = [key EXCEPT ![n] = key[m], ![m] = Null]
         /\ value' = [value EXCEPT ![n] = value[m], ![m] = Null]
  /\ last' = [op |-> "delete", key |-> k, result |-> 0]

\* Two children: the next larger key moves into the node.
DeleteMove(k) ==
  LET n == child[SlotFor(k)] IN
  /\ ~Crashed /\ Found(k)
  /\ child[<<n, "left">>] # Null /\ child[<<n, "right">>] # Null
  /\ LET from == Leftmost(n)
         m == child[from]
     IN  /\ child' = [child EXCEPT ![<<m, "right">>] = Null,
                                 ![from] = child[<<m, "right">>]]
         /\ key' = [key EXCEPT ![n] = key[m], ![m] = Null]
         /\ value' = [value EXCEPT ![n] = value[m], ![m] = Null]
  /\ last' = [op |-> "delete", key |-> k, result |-> 0]

\* The nodes that bt_free_rec, or a print, reaches.
Below ==
  LET down[d \in 0..Cardinality(Nodes)] ==
        IF d = 0 THEN {child[Root]} \ {Null}
        ELSE LET above == down[d - 1] IN
             above \cup ({child[s] : s \in above \X {"left", "right"}} \ {Null})
  IN  down[Cardinality(Nodes)]

\* bt_free of a tree that is not empty.
FreeAll ==
  /\ ~Crashed
  /\ child' = [s \in Slots |-> Null]
  /\ key' = [n \in Nodes |-> IF n \in Below THEN Null ELSE key[n]]
  /\ value' = [n \in Nodes |-> IF n \in Below THEN Null ELSE value[n]]
  /\ last' = [op |-> "free"]

Next ==
  \/ \E k \in Keys : \/ Lookup(k) \/ DeleteMisses(k) \/ DeleteLink(k)
                     \/ DeleteMove(k)
                     \/ \E v \in Values : AddDuplicate(k, v) \/ Add(k, v)
  \/ FreeAll

Spec == Init /\ [][Next]_vars

-----------------------------------------------------------------------------
\* The tree is a map from keys to values; delete moves keys between nodes and
\* still takes out the one it was asked for, and only that.
MapOfTree == [k \in {key[n] : n \in Allocated} |->
                value[CHOOSE n \in Allocated : key[n] = k]]
Map == INSTANCE KeyValueMap WITH map <- MapOfTree
IsMap == Map!MSpec

(***************************************************************************)
(* Every node that is allocated is reached from the root by exactly one    *)
(* slot, none that is reached has been freed, and a search for its key     *)
(* finds it: nothing leaks, nothing dangles, and the order is kept.        *)
(***************************************************************************)
WellFormed ==
  /\ Below = Allocated
  /\ Cardinality({s \in {Root} \cup (Allocated \X {"left", "right"}) : child[s] # Null})
       = Cardinality(Allocated)
  /\ \A n \in Allocated : child[SlotFor(key[n])] = n

-----------------------------------------------------------------------------
\* The invariant (proved in MCLibrary) with pointers ch, keys ky, and T[s], the nodes
\* below slot s.
LeftOf(n) == <<n, "left">>
RightOf(n) == <<n, "right">>
Used(ky) == {n \in Nodes : ky[n] # Null}

Covers(ch, T) ==
  \A s \in Slots :
    T[s] = IF ch[s] = Null THEN {}
           ELSE {ch[s]} \cup T[LeftOf(ch[s])] \cup T[RightOf(ch[s])]

Ordered(ch, ky, T) ==
  \A s \in Slots : ch[s] # Null =>
    /\ \A m \in T[LeftOf(ch[s])] : ky[m] < ky[ch[s]]
    /\ \A m \in T[RightOf(ch[s])] : ky[ch[s]] < ky[m]

OneParent(ch) == \A s, t \in Slots : ch[s] = ch[t] /\ ch[s] # Null => s = t

IsTree(ch, ky, T) ==
  /\ ch \in [Slots -> Nodes \cup {Null}]
  /\ ky \in [Nodes -> Keys \cup {Null}]
  /\ \A n \in Nodes \ Used(ky) : ch[LeftOf(n)] = Null /\ ch[RightOf(n)] = Null
  /\ T \in [Slots -> SUBSET Used(ky)] /\ T[Root] = Used(ky)
  /\ Covers(ch, T) /\ Ordered(ch, ky, T) /\ OneParent(ch)

TreeInv ==
  /\ value \in [Nodes -> Values \cup {Null}]
  /\ \E T \in [Slots -> SUBSET Nodes] : IsTree(child, key, T)
=============================================================================
