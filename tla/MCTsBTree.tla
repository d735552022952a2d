------------------------------ MODULE MCTsBTree ------------------------------
(***************************************************************************)
(* Small instances of TsBTree for TLC.  Keys are positive integers, so 0   *)
(* serves as Null and even a comparison with an unwritten key has a value. *)
(***************************************************************************)
EXTENDS TsBTree, TLC

CONSTANTS t1, t2, t3

Adds(S) == {[op |-> "add", key |-> k] : k \in S}
Lookups(S) == {[op |-> "lookup", key |-> k] : k \in S}
Deletes(S) == {[op |-> "delete", key |-> k] : k \in S}
\* Nothing tells one address malloc returns from another.
NodeSymmetry == Permutations(Nodes)

Prints == {[op |-> "print", key |-> CHOOSE k \in Keys : TRUE]}

\* test_ts_tree.c, when no two random keys collide.
WorkDistinct == (t1 :> Adds({2}) @@ t2 :> Adds({1}) @@ t3 :> Adds({3}))

\* Lookups of keys others add, duplicates, and no delete.
WorkNoDelete == (t1 :> Adds({1, 2}) @@ t2 :> Lookups({1, 2}) \cup Adds({3})
                 @@ t3 :> Adds({2}) \cup Lookups({3}))

\* Every operation on a tree with a full node: threads that find, miss, fault.
WorkMixed == (t1 :> Adds({1, 2, 3}) @@ t2 :> Deletes({2}) \cup Prints
              @@ t3 :> Lookups({1}) \cup Deletes({4}) \cup Adds({2}))

\* Two threads draw the same random key.
WorkCollide == (t1 :> Adds({1}) @@ t2 :> Adds({1}) @@ t3 :> {})

WorksNoDelete == {WorkDistinct, WorkNoDelete}
WorksMixed == {WorkMixed}
WorksCollide == {WorkCollide}
=============================================================================
