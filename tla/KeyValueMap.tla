---------------------------- MODULE KeyValueMap ------------------------------
(***************************************************************************)
(* What lib/binary_tree.h promises: a map from keys to values, with        *)
(* bt_add, bt_lookup, bt_delete and bt_free.  A lookup of a key that is    *)
(* not there may end the program: lib/binary_tree.c:167 dereferences the   *)
(* NULL that a failing search returns, unless the tree is empty.           *)
(***************************************************************************)
EXTENDS Integers

CONSTANTS Keys, Values

VARIABLES map, last

MInit == map = <<>> /\ last = [op |-> "initialize"]

Has(k) == k \in DOMAIN map

MAdd(k, v) ==
  \/ /\ Has(k)
     /\ last' = [op |-> "add", key |-> k, value |-> v, result |-> -1]
     /\ UNCHANGED map
  \/ /\ ~Has(k)
     /\ last' = [op |-> "add", key |-> k, value |-> v, result |-> 0]
     /\ map' = [j \in DOMAIN map \cup {k} |-> IF j = k THEN v ELSE map[j]]

MLookup(k) ==
  /\ UNCHANGED map
  /\ \/ /\ Has(k)
        /\ last' = [op |-> "lookup", key |-> k, result |-> 0, value |-> map[k]]
     \/ ~Has(k) /\ last' = [op |-> "lookup", key |-> k, result |-> -1]
     \/ ~Has(k) /\ DOMAIN map # {} /\ last' = [op |-> "crash"]

MDelete(k) ==
  \/ /\ ~Has(k)
     /\ last' = [op |-> "delete", key |-> k, result |-> -1]
     /\ UNCHANGED map
  \/ /\ Has(k)
     /\ last' = [op |-> "delete", key |-> k, result |-> 0]
     /\ map' = [j \in DOMAIN map \ {k} |-> map[j]]

MFree == map' = <<>> /\ last' = [op |-> "free"]

MNext == \/ \E k \in Keys : \/ MLookup(k) \/ MDelete(k)
                            \/ \E v \in Values : MAdd(k, v)
         \/ MFree

MSpec == MInit /\ [][MNext]_<<map, last>>
=============================================================================
