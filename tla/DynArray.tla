------------------------------ MODULE DynArray -------------------------------
(***************************************************************************)
(* lib/dynamic_array.c, called in any order: a block of the heap, how many *)
(* elements fit in it (capacity) and how many are in use (size).  seq is   *)
(* what the callers have put in, as a sequence.                            *)
(*                                                                         *)
(* After da_detach nothing but da_init may be called: dataSize is 0 then,  *)
(* and a later da_push would return the address of a block of no bytes.    *)
(* da_sort is left out: int_asc subtracts the addresses of two elements,   *)
(* so what order they end up in is the C library's affair.                 *)
(***************************************************************************)
EXTENDS Integers, Sequences, SequencesExt

CONSTANTS Values, MaxSize, Junk

VARIABLES block, capacity, size, live, seq

vars == <<block, capacity, size, live, seq>>

Block(n) == [i \in 0..n - 1 |-> Junk]

\* realloc: the old contents, as far as they fit.
Realloc(n) == [i \in 0..n - 1 |-> IF i \in DOMAIN block THEN block[i] ELSE Junk]

Init == block = Block(0) /\ capacity = 0 /\ size = 0 /\ live = FALSE /\ seq = <<>>

\* da_init with n elements, which the caller fills with v.
DaInit(n, v) ==
  /\ ~live /\ live' = TRUE
  /\ block' = [i \in 0..n - 1 |-> v] /\ capacity' = n /\ size' = n
  /\ seq' = [i \in 1..n |-> v]

DaReserve(n) ==
  /\ live /\ n > capacity
  /\ block' = Realloc(n) /\ capacity' = n
  /\ UNCHANGED <<size, live, seq>>

\* Mutant: the block is enlarged when it is overfull, not when it is full.
PushLate(v) ==
  /\ live /\ size < MaxSize
  /\ IF size > capacity
     THEN /\ capacity' = IF capacity = 0 THEN 1 ELSE 2 * capacity
          /\ block' = [Realloc(capacity') EXCEPT ![size] = v]
     ELSE UNCHANGED capacity /\ block' = [block EXCEPT ![size] = v]
  /\ size' = size + 1 /\ seq' = Append(seq, v)
  /\ UNCHANGED live

\* da_push, and the caller stores v at the address it returns.
DaPush(v) ==
  /\ live /\ size < MaxSize
  /\ IF size >= capacity
     THEN /\ capacity' = IF capacity = 0 THEN 1 ELSE 2 * capacity
          /\ block' = [Realloc(capacity') EXCEPT ![size] = v]
     ELSE UNCHANGED capacity /\ block' = [block EXCEPT ![size] = v]
  /\ size' = size + 1 /\ seq' = Append(seq, v)
  /\ UNCHANGED live

DaPop ==
  /\ live /\ size >= 1
  /\ size' = size - 1 /\ seq' = Front(seq)
  /\ UNCHANGED <<block, capacity, live>>

DaClear ==
  /\ live /\ block' = Block(0) /\ capacity' = 0 /\ size' = 0 /\ seq' = <<>>
  /\ UNCHANGED live

\* A block of capacity elements, the first size of them from back to front.
DaReverse ==
  /\ live /\ size > 0
  /\ block' = [i \in DOMAIN block |-> IF i < size THEN block[size - 1 - i] ELSE Junk]
  /\ seq' = Reverse(seq)
  /\ UNCHANGED <<capacity, size, live>>

DaDetach ==
  /\ live /\ live' = FALSE
  /\ block' = Block(0) /\ capacity' = 0 /\ size' = 0 /\ seq' = <<>>

Next == \/ \E n \in 0..2, v \in Values : DaInit(n, v)
        \/ \E n \in 0..MaxSize : DaReserve(n)
        \/ \E v \in Values : DaPush(v)
        \/ DaPop \/ DaClear \/ DaReverse \/ DaDetach

(***************************************************************************)
(* The array holds what was put in, in order, and capacity is the size of  *)
(* the block: whatever was reserved, pushed, popped, reversed or cleared   *)
(* before, no element is lost and none lies behind the block.              *)
(***************************************************************************)
ArrayIsSequence ==
  /\ size <= capacity /\ DOMAIN block = 0..capacity - 1
  /\ seq = [i \in 1..size |-> block[i - 1]]

-----------------------------------------------------------------------------
\* What is in the block, and in seq.
Elements == Values \cup {Junk}

\* The invariant (proved in MCLibrary): ArrayIsSequence, for blocks and sequences of elements.
ArrayInv ==
  /\ size \in Nat /\ capacity \in Nat /\ size <= capacity
  /\ block \in [0..capacity - 1 -> Elements]
  /\ seq \in Seq(Elements) /\ Len(seq) = size
  /\ \A i \in 1..size : seq[i] = block[i - 1]
=============================================================================
