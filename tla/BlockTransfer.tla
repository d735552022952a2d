---------------------------- MODULE BlockTransfer ----------------------------
(***************************************************************************)
(* What a transfer of N blocks through one shared buffer promises: the     *)
(* blocks come out in the order they went in, each once, none before the   *)
(* one before it is out; the end is seen after the last block.             *)
(***************************************************************************)
EXTENDS Integers, Sequences

CONSTANT N

VARIABLES
  in,      \* how many blocks have been put in the buffer
  out,     \* the blocks that have come out, in order
  ended    \* the receiver has seen the end

BInit == in = 0 /\ out = <<>> /\ ended = FALSE

BPut == /\ in < N /\ Len(out) = in
        /\ in' = in + 1
        /\ UNCHANGED <<out, ended>>

BGet == /\ Len(out) < in
        /\ out' = Append(out, in)
        /\ UNCHANGED <<in, ended>>

BEnd == /\ Len(out) = N /\ ~ended
        /\ ended' = TRUE
        /\ UNCHANGED <<in, out>>

BSpec == BInit /\ [][BPut \/ BGet \/ BEnd]_<<in, out, ended>>
=============================================================================
