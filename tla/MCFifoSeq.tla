------------------------------ MODULE MCFifoSeq ------------------------------
(* Small instances of FifoSeq. *)
EXTENDS FifoSeq, TLC

CONSTANTS a, b, m

\* After the sequence of m there is room for one of the others, not for both.
Lengths == [c \in Clients |-> CASE c = a -> 3 [] c = b -> 4 [] c = m -> 95]
=============================================================================
