---------------------------- MODULE SeqAllocator -----------------------------
(***************************************************************************)
(* What a sequence number server promises, whatever carries its messages:  *)
(* requests are granted one at a time, each is granted the numbers that    *)
(* follow the ones before it, and none is granted twice.                   *)
(***************************************************************************)
EXTENDS Integers

CONSTANTS
  Clients,
  SeqLen,    \* SeqLen[c]: how many numbers client c asks for
  NoNum      \* no answer

VARIABLES
  next,      \* the first number not yet assigned
  given      \* given[c]: the first number of the sequence client c was given

SInit == next = 0 /\ given = [c \in Clients |-> NoNum]

Grant(c) ==
  /\ given[c] = NoNum
  /\ given' = [given EXCEPT ![c] = next]
  /\ next' = next + SeqLen[c]

\* The client is gone: its numbers are used up all the same.
Waste(c) == next' = next + SeqLen[c] /\ UNCHANGED given

SNext == \E c \in Clients : Grant(c) \/ Waste(c)

SSpec == SInit /\ [][SNext]_<<next, given>>
=============================================================================
