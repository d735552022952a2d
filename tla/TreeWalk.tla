------------------------------ MODULE TreeWalk -------------------------------
(***************************************************************************)
(* 18_Directories_And_Links: programs that read directories while files in *)
(* them may be removed.  imp_nftw.c calls a function for every file of a   *)
(* tree, list_files.c and ls_readdir_r.c list a directory, nftw_dir_tree.c *)
(* and tree_info.c hand a function to nftw of the C library (external).    *)
(*                                                                         *)
(* Left out: paths of more than PATH_MAX bytes; what is printed of a file; *)
(* the function given to imp_nftw asking it to stop, which testFunc never  *)
(* does.                                                                   *)
(***************************************************************************)
EXTENDS Integers, Sequences, FiniteSets, SequencesExt

CONSTANTS
  Nodes,      \* the files of the tree; the directory walked is 1
  Dirs,
  Parent,
  Unreadable, \* directories opendir fails on
  MaxGone     \* bounds the files removed

VARIABLES
  tool,
  exist,
  stack,      \* a frame for every directory open: which, and what is left of it
  seen,       \* the files the function was called for, in order
  errno,      \* set by a failed call and not cleared since
  cut,        \* directories whose loop has ended at a file that had gone
  pc

vars == <<tool, exist, stack, seen, errno, cut, pc>>

Recursive == {"imp_nftw", "tree_info", "nftw_dir_tree"}

Children(d) == {n \in exist : n # 1 /\ Parent[n] = d}

Init ==
  /\ tool \in Recursive \cup {"list_files", "ls_readdir_r"}
  /\ exist = Nodes
  /\ stack = <<[dir |-> 1, left |-> Children(1)]>>
  /\ seen = IF tool \in {"tree_info", "nftw_dir_tree"} THEN <<1>> ELSE <<>>
  /\ errno = FALSE /\ cut = {} /\ pc = "walk"

\* unlink or rmdir by another process.
Unlink(n) ==
  /\ pc = "walk" /\ n \in exist \ {1} /\ Cardinality(Nodes \ exist) < MaxGone
  /\ Children(n) = {}
  /\ exist' = exist \ {n}
  /\ UNCHANGED <<tool, stack, seen, errno, cut, pc>>

Frame == Last(stack)
Taken(n) == [stack EXCEPT ![Len(stack)].left = @ \ {n}]
Pushed(n) == Append(Taken(n), [dir |-> n, left |-> Children(n)])

\* listFiles prints the name, there or not.
ListName ==
  /\ tool = "list_files" /\ pc = "walk"
  /\ \E n \in Frame.left : stack' = Taken(n) /\ seen' = Append(seen, n)
  /\ UNCHANGED <<tool, exist, errno, cut, pc>>

\* The same with readdir_r.
ListNameR ==
  /\ tool = "ls_readdir_r" /\ pc = "walk"
  /\ \E n \in Frame.left : stack' = Taken(n) /\ seen' = Append(seen, n)
  /\ UNCHANGED <<tool, exist, errno, cut, pc>>

\* imp_nftw: lstat fails, and the rest of this directory is not looked at.
LstatFails ==
  /\ tool = "imp_nftw" /\ pc = "walk"
  /\ \E n \in Frame.left \ exist :
       stack' = [stack EXCEPT ![Len(stack)].left = {}]
  /\ errno' = TRUE /\ cut' = cut \cup {Frame.dir}
  /\ UNCHANGED <<tool, exist, seen, pc>>

\* lstat succeeds: the function is called for a file; imp_nftw calls itself for a
\* directory, which returns at once if opendir fails.
CallFn ==
  /\ tool = "imp_nftw" /\ pc = "walk"
  /\ \E n \in Frame.left \cap exist :
       /\ IF n \in Dirs \ Unreadable THEN stack' = Pushed(n) /\ UNCHANGED seen
          ELSE stack' = Taken(n) /\ seen' = Append(seen, n)
  /\ errno' = FALSE
  /\ UNCHANGED <<tool, exist, cut, pc>>

\* nftw calls the function for a directory before what is in it, and for a file it
\* cannot stat as well.
NftwStep ==
  /\ pc = "walk"
  /\ \E n \in Frame.left :
       /\ stack' = IF n \in (Dirs \cap exist) \ Unreadable THEN Pushed(n) ELSE Taken(n)
       /\ seen' = Append(seen, n)
  /\ UNCHANGED <<tool, exist, errno, cut, pc>>

\* dirTree prints a line; processFunc counts.
DirTree == tool = "nftw_dir_tree" /\ NftwStep
ProcessFunc == tool = "tree_info" /\ NftwStep

\* readdir returns NULL, or the loop was left: closedir.  imp_nftw's caller does
\* not look at what it returns, and calls the function for the directory.
Closedir ==
  /\ pc = "walk" /\ Frame.left = {}
  /\ IF Len(stack) = 1
     THEN pc' = (IF errno THEN "failed" ELSE "done") /\ UNCHANGED <<stack, seen>>
     ELSE /\ stack' = Front(stack) /\ UNCHANGED pc
          /\ seen' = IF tool = "imp_nftw" THEN Append(seen, Frame.dir) ELSE seen
  /\ errno' = (errno /\ Len(stack) = 1)
  /\ UNCHANGED <<tool, exist, cut>>

Next == ListName \/ ListNameR \/ LstatFails \/ CallFn \/ DirTree \/ ProcessFunc
        \/ Closedir
        \/ \E n \in Nodes : Unlink(n)

-----------------------------------------------------------------------------
Ancestors[n \in Nodes] == IF n = 1 THEN {} ELSE {Parent[n]} \cup Ancestors[Parent[n]]

At(n) == CHOOSE i \in DOMAIN seen : seen[i] = n
Readable(n) == Ancestors[n] \cap Unreadable = {}

(***************************************************************************)
(* Each file is reported at most once, a directory after what is in it by  *)
(* imp_nftw and before it by nftw.  The walk reports every file that is    *)
(* there to its end and that it can reach, removals or not.  imp_nftw.c    *)
(* makes one error: a file that goes ends the loop over its directory, and *)
(* the rest of that directory is lost, which is reported as a failure if   *)
(* it was the first directory and passed over otherwise.                   *)
(***************************************************************************)
WalkIsComplete ==
  /\ IsInjective(seen)
  /\ \A n \in ToSet(seen) : \A a \in Ancestors[n] \cap ToSet(seen) :
       IF tool = "imp_nftw" THEN At(n) < At(a) ELSE At(a) < At(n)
  /\ pc \in {"done", "failed"} =>
       /\ \A n \in exist \ {1} :
            /\ tool \in Recursive \/ Parent[n] = 1
            /\ Readable(n) /\ Ancestors[n] \cap cut = {}
            => n \in ToSet(seen)
       /\ cut # {} => exist # Nodes
       /\ pc = "failed" <=> 1 \in cut
=============================================================================
