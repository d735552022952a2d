------------------------------ MODULE TreeWatch ------------------------------
(***************************************************************************)
(* 19_Monitoring_File_Events: demo_inotify.c displays the events of the    *)
(* directories it is given; tree_watch.c watches a whole tree, and starts  *)
(* anew with nftw whenever a directory is created in it.  Meanwhile other  *)
(* processes make, remove and move in directories.                         *)
(*                                                                         *)
(* Left out: events about files, which are displayed and change nothing;   *)
(* renames within the tree, which an inode's watch survives; directories   *)
(* moved out of it, which keep theirs; directories that may not be read.   *)
(***************************************************************************)
EXTENDS Integers, Sequences, FiniteSets, SequencesExt

CONSTANTS
  Dirs,       \* the root is 1
  Parent,     \* Parent[d]: where d would be
  MaxQueue,   \* events the kernel keeps
  MaxChanges  \* bounds what the other processes do

VARIABLES
  tool,
  exist,      \* the directories that are there
  watches,    \* those inotifyFd has a watch for
  queue,      \* its events
  strangers,  \* directories no event tells of: moved in, or made while the queue
              \* was full, and not come across by nftw yet
  buf,        \* events read and not handled
  todo,       \* nftw: directories it has found
  pc,
  log, shown  \* the events put into queue and those displayed, since the start

vars == <<tool, exist, watches, queue, strangers, buf, todo, pc, log, shown>>
world == <<exist, strangers, log>>

Init ==
  /\ tool \in {"demo_inotify", "tree_watch"}
  /\ exist \in {D \in SUBSET Dirs : 1 \in D /\ \A d \in D : d # 1 => Parent[d] \in D}
  /\ watches = {} /\ queue = <<>> /\ strangers = {}
  /\ buf = <<>> /\ todo = <<1>> /\ pc = "walk" /\ log = <<>> /\ shown = <<>>

\* Events of the watch on dir, if there is one; those the queue has no room for are
\* dropped (IN_Q_OVERFLOW, which tree_watch.c takes for an event like others).
Watched(dir) == dir \in watches
Full == Len(queue) >= MaxQueue
Notify(dir, es) ==
  LET n == IF Len(es) <= MaxQueue - Len(queue) THEN Len(es) ELSE MaxQueue - Len(queue)
      kept == IF Watched(dir) THEN SubSeq(es, 1, n) ELSE <<>>
  IN queue' = queue \o kept /\ log' = log \o kept

Changes == Len(log) + Cardinality(strangers)

Mkdir(d) ==
  /\ d \notin exist /\ Parent[d] \in exist /\ Changes < MaxChanges
  /\ exist' = exist \cup {d}
  /\ strangers' = IF Watched(Parent[d]) /\ Full THEN strangers \cup {d} ELSE strangers
  /\ Notify(Parent[d], <<<<"IN_CREATE", d>>>>)
  /\ UNCHANGED <<tool, watches, buf, todo, pc, shown>>

\* A directory removed takes its own watch with it.
Rmdir(d) ==
  /\ d \in exist \ {1} /\ Changes < MaxChanges
  /\ \A c \in exist \ {1} : Parent[c] # d
  /\ exist' = exist \ {d} /\ strangers' = strangers \ {d}
  /\ Notify(Parent[d], (IF d \in watches THEN <<<<"IN_DELETE_SELF", d>>>> ELSE <<>>)
                       \o <<<<"IN_DELETE", d>>>>)
  /\ watches' = watches \ {d}
  /\ UNCHANGED <<tool, buf, todo, pc, shown>>

MoveIn(d) ==
  /\ d \notin exist /\ Parent[d] \in exist /\ Changes < MaxChanges
  /\ exist' = exist \cup {d} /\ strangers' = strangers \cup {d}
  /\ Notify(Parent[d], <<<<"IN_MOVED_TO", d>>>>)
  /\ UNCHANGED <<tool, watches, buf, todo, pc, shown>>

-----------------------------------------------------------------------------
\* nftw comes to a directory, unless it has gone since its name was read.
Visit ==
  /\ pc = "walk" /\ todo # <<>>
  /\ IF Head(todo) \in exist THEN pc' = "add" /\ UNCHANGED todo
     ELSE todo' = Tail(todo) /\ UNCHANGED pc
  /\ UNCHANGED <<tool, world, watches, queue, buf, shown>>

\* addWatch; demo_inotify.c: the loop over its arguments.  A directory that has
\* gone is an error.
AddWatch ==
  /\ pc = "add"
  /\ IF Head(todo) \in exist
     THEN pc' = "list" /\ watches' = watches \cup {Head(todo)}
     ELSE pc' = "failed" /\ UNCHANGED watches
  /\ strangers' = strangers \ {Head(todo)}
  /\ UNCHANGED <<tool, exist, queue, log, buf, todo, shown>>

Children(d) == {c \in exist \ {1} : Parent[c] = d}

\* nftw reads the directory, after it has called addWatch.
List ==
  /\ pc = "list" /\ pc' = "walk"
  /\ todo' = SetToSeq(Children(Head(todo))) \o Tail(todo)
  /\ UNCHANGED <<tool, world, watches, queue, buf, shown>>

Walked ==
  /\ pc = "walk" /\ todo = <<>> /\ pc' = "read"
  /\ UNCHANGED <<tool, world, watches, queue, buf, todo, shown>>

Read ==
  /\ pc = "read" /\ queue # <<>>
  /\ buf' = queue /\ queue' = <<>> /\ pc' = "handle"
  /\ UNCHANGED <<tool, world, watches, todo, shown>>

\* demo_inotify.c displays the event.
Display ==
  /\ tool = "demo_inotify" /\ pc = "handle" /\ buf # <<>>
  /\ shown' = Append(shown, Head(buf)) /\ buf' = Tail(buf)
  /\ UNCHANGED <<tool, world, watches, queue, todo, pc>>


\* displayEvent and handleEvent.  After IN_CREATE the instance is closed, with its
\* watches and the events in it, and the rest of buf is left.
Handle ==
  /\ tool = "tree_watch" /\ pc = "handle" /\ buf # <<>>
  /\ shown' = Append(shown, Head(buf))
  /\ IF Head(buf)[1] = "IN_CREATE"
     THEN /\ watches' = {} /\ queue' = <<>>
          /\ buf' = <<>> /\ todo' = <<1>> /\ pc' = "walk"
     ELSE buf' = Tail(buf) /\ UNCHANGED <<watches, queue, todo, pc>>
  /\ UNCHANGED <<tool, world>>

Handled ==
  /\ pc = "handle" /\ buf = <<>> /\ pc' = "read"
  /\ UNCHANGED <<tool, world, watches, queue, buf, todo, shown>>

Program == Visit \/ AddWatch \/ List \/ Walked \/ Read \/ Display \/ Handle \/ Handled
Next == Program \/ \E d \in Dirs \ {1} : Mkdir(d) \/ Rmdir(d) \/ MoveIn(d)

-----------------------------------------------------------------------------
\* d is in D, or below a directory that is.
Within(d, D) == LET up[e \in Dirs] == e \in D \/ (e # 1 /\ up[Parent[e]]) IN up[d]

(***************************************************************************)
(* Once tree_watch.c has read all events, a directory of the tree is       *)
(* watched, however it came while the program was starting anew, except    *)
(* for two errors.  It is to handle moves of directories (lines 15-17),    *)
(* but no directory that was moved in is ever watched, until some other    *)
(* directory is made; and the same goes for a directory made while the     *)
(* kernel's queue was full.  Unwatched are these and some of those made    *)
(* below them, and no others.  demo_inotify.c displays every event it was  *)
(* sent, in order.                                                         *)
(***************************************************************************)
TreeIsWatched ==
  /\ pc = "read" /\ queue = <<>> /\ tool = "tree_watch" =>
       /\ strangers \subseteq exist \ watches
       /\ \A d \in exist \ watches : Within(d, strangers)
  /\ tool = "demo_inotify" => log = shown \o buf \o queue
=============================================================================
