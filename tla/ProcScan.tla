------------------------------ MODULE ProcScan -------------------------------
(***************************************************************************)
(* 12_System_And_Process_Info: three programs that walk through /proc      *)
(* while processes end.  list_pid.c lists the processes of a user,         *)
(* proc_file_open.c those that have a file open, proc_tree_view.c draws    *)
(* the tree of all.                                                        *)
(*                                                                         *)
(* Left out: new processes and the reuse of a pid; the formats of the      *)
(* files; how far a line of the tree is indented; a failing malloc.        *)
(***************************************************************************)
EXTENDS Integers, Sequences, FiniteSets, SequencesExt

CONSTANTS
  Pids,        \* the processes there are at the start; init is 1
  Wanted,      \* those of the user, or that have the file open
  FirstParent, \* FirstParent[p]: the parent of p at the start, 0 for init
  MaxFds       \* the descriptors a process may have open

VARIABLES
  tool,        \* the program
  alive, parent,
  todo,        \* what readdir has still to return
  entry,       \* the entry it returned last
  list,        \* processList, or dirList: the pid, ppid and taken of each entry
  fds,         \* descriptors left open
  pc,
  lines        \* the pids proc_tree_view.c prints, in order

vars == <<tool, alive, parent, todo, entry, list, fds, pc, lines>>
procs == <<alive, parent>>

Init ==
  /\ tool \in {"list_pid", "proc_file_open", "proc_tree_view"}
  /\ alive = Pids /\ parent = FirstParent
  /\ todo = Pids /\ entry = 1 /\ list = <<>>
  /\ fds \in 0..1   \* the shell may have left one open
  /\ pc = "readdir" /\ lines = <<>>

-----------------------------------------------------------------------------
\* A process ends and init adopts its children.
Exit(p) ==
  /\ p \in alive \ {1} /\ pc # "done"
  /\ alive' = alive \ {p}
  /\ parent' = [q \in Pids |-> IF parent[q] = p THEN 1 ELSE parent[q]]
  /\ UNCHANGED <<tool, todo, entry, list, fds, pc, lines>>

\* /proc lists pids in ascending order; one that has ended is still returned if
\* it was in the buffer.
Readdir ==
  /\ pc = "readdir"
  /\ \E p \in todo :
       /\ \A q \in todo : q >= p \/ q \notin alive
       /\ entry' = p /\ todo' = {q \in todo : q > p}
  /\ pc' = "open"
  /\ UNCHANGED <<tool, procs, list, fds, lines>>

Entry(ppid, taken) == [pid |-> entry, ppid |-> ppid, taken |-> taken]
Here(leaked, next) == fds' = fds + leaked /\ pc' = next

\* open or opendir fails: ENOENT is an error except in list_pid.c; EMFILE always.
OpenFails ==
  /\ pc = "open" /\ (entry \notin alive \/ fds >= MaxFds)
  /\ Here(0, IF tool = "list_pid" /\ fds < MaxFds THEN "readdir" ELSE "failed")
  /\ UNCHANGED <<tool, procs, todo, entry, list, lines>>

\* getProcessInfo: a process of another user leaves the descriptor open.
Take ==
  /\ pc = "open" /\ tool = "list_pid" /\ entry \in alive /\ fds < MaxFds
  /\ IF entry \in Wanted
     THEN Here(0, "readdir") /\ list' = Append(list, Entry(0, FALSE))
     ELSE Here(1, "readdir") /\ UNCHANGED list
  /\ UNCHANGED <<tool, procs, todo, entry, lines>>

\* The links of /proc/PID/fd, and if one is the file getName, which leaves the
\* descriptor open.
TakeName ==
  /\ pc = "open" /\ tool = "proc_file_open" /\ entry \in alive /\ fds < MaxFds
  /\ IF entry \in Wanted
     THEN Here(1, "readdir") /\ list' = Append(list, Entry(0, FALSE))
     ELSE Here(0, "readdir") /\ UNCHANGED list
  /\ UNCHANGED <<tool, procs, todo, entry, lines>>

\* getID finds the PPid line and leaves the descriptor open.  Nobody sets the taken
\* of the entry: it is what the block held.
GetID ==
  /\ pc = "open" /\ tool = "proc_tree_view" /\ entry \in alive /\ fds < MaxFds
  /\ Here(1, "command")
  /\ \E taken \in BOOLEAN : list' = Append(list, Entry(parent[entry], taken))
  /\ UNCHANGED <<tool, procs, todo, entry, lines>>

\* getCommand: open fails if the process has ended since, or no descriptor is
\* left; so does a read of any of these files, in all three programs.
GetCommand ==
  /\ pc = "command"
  /\ Here(0, IF entry \in alive /\ fds < MaxFds THEN "readdir" ELSE "failed")
  /\ UNCHANGED <<tool, procs, todo, entry, list, lines>>

\* readdir returns NULL, also if all that is left has ended.
EndOfDir ==
  /\ pc = "readdir" /\ todo \cap alive = {}
  /\ pc' = IF tool = "proc_tree_view" THEN "print" ELSE "done"
  /\ UNCHANGED <<tool, procs, todo, entry, list, fds, lines>>

-----------------------------------------------------------------------------
\* findChild, until it returns NULL: the entries that name pid as their parent.
ChildrenOf(pid) == SelectSeq(list, LAMBDA e : e.ppid = pid /\ ~e.taken)

\* printHierarchy prints the parent, then each child's own hierarchy.
Hierarchy[pid \in Pids, depth \in 0..Cardinality(Pids)] ==
  <<pid>> \o FlattenSeq([i \in DOMAIN ChildrenOf(pid) |->
               IF depth = 0 THEN <<>>
               ELSE Hierarchy[ChildrenOf(pid)[i].pid, depth - 1]])

PrintTree ==
  /\ pc = "print" /\ pc' = "done"
  /\ lines' = Hierarchy[1, Cardinality(Pids)]
  /\ UNCHANGED <<tool, procs, todo, entry, list, fds>>

Step == Readdir \/ OpenFails \/ Take \/ TakeName \/ GetID \/ GetCommand
        \/ EndOfDir \/ PrintTree
Next == Step \/ \E p \in Pids : Exit(p)

-----------------------------------------------------------------------------
Listed == {list[i].pid : i \in DOMAIN list}

\* Above[p]: an entry of the list names each of these as an ancestor of p.
Above[p \in Pids, depth \in 0..Cardinality(Pids)] ==
  IF depth = 0 THEN {}
  ELSE LET ps == {list[i].ppid : i \in {j \in DOMAIN list : list[j].pid = p}}
       IN ps \cup UNION {Above[q, depth - 1] : q \in ps \cap Pids}

\* Entries that are not in the tree: one of a process whose parent, or one further
\* up, ended before it was read, and those whose taken was not 0 to begin with, with
\* all that is below them.
Lost ==
  LET junk == {list[i].pid : i \in {j \in DOMAIN list : list[j].taken}} \ {1}
  IN {p \in Listed : LET above == Above[p, Cardinality(Pids)]
                     IN p \in junk \/ above \cap junk # {} \/ ~(above \subseteq Listed \cup {0})}

(***************************************************************************)
(* Whatever ends during the scan, a list has the processes asked for, each *)
(* once, and all of those that live through the scan; each process of the  *)
(* tree is printed once.  list_pid.c gives up only if it has run out of    *)
(* descriptors.                                                            *)
(*                                                                         *)
(* proc_tree_view.c is to handle a process that disappears                 *)
(* (its lines 14-16, README.md:36-38) and does not: it gives up, as        *)
(* proc_file_open.c does, if the process it has come to has ended, and the *)
(* tree is without the entries that are Lost, living processes among them, *)
(* and without no others.                                                  *)
(***************************************************************************)
ListIsExact ==
  /\ pc = "done" =>
       /\ Cardinality(Listed) = Len(list)
       /\ tool # "proc_tree_view" => alive \cap Wanted \subseteq Listed
                                     /\ Listed \subseteq Wanted
       /\ tool = "proc_tree_view" =>
            alive \subseteq Listed /\ IsInjective(lines) /\ ToSet(lines) = Listed \ Lost
  /\ pc = "failed" => fds >= MaxFds \/ (tool # "list_pid" /\ entry \notin alive)
=============================================================================
