----------------------------- MODULE PathNames -------------------------------
(***************************************************************************)
(* 18_Directories_And_Links: the getcwd of imp_getcwd.c, which climbs to   *)
(* the root and looks in each directory for the name of the one it came    *)
(* from, and the realpath of imp_realpath.c, which lets chdir and readlink *)
(* resolve a name.                                                         *)
(*                                                                         *)
(* A path is a sequence of names, the first of them "/" if it is absolute. *)
(* The tree of files does not change.  Left out: the lengths of the paths  *)
(* and of the buffers; files that may not be searched; mount points, which *)
(* imp_getcwd tells apart by the device, as an inode of theirs here.       *)
(***************************************************************************)
EXTENDS Integers, Sequences, FiniteSets, SequencesExt

CONSTANTS
  Dirs,     \* the inodes of directories; 1 is the root
  Entries,  \* Entries[d]: the names in d but "." and "..", with their inodes
  Parent,   \* Parent[d]: the inode of ".."
  Links,    \* Links[i]: the contents of the symbolic link i
  Questions \* the paths to resolve

VARIABLES
  tool,
  home,     \* the working directory at the call
  asked,    \* the path the caller wants resolved
  cwd,
  path,     \* what imp_realpath resolves; the components imp_getcwd has found
  homes,    \* the working directories imp_realpath has still to go back to
  pc, result

call == <<tool, home, asked>>
vars == <<call, cwd, path, homes, pc, result>>

Missing == 0
NotDir == -1

IsLink(i) == i \in DOMAIN Links
Lookup(d, name) ==
  CASE name = "/" -> 1
    [] name = "." -> d
    [] name = ".." -> Parent[d]
    [] OTHER -> LET es == {e \in Entries[d] : e[1] = name}
                IN IF es = {} THEN Missing ELSE (CHOOSE e \in es : TRUE)[2]

\* The inode p names, seen from d: a link is followed unless it is the last
\* component and follow is FALSE.  fuel bounds the links followed (ELOOP).
Walk[d \in Int, p \in Seq(STRING), follow \in BOOLEAN, fuel \in Nat] ==
  IF p = <<>> THEN d
  ELSE IF d \notin Dirs THEN NotDir
  ELSE LET i == Lookup(d, Head(p)) IN
    CASE i = Missing -> Missing
      [] IsLink(i) /\ (follow \/ Len(p) > 1) ->
           IF fuel = 0 THEN Missing ELSE Walk[d, Links[i] \o Tail(p), follow, fuel - 1]
      [] OTHER -> IF Len(p) = 1 THEN i ELSE Walk[i, Tail(p), follow, fuel]

Stat(d, p)  == Walk[d, p, TRUE, 4]
Lstat(d, p) == Walk[d, p, FALSE, 4]

\* getcwd(2).
PathOf[d \in Dirs] ==
  IF d = 1 THEN <<"/">>
  ELSE Append(PathOf[Parent[d]],
              (CHOOSE e \in Entries[Parent[d]] : e[2] = d)[1])

Init ==
  /\ tool \in {"imp_getcwd", "imp_realpath"}
  /\ home \in Dirs /\ cwd = home
  /\ asked \in IF tool = "imp_getcwd" THEN {<<>>} ELSE Questions
  /\ path = asked
  /\ homes = <<>> /\ pc = "start" /\ result = <<>>

-----------------------------------------------------------------------------
\* Names in d that stat finds to be the directory i: links count.
NamesOf(d, i) == {e[1] : e \in {f \in Entries[d] : Stat(d, <<f[1]>>) = i}}
Dangling(d)   == {e \in Entries[d] : Stat(d, <<e[1]>>) \in {Missing, NotDir}}

\* imp_getcwd: chdir("..") and a scan of the entries, in whatever order they come,
\* that stops at a match, and fails at a link that leads nowhere.
Climb ==
  /\ tool = "imp_getcwd" /\ pc = "start" /\ cwd # 1
  /\ cwd' = Parent[cwd]
  /\ \/ /\ \E name \in NamesOf(cwd', cwd) : path' = <<name>> \o path
        /\ UNCHANGED <<pc, result>>
     \/ /\ Dangling(cwd') # {}
        /\ pc' = "null" /\ UNCHANGED <<path, result>>
  /\ UNCHANGED <<call, homes>>

\* . and .. are the same: the path is complete, unless the caller's buffer is
\* smaller.
AtRoot ==
  /\ tool = "imp_getcwd" /\ pc = "start" /\ cwd = 1
  /\ \/ pc' = "done" /\ result' = <<"/">> \o path /\ cwd' = home
     \/ pc' = "null" /\ UNCHANGED <<result, cwd>>
  /\ UNCHANGED <<call, path, homes>>

-----------------------------------------------------------------------------
\* imp_realpath(path) in cwd.  chdir(path) succeeds: getcwd tells.
ToDirectory ==
  /\ tool = "imp_realpath" /\ pc = "start" /\ Stat(cwd, path) \in Dirs
  /\ result' = PathOf[Stat(cwd, path)]
  /\ pc' = "back" /\ homes' = Append(homes, cwd)
  /\ UNCHANGED <<call, cwd, path>>

\* ENOENT, or ENOTDIR from lstat too: NULL.  The caller, if it is imp_realpath,
\* does not look.
ToNothing ==
  /\ tool = "imp_realpath" /\ pc = "start"
  /\ \/ Stat(cwd, path) = Missing
     \/ Stat(cwd, path) = NotDir /\ Lstat(cwd, path) = NotDir
  /\ pc' = IF homes = <<>> THEN "null" ELSE "back"
  /\ UNCHANGED <<call, cwd, path, homes, result>>

\* Mutant: the contents of the link are resolved where the caller is.
ToLinkFromHere ==
  /\ tool = "imp_realpath" /\ pc = "start"
  /\ Stat(cwd, path) \notin Dirs \cup {Missing} /\ IsLink(Lstat(cwd, path))
  /\ path' = Links[Lstat(cwd, path)] /\ homes' = Append(homes, cwd)
  /\ UNCHANGED <<call, cwd, pc, result>>

\* ENOTDIR.  A link: go where it is and resolve what it contains.
ToLink ==
  /\ tool = "imp_realpath" /\ pc = "start"
  /\ Stat(cwd, path) \notin Dirs \cup {Missing} /\ IsLink(Lstat(cwd, path))
  /\ cwd' = Stat(cwd, Front(path)) /\ path' = Links[Lstat(cwd, path)]
  /\ homes' = Append(homes, cwd)
  /\ UNCHANGED <<call, pc, result>>

\* Any other file: chDir, and the file's own name behind what getcwd tells, with
\* a second slash if that is the root.
ToFile ==
  /\ tool = "imp_realpath" /\ pc = "start"
  /\ Stat(cwd, path) \notin Dirs \cup {Missing, NotDir} /\ ~IsLink(Lstat(cwd, path))
  /\ LET dir == Stat(cwd, Front(path))
     IN result' = Append(PathOf[dir] \o (IF dir = 1 THEN <<".">> ELSE <<>>), Last(path))
  /\ pc' = "back" /\ homes' = Append(homes, cwd)
  /\ UNCHANGED <<call, cwd, path>>

\* chdir(cwd) of each call, from the innermost out.
Back ==
  /\ pc = "back"
  /\ IF homes = <<>> THEN pc' = "done" /\ UNCHANGED <<cwd, homes>>
     ELSE cwd' = Last(homes) /\ homes' = Front(homes) /\ UNCHANGED pc
  /\ UNCHANGED <<call, path, result>>

Next == Climb \/ AtRoot \/ ToDirectory \/ ToNothing \/ ToLink \/ ToFile \/ Back

-----------------------------------------------------------------------------
(***************************************************************************)
(* A path that is returned leads from the root to what was asked for, and  *)
(* the working directory is the caller's again; that of imp_realpath goes  *)
(* through no link, and imp_realpath fails only for a path that leads      *)
(* nowhere, and then too is back where it was.                             *)
(*                                                                         *)
(* Two errors, and exactly when they are met.  imp_getcwd is to leave the  *)
(* caller where it was whether or not it fails (README.md:85-88): when it  *)
(* fails it never does, unless the caller was at the root.  imp_realpath   *)
(* is to return NULL on an error (lines 17-18): for a link whose contents  *)
(* lead through a file, and for nothing else, it returns the buffer with   *)
(* what the caller had in it.                                              *)
(***************************************************************************)
GetcwdResolves ==
  /\ pc = "done" => cwd = home /\ Stat(1, result) = home
  /\ pc = "null" => (cwd = home <=> home = 1)

LeadsThere ==
  /\ result # <<>> /\ Stat(1, result) = Stat(home, asked)
  /\ \A n \in 1..Len(result) : ~IsLink(Lstat(1, SubSeq(result, 1, n)))

RealpathResolves ==
  /\ pc \in {"done", "null"} => cwd = home
  /\ pc = "done" =>
       IF Stat(home, asked) = NotDir THEN IsLink(Lstat(home, asked)) /\ result = <<>>
       ELSE LeadsThere
  /\ pc = "null" => /\ Stat(home, asked) \in {Missing, NotDir}
                    /\ Stat(home, asked) = NotDir => ~IsLink(Lstat(home, asked))

PathsResolve == IF tool = "imp_getcwd" THEN GetcwdResolves ELSE RealpathResolves
=============================================================================
