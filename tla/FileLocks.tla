------------------------------ MODULE FileLocks -------------------------------
(***************************************************************************)
(* 55_File_Locking: the locks of flock and fcntl, and the programs that    *)
(* place them: i_fcntl_locking.c and t_flock.c run by several users,       *)
(* flock_dead.c (two processes that deadlock), lock_starve.c (readers that *)
(* keep a writer out), create_locks.c with flock_pref_t.c, and             *)
(* lockfile_imp.c, whose lock is a file created with O_EXCL.               *)
(*                                                                         *)
(* A byte of a file, or a whole file, is a number.  Left out: the OFD      *)
(* commands of i_fcntl_locking.c, whence, what is displayed.               *)
(***************************************************************************)
EXTENDS Integers, FiniteSets, Sequences

CONSTANTS
  Retries,     \* lockfile_imp.c: retries
  FileLen      \* create_locks.c: FILE_LEN

VARIABLES
  tool,
  locks,   \* the locks in place: [p |-> process, b |-> byte, t |-> "r" or "w"]
  pc,      \* of each process
  want,    \* of each process, the bytes and type it asks for
  files,   \* the files there are, with the process that created each
  tries,   \* lockfile_imp.c: retry_n and file_n of each process
  clock    \* lock_starve.c: seconds

vars == <<tool, locks, pc, want, files, tries, clock>>

Procs == 1..3
Nothing == [B |-> {}, t |-> "u"]
Tools == {"i_fcntl", "t_flock", "flock_dead", "lock_starve", "lockfile", "flock_pref"}

\* flock_dead.c may find a FIFO left behind by a run that was killed.
Init ==
  /\ tool \in Tools /\ locks = {} /\ clock = 0
  /\ pc = [p \in Procs |-> "start"] /\ want = [p \in Procs |-> Nothing]
  /\ tries = [p \in Procs |-> <<0, 1>>]
  /\ files \in IF tool = "flock_dead" THEN {{}, {<<"FIFO", 0>>}} ELSE {{}}

Go(p, l) == pc' = [pc EXCEPT ![p] = l]
Of(p) == {l \in locks : l.p = p}
Blockers(p, w) == {l \in locks : l.p # p /\ l.b \in w.B /\ "w" \in {l.t, w.t} /\ w.t # "u"}

\* A lock replaces what the process has on the same bytes.
Placed(p, w) ==
  {l \in locks : l.p # p \/ l.b \notin w.B}
    \union (IF w.t = "u" THEN {} ELSE [p : {p}, b : w.B, t : {w.t}])

-----------------------------------------------------------------------------
\* Of the processes that wait, those p would wait for, directly or not.
WaitsFor(p, w) == {l.p : l \in Blockers(p, w)}
Circle(p, w) ==
  LET one == WaitsFor(p, w)
      more(S) == S \union UNION {WaitsFor(q, want[q]) : q \in {r \in S : pc[r] = "wait"}}
  IN  p \in more(more(one))

\* i_fcntl_locking.c: s places the lock or fails, w waits for it unless that
\* would close a circle.  g changes nothing.  At the end of the input the process ends.
Commands == {[B |-> B, t |-> t] : B \in {{1}, {2}, {1, 2}}, t \in {"r", "w", "u"}}

FcntlCommand(p) ==
  /\ tool = "i_fcntl" /\ pc[p] = "start" /\ UNCHANGED <<tool, files, tries, clock>>
  /\ \/ \E w \in Commands :
        IF Blockers(p, w) = {} THEN locks' = Placed(p, w) /\ UNCHANGED <<pc, want>>
        ELSE /\ ~Circle(p, w) /\ Go(p, "wait")
             /\ want' = [want EXCEPT ![p] = w] /\ UNCHANGED locks
     \/ Go(p, "exited") /\ locks' = locks \ Of(p) /\ UNCHANGED want

\* A process that waits is let in.
FcntlWakes(p) ==
  /\ tool = "i_fcntl" /\ pc[p] = "wait" /\ UNCHANGED <<tool, files, tries, clock>>
  /\ Blockers(p, want[p]) = {} /\ locks' = Placed(p, want[p])
  /\ Go(p, "start") /\ want' = [want EXCEPT ![p] = Nothing]

-----------------------------------------------------------------------------
\* t_flock.c: a shared or exclusive lock on the file, with or without LOCK_NB, is
\* asked for, held for a while and released.
TFlock(p) ==
  /\ tool = "t_flock" /\ UNCHANGED <<tool, files, tries, clock>>
  /\ \/ /\ pc[p] = "start" /\ \E t \in {"r", "w"} : want' = [want EXCEPT ![p] = [B |-> {1}, t |-> t]]
        /\ \E l \in {"flock", "flock nb"} : Go(p, l)
        /\ UNCHANGED locks
     \/ /\ pc[p] \in {"flock", "flock nb"} /\ UNCHANGED want
        /\ \/ Blockers(p, want[p]) = {} /\ locks' = Placed(p, want[p]) /\ Go(p, "sleep")
           \/ /\ pc[p] = "flock nb" /\ Blockers(p, want[p]) # {}
              /\ Go(p, "exited") /\ UNCHANGED locks
     \/ /\ pc[p] = "sleep" /\ Go(p, "exited") /\ locks' = locks \ Of(p)
        /\ UNCHANGED want

-----------------------------------------------------------------------------
(* flock_dead.c: process 1, the parent, has file 1, its child file 2.      *)

LockOwn(p) ==
  /\ tool = "flock_dead" /\ p \in {1, 2} /\ pc[p] = "start"
  /\ locks' = locks \union {[p |-> p, b |-> p, t |-> "w"]}
  /\ Go(p, IF p = 1 THEN "mkfifo" ELSE "open fifo")
  /\ UNCHANGED <<tool, want, files, tries, clock>>

Mkfifo ==
  /\ tool = "flock_dead" /\ pc[1] = "mkfifo"
  /\ IF files = {} THEN Go(1, "open fifo") /\ files' = {<<"FIFO", 1>>} /\ UNCHANGED locks
     ELSE Go(1, "failed") /\ locks' = locks \ Of(1) /\ UNCHANGED files
  /\ UNCHANGED <<tool, want, tries, clock>>

\* Mutant: the parent does not wait at the FIFO.
SyncOneSided ==
  /\ tool = "flock_dead"
  /\ \/ pc[1] = "open fifo" /\ Go(1, "second") /\ UNCHANGED locks
     \/ /\ pc[2] = "open fifo" /\ files = {}
        /\ Go(2, "failed") /\ locks' = locks \ Of(2)
  /\ UNCHANGED <<tool, want, files, tries, clock>>

\* The two opens of the FIFO wait for each other.  Without the FIFO the child's fails.
Sync ==
  /\ tool = "flock_dead"
  /\ \/ /\ pc[1] = "open fifo" /\ pc[2] = "open fifo"
        /\ pc' = [pc EXCEPT ![1] = "second", ![2] = "second"] /\ UNCHANGED locks
     \/ /\ pc[2] = "open fifo" /\ files = {}
        /\ Go(2, "failed") /\ locks' = locks \ Of(2)
  /\ UNCHANGED <<tool, want, files, tries, clock>>

LockOther(p) ==
  /\ tool = "flock_dead" /\ pc[p] = "second"
  /\ Blockers(p, [B |-> {3 - p}, t |-> "r"]) = {}
  /\ Go(p, "exited") /\ locks' = locks \ Of(p)
  /\ UNCHANGED <<tool, want, files, tries, clock>>

-----------------------------------------------------------------------------
(* lock_starve.c: process 1 is the writer, the others lock for reading 5   *)
(* seconds one after the other, and for 6 seconds each.                    *)

\* Second, of the clock, at which p takes its next step.
Due(p) == CASE p = 1 /\ pc[p] = "start" -> 1
            [] p > 1 /\ pc[p] = "start" -> 5 * (p - 2)
            [] p > 1 /\ pc[p] = "sleep" -> 5 * (p - 2) + 6
            [] OTHER -> 100

StarveReader(p) ==
  /\ tool = "lock_starve" /\ p > 1 /\ clock = Due(p)
  /\ IF pc[p] = "start"
     THEN IF Blockers(p, [B |-> {1}, t |-> "r"]) # {} THEN Go(p, "failed") /\ UNCHANGED locks
          ELSE Go(p, "sleep") /\ locks' = Placed(p, [B |-> {1}, t |-> "r"])
     ELSE Go(p, "exited") /\ locks' = locks \ Of(p)
  /\ UNCHANGED <<tool, want, files, tries, clock>>

StarveWriter ==
  /\ tool = "lock_starve" /\ UNCHANGED <<tool, want, files, tries, clock>>
  /\ \/ pc[1] = "start" /\ clock = Due(1) /\ Go(1, "wait") /\ UNCHANGED locks
     \/ /\ pc[1] = "wait" /\ Blockers(1, [B |-> {1}, t |-> "w"]) = {}
        /\ Go(1, "locked") /\ locks' = Placed(1, [B |-> {1}, t |-> "w"])
     \/ /\ pc[1] = "locked" /\ \A p \in Procs \ {1} : pc[p] \in {"failed", "exited"}
        /\ Go(1, "exited") /\ locks' = locks \ Of(1)

Second ==
  /\ tool = "lock_starve" /\ clock < 20 /\ \A p \in Procs : Due(p) > clock
  /\ clock' = clock + 1 /\ UNCHANGED <<tool, locks, pc, want, files, tries>>

-----------------------------------------------------------------------------
\* create_locks.c: every other byte is locked, then the process sleeps.
CreateLocks ==
  /\ tool = "flock_pref" /\ pc[1] = "start" /\ Go(1, "pause")
  /\ locks' = [p : {1}, b : {i \in 0..FileLen - 1 : i % 2 = 0}, t : {"w"}]
  /\ UNCHANGED <<tool, want, files, tries, clock>>

\* flock_pref_t.c, once the locks are ready: the try to lock byte 2 N, N up to
\* half the length, must fail every time.
FlockPref(p) ==
  /\ tool = "flock_pref" /\ pc[1] = "pause" /\ p > 1 /\ pc[p] = "start"
  /\ \E n \in 0..(FileLen - 1) \div 2 :
     Go(p, IF Blockers(p, [B |-> {2 * n}, t |-> "w"]) # {} THEN "exited" ELSE "failed")
  /\ UNCHANGED <<tool, locks, want, files, tries, clock>>

-----------------------------------------------------------------------------
\* lockfile_imp.c: the files 1 and 2, in an order of its own, are each tried up to
\* retries times; a process that is done with its work removes them.
Wanted(p) == IF p = 1 THEN <<1, 2>> ELSE <<2, 1>>
Owned(p) == {f \in files : f[2] = p}

Lockfile(p) ==
  LET retry_n == tries[p][1]  file_n == tries[p][2] IN
  /\ tool = "lockfile" /\ pc[p] = "start" /\ UNCHANGED <<tool, locks, want, clock>>
  /\ \/ file_n > 2 /\ Go(p, "locked") /\ UNCHANGED <<files, tries>>
     \/ /\ file_n <= 2 /\ retry_n = Retries
        /\ Go(p, "failed") /\ UNCHANGED <<files, tries>>
     \/ /\ file_n <= 2 /\ retry_n < Retries /\ UNCHANGED pc
        /\ IF \E f \in files : f[1] = Wanted(p)[file_n]
           THEN tries' = [tries EXCEPT ![p] = <<retry_n + 1, file_n>>] /\ UNCHANGED files
           ELSE /\ tries' = [tries EXCEPT ![p] = <<0, file_n + 1>>]
                /\ files' = files \union {<<Wanted(p)[file_n], p>>}

Remove(p) ==
  /\ tool = "lockfile" /\ pc[p] = "locked" /\ Go(p, "exited")
  /\ files' = files \ Owned(p) /\ UNCHANGED <<tool, locks, want, tries, clock>>

-----------------------------------------------------------------------------
Step(p) == \/ FcntlCommand(p) \/ FcntlWakes(p) \/ TFlock(p) \/ LockOwn(p)
           \/ LockOther(p) \/ StarveReader(p) \/ FlockPref(p) \/ Lockfile(p) \/ Remove(p)
Next == (\E p \in Procs : Step(p))
        \/ Mkfifo \/ Sync \/ StarveWriter \/ Second \/ CreateLocks

-----------------------------------------------------------------------------
(***************************************************************************)
(* Whatever the order of the processes:                                    *)
(*   - no two hold locks that exclude each other, and of i_fcntl_locking's *)
(*     nobody waits for a process that waits for it;                       *)
(*   - flock_dead.c shows what it is to show (55-2): with both own locks   *)
(*     held before either asks for the other's, neither ever gets it;      *)
(*   - lock_starve.c does too (55-6): the writer, first to ask after the   *)
(*     first reader, has the lock after the last;                          *)
(*   - flock_pref_t.c never finds a byte that is not locked;               *)
(*   - lockfile_imp.c's lock is one process's at a time, as a whole.       *)
(***************************************************************************)
LocksExclude ==
  /\ \A l, m \in locks : l.p # m.p /\ l.b = m.b => l.t = "r" /\ m.t = "r"
  /\ tool = "i_fcntl" =>
       \A p \in Procs : pc[p] = "wait" => ~Circle(p, want[p])
  /\ tool = "flock_dead" => "exited" \notin {pc[1], pc[2]}
  /\ tool = "lock_starve" => /\ pc[1] = "locked" => pc[2] = "exited" /\ pc[3] = "exited"
                             /\ \A p \in Procs : pc[p] # "failed"
  /\ tool = "flock_pref" => \A p \in Procs : pc[p] # "failed"
  /\ tool = "lockfile" =>
       \A p \in Procs : pc[p] = "locked" =>
         /\ \A i \in 1..2 : <<i, p>> \in files
         /\ \A q \in Procs \ {p} : pc[q] # "locked" /\ Owned(q) = {}

-----------------------------------------------------------------------------
(***************************************************************************)
(* The invariant from which LocksExclude follows (proved in MCProcesses).  *)
(***************************************************************************)
PCs == {"start", "wait", "exited", "flock", "flock nb", "sleep", "mkfifo", "open fifo",
        "failed", "second", "locked", "pause"}

Locks == [p : Procs, b : Int, t : {"r", "w"}]
Tried == Int \X (1..3)
Wants == [B : SUBSET Int, t : {"r", "w", "u"}]

LocksTypeOK ==
  /\ tool \in Tools
  /\ locks \subseteq Locks
  /\ pc \in [Procs -> PCs]
  /\ want \in [Procs -> Wants]
  /\ tries \in [Procs -> Tried]
  /\ clock \in 0..20

\* Locks on the same byte are one process's, or for reading.
Excludes == \A l, m \in locks : l.p # m.p /\ l.b = m.b => l.t = "r" /\ m.t = "r"

\* q waits for r.
Edge(q, r) == pc[q] = "wait" /\ r \in WaitsFor(q, want[q])

NoCircles ==
  /\ \A p, q \in Procs : ~(Edge(p, q) /\ Edge(q, p))
  /\ \A p, q, r \in Procs : ~(Edge(p, q) /\ Edge(q, r) /\ Edge(r, p))

\* flock_dead.c: a process past its own lock holds it, and both are past the FIFO, or
\* neither is.
Own(p) == [p |-> p, b |-> p, t |-> "w"]

DeadInv ==
  /\ \A l \in locks : l.b = l.p
  /\ \A p \in {1, 2} : \/ pc[p] \in {"start", "failed"}
                       \/ pc[p] \in {"mkfifo", "open fifo", "second"} /\ Own(p) \in locks
  /\ pc[1] = "second" <=> pc[2] = "second"
  /\ pc[3] = "start"

\* lock_starve.c: when each reader runs, and that the writer has the lock after them.
Reading(p) == [p |-> p, b |-> 1, t |-> "r"]

StarveInv ==
  /\ \A l \in locks : \/ l.p = 1 /\ pc[1] = "locked"
                      \/ l.p \in {2, 3} /\ l.t = "r" /\ pc[l.p] = "sleep"
  /\ \A p \in {2, 3} :
       /\ pc[p] \in {"start", "sleep", "exited"}
       /\ pc[p] = "start" => clock <= 5 * (p - 2)
       /\ pc[p] = "sleep" => /\ Reading(p) \in locks
                             /\ 5 * (p - 2) <= clock /\ clock <= 5 * (p - 2) + 6
       /\ pc[p] = "exited" => clock >= 5 * (p - 2) + 6
  /\ pc[1] \in {"start", "wait", "locked", "exited"}
  /\ pc[1] # "start" => clock >= 1
  /\ pc[1] = "locked" => pc[2] = "exited" /\ pc[3] = "exited"

\* create_locks.c: who finds it asleep finds every other byte locked.
PrefInv ==
  /\ \A p \in Procs : pc[p] # "failed"
  /\ pc[1] = "start" => locks = {}
  /\ pc[1] = "pause" =>
       \A i \in 0..FileLen - 1 : i % 2 = 0 => [p |-> 1, b |-> i, t |-> "w"] \in locks
  /\ \A l \in locks : l.p = 1

\* lockfile_imp.c: a file is one process's, which has made its files in its order.
FileInv ==
  /\ files \subseteq {1, 2} \X Procs
  /\ \A f, g \in files : f[1] = g[1] => f = g
  /\ \A p \in Procs : pc[p] \in {"start", "locked"} =>
       \A i \in 1..2 : i < tries[p][2] => <<Wanted(p)[i], p>> \in files
  /\ \A p \in Procs : pc[p] = "locked" => tries[p][2] = 3

LocksInv ==
  /\ LocksTypeOK /\ Excludes
  /\ tool = "i_fcntl" => NoCircles
  /\ tool = "flock_dead" => DeadInv
  /\ tool = "lock_starve" => StarveInv
  /\ tool = "flock_pref" => PrefInv
  /\ tool = "lockfile" => FileInv
===============================================================================
