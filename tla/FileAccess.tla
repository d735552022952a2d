----------------------------- MODULE FileAccess ------------------------------
(***************************************************************************)
(* Who may do what with a file: effective_access.c answers from the mode   *)
(* of the file, get_named_acl_entry.c from its access control list, and    *)
(* imp_chattr.c changes the inode flags of the files it is given.          *)
(*                                                                         *)
(* A behaviour asks one question and has it answered; what the kernel would *)
(* say is defined at the end.  Left out: privileged processes, how options *)
(* and numbers are parsed, the name of a user or a group.                  *)
(***************************************************************************)
EXTENDS Integers, Sequences, FiniteSets, SequencesExt

CONSTANTS
  Bits,      \* the permissions, and the inode flags
  Files      \* the files given to imp_chattr.c

None == {"none"}  \* an ACL entry that is not there
Failed == <<-1>>

VARIABLES question, answer

vars == <<question, answer>>

-----------------------------------------------------------------------------
\* effective_access.c.  The owner of the file is 1, and so is its group.
Modes == [user : SUBSET Bits, group : SUBSET Bits, other : SUBSET Bits]
ModeQuestions ==
  {q \in [tool : {"effective_access"}, mode : Modes, found : BOOLEAN, euid : {1, 2},
          egid : {1, 2}, groups : SUBSET {1, 2}, flags : SUBSET Bits, exist : BOOLEAN] :
     (q.found /\ ~q.exist) \/ q.euid + q.egid + Cardinality(q.groups) = 2}

\* Mutant: the owner falls through to the group's and the others' permissions.
ClassOfAnyone(q) ==
  IF q.egid = 1 /\ 1 \in q.groups THEN q.mode.group
  ELSE q.mode.other

\* checkPermGroup and groupAccess: the class whose permissions decide.
Class(q) ==
  IF q.euid = 1 THEN q.mode.user
  ELSE IF q.egid = 1 /\ 1 \in q.groups THEN q.mode.group
  ELSE q.mode.other

\* -1 for no flags and for a file stat does not find; -e returns early.
EffectiveAccess ==
  /\ question.tool = "effective_access" /\ answer = <<>>
  /\ answer' = CASE question.flags = {} /\ ~question.exist -> Failed
                 [] ~question.found -> Failed
                 [] question.found /\ question.exist -> <<1>>
                 [] OTHER -> IF question.flags \subseteq Class(question) THEN <<0>>
                             ELSE Failed
  /\ UNCHANGED question

-----------------------------------------------------------------------------
\* get_named_acl_entry.c.  The file belongs to user 1 and group 1, and has at
\* most one named user and one named group, number 2.  acl_get_file returns a
\* mask whenever there is a named entry.
Coarse == {{}, Bits}
Acls ==
  {a \in [user_obj : Coarse, user : Coarse \cup {None},
          group_obj : SUBSET Bits, group : SUBSET Bits \cup {None},
          mask : SUBSET Bits \cup {None}, other : Coarse] :
     a.mask = None => a.user = None /\ a.group = None}
AclQuestions ==
  [tool : {"get_named_acl_entry", "acl_view"}, acl : Acls, opt : {"u", "g"}, id : 1..3]

\* getMaskPermset and getPermChar: no mask means all permissions.
Effective(acl, perms) == IF acl.mask = None THEN perms ELSE perms \cap acl.mask

\* The line of an entry, if it is there.
Line(there, tag, perms) == IF there THEN <<<<tag, perms>>>> ELSE <<>>

\* A line for each entry that is the id's own, ACL_OTHER if there was none.
Lines(acl, opt, id) ==
  LET isFileOwner  == opt = "u" /\ id = 1
      isGroupOwner == opt = "g" /\ id = 1
      user  == opt = "u" /\ id = 2 /\ acl.user # None
      group == opt = "g" /\ id = 2 /\ acl.group # None
  IN Line(isFileOwner, "ACL_USER_OBJ", acl.user_obj)
     \o Line(user, "ACL_USER", Effective(acl, acl.user))
     \o Line(isGroupOwner, "ACL_GROUP_OBJ", Effective(acl, acl.group_obj))
     \o Line(group, "ACL_GROUP", Effective(acl, acl.group))
     \o Line(~(isFileOwner \/ isGroupOwner \/ user \/ group), "ACL_OTHER", acl.other)

GetNamedAclEntry ==
  /\ question.tool = "get_named_acl_entry" /\ answer = <<>>
  /\ answer' = Lines(question.acl, question.opt, question.id)
  /\ UNCHANGED question

\* acl_view.c: a line for every entry, the mask's among them.
AclView ==
  /\ question.tool = "acl_view" /\ answer = <<>>
  /\ LET acl == question.acl IN
       answer' = <<<<"user_obj", acl.user_obj>>>> \o Line(acl.user # None, "user", acl.user)
                 \o <<<<"group_obj", acl.group_obj>>>>
                 \o Line(acl.group # None, "group", acl.group)
                 \o Line(acl.mask # None, "mask", acl.mask) \o <<<<"other", acl.other>>>>
  /\ UNCHANGED question

-----------------------------------------------------------------------------
\* imp_chattr.c.  What each file does: open fails; FS_IOC_GETFLAGS fails and
\* FS_IOC_SETFLAGS may; only the latter fails; none.
Faults == {"none", "open", "get", "set", "get and set"}
ChattrQuestions ==
  [tool : {"imp_chattr"}, op : {"+", "-", "="}, flags : SUBSET Bits \ {{}},
   old : [Files -> SUBSET Bits], fault : [Files -> Faults]]

Changed(op, current, flags) ==
  CASE op = "+" -> current \cup flags
    [] op = "-" -> current \ flags
    [] op = "=" -> flags

\* errFnd is still 0: the exit status is EXIT_SUCCESS.
AllWell(q) == \A f \in Files : q.fault[f] = "none"

\* After a failed FS_IOC_GETFLAGS, currentFlags is what the stack holds, and the
\* loop goes on to set it.
Chattr ==
  /\ question.tool = "imp_chattr" /\ answer = <<>>
  /\ \E junk \in SUBSET Bits :
       answer' = <<AllWell(question),
         [f \in Files |->
            CASE question.fault[f] \in {"open", "set", "get and set"} -> question.old[f]
              [] question.fault[f] = "get" -> Changed(question.op, junk, question.flags)
              [] OTHER -> Changed(question.op, question.old[f], question.flags)]>>
  /\ UNCHANGED question

-----------------------------------------------------------------------------
Init == /\ question \in ModeQuestions \cup AclQuestions \cup ChattrQuestions
        /\ answer = <<>>
Next == EffectiveAccess \/ GetNamedAclEntry \/ AclView \/ Chattr

-----------------------------------------------------------------------------
\* The kernel's rule for the mode, with the effective ids: the process is of the
\* file's group if its effective or a supplementary group is.
Granted(q) ==
  CASE q.euid = 1 -> q.mode.user
    [] q.euid # 1 /\ 1 \in q.groups \cup {q.egid} -> q.mode.group
    [] OTHER -> q.mode.other

\* The kernel's rule for the list: what the entry that decides contains and the
\* mask leaves.
AclGranted(q) ==
  LET masked(perms) == IF q.acl.mask = None THEN perms ELSE perms \cap q.acl.mask
      a == q.acl
  IN CASE q.opt = "u" /\ q.id = 1 -> a.user_obj
       [] q.opt = "u" /\ q.id = 2 /\ a.user # None -> masked(a.user)
       [] q.opt = "g" /\ q.id = 1 -> masked(a.group_obj)
       [] q.opt = "g" /\ q.id = 2 /\ a.group # None -> masked(a.group)
       [] OTHER -> a.other

\* The process is of the file's group by its effective group alone, or by a
\* supplementary one alone: line 78 (&& where || is meant) takes it for a stranger.
TakenForOther(q) == q.euid # 1 /\ (q.egid = 1) # (1 \in q.groups)

\* What effective_access.c is to report, after its header (9-12, 21).
RightAnswer(q) == q.found /\ q.flags \subseteq Granted(q)

(***************************************************************************)
(* effective_access.c: -e reports whether the file exists.  Without it the *)
(* answer is the kernel's, granted or refused, but for the error of line   *)
(* 78; and that error does its harm, a permission granted that the process *)
(* does not have or refused that it has, exactly to processes taken for    *)
(* strangers whose group and the others differ in what was asked for.  The *)
(* first line of get_named_acl_entry.c is what the kernel grants.          *)
(* imp_chattr.c exits with success only if every file has its flags        *)
(* changed as asked.                                                       *)
(***************************************************************************)
ModeAnswered ==
  LET q == question
      isRight == answer = <<0>> <=> RightAnswer(q)
  IN IF q.exist THEN answer = <<1>> <=> q.found
     ELSE q.flags # {} =>
       (~isRight <=> /\ q.found /\ TakenForOther(q)
                     /\ (q.flags \subseteq q.mode.group) # (q.flags \subseteq q.mode.other))

AclAnswered == answer[1][2] = AclGranted(question)

FlagsChanged ==
  answer[1] => \A f \in Files :
    CASE question.op = "+" -> answer[2][f] = question.old[f] \cup question.flags
      [] question.op = "-" -> answer[2][f] \cap question.flags = {}
      [] question.op = "=" -> answer[2][f] = question.flags

AnswersAreRight ==
  answer # <<>> =>
    /\ question.tool = "effective_access" => ModeAnswered
    /\ question.tool = "get_named_acl_entry" => AclAnswered
    /\ question.tool = "imp_chattr" => FlagsChanged

-----------------------------------------------------------------------------
\* The invariant (proved in MCLibrary): the question is one of those asked, and its answer is right.
AccessInv ==
  /\ question \in ModeQuestions \cup AclQuestions \cup ChattrQuestions
  /\ AnswersAreRight
=============================================================================
