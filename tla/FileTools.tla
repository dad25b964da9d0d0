----------------------------- MODULE FileTools -----------------------------
(* custom_cp, custom_mv and custom_rm as functions of a file tree, which      *)
(* gives every path (a sequence of names) its node; <<>> is the directory     *)
(* that holds it all, and what is below "m" is on another device.  A job j    *)
(* has the tool, its operands, o, the options in force (-f and -i put each    *)
(* other out), faults, the calls <<name, path>> that the host refuses, and    *)
(* yes, the paths for which the user answers y.  Results are [t, ret]: the    *)
(* tree afterwards and the exit status.  Messages (-v), symbolic links and    *)
(* the length of paths are left out.                                        *)
EXTENDS Integers, Sequences, FiniteSets
LOCAL INSTANCE SequencesExt

NOW == 9
Node(type, data, ro, mtime) == [type |-> type, data |-> data, ro |-> ro, mtime |-> mtime]
File(data, ro, mtime) == Node("file", data, ro, mtime)
Dir(ro) == Node("dir", "", ro, NOW)

Exists(t, p) == p \in DOMAIN t
IsDir(t, p)  == Exists(t, p) /\ t[p].type = "dir"
Parent(p)    == SubSeq(p, 1, Len(p) - 1)
Base(p)      == p[Len(p)]
Under(p, q)  == Len(p) >= Len(q) /\ SubSeq(p, 1, Len(q)) = q      \* p is q or below
Dev(p)       == p[1] = "m"
Names(t, p)  == {Base(q) : q \in {c \in DOMAIN t : Len(c) = Len(p) + 1 /\ Under(c, p)}}
Put(t, p, node) == [q \in DOMAIN t \cup {p} |-> IF q = p THEN node ELSE t[q]]
Drop(t, p)      == [q \in DOMAIN t \ {p} |-> t[q]]
Ret(t, ret)     == [t |-> t, ret |-> ret]

-----------------------------------------------------------------------------
(* System calls, by what the programs see of them.  In a directory that is   *)
(* read-only no name can be added or removed.                               *)

Refused(j, call, p) == <<call, p>> \in j.faults
Writable(t, p) == IsDir(t, Parent(p)) /\ ~t[Parent(p)].ro
\* open(O_WRONLY|O_CREAT|O_TRUNC), mkdir(), unlink() and rmdir().
CanCreate(t, p) == IF Exists(t, p) THEN ~IsDir(t, p) /\ ~t[p].ro ELSE Writable(t, p)
Created(t, p, ro) == Put(t, p, File("", IF Exists(t, p) THEN t[p].ro ELSE ro, NOW))
CanMkdir(t, p)  == Writable(t, p) /\ ~Exists(t, p)
CanUnlink(t, p, j) == Exists(t, p) /\ ~IsDir(t, p) /\ Writable(t, p) /\ ~Refused(j, "unlink", p)
CanRmdir(t, p)  == IsDir(t, p) /\ Names(t, p) = {} /\ Writable(t, p)
unlink(t, p, j) == IF CanUnlink(t, p, j) THEN Drop(t, p) ELSE t
rmdir(t, p)     == IF CanRmdir(t, p) THEN Drop(t, p) ELSE t
\* rename() on one device: a file over a file, a directory over an empty one.
CanRename(t, s, d) ==
  /\ Writable(t, s) /\ Writable(t, d) /\ (Under(d, s) => d = s)
  /\ IsDir(t, s) /\ Parent(s) # Parent(d) => ~t[s].ro
  /\ Exists(t, d) /\ d # s => t[d].type = t[s].type /\ Names(t, d) = {}
rename(t, s, d) ==
  LET To(p) == d \o SubSeq(p, Len(s) + 1, Len(p))
      moved == {p \in DOMAIN t : Under(p, s)}
  IN  [q \in (DOMAIN t \ moved) \cup {To(p) : p \in moved} |->
         IF \E p \in moved : To(p) = q THEN t[CHOOSE p \in moved : To(p) = q] ELSE t[q]]

-----------------------------------------------------------------------------
(* Each(t, pairs, j) treats <<source, target>> pairs one after the other,     *)
(* the operands of main() or the entries of a directory, and ors the statuses. *)

RECURSIVE Each(_, _, _)
Entries(t, src, dst) ==
  LET names == SetToSeq(Names(t, src))
  IN  [i \in DOMAIN names |-> <<Append(src, names[i]), Append(dst, names[i])>>]

\* copy_file() of custom_cp: the destination is cut off first, so that a copy
\* that breaks off leaves a part.
copy_file(t, src, dst, j) ==
  LET S     == t[src]
      t1    == IF "f" \in j.o /\ ~CanCreate(t, dst) THEN unlink(t, dst, j) ELSE t
      empty == Created(t1, dst, S.ro)
      full  == [empty EXCEPT ![dst].data = S.data]
      kept  == [full EXCEPT ![dst].mtime = S.mtime, ![dst].ro = S.ro]
  IN  IF dst = src THEN Ret(t, 1)
      ELSE IF Exists(t, dst) /\ ("n" \in j.o \/ ("u" \in j.o /\ t[dst].mtime >= S.mtime))
      THEN Ret(t, 0)
      ELSE IF Refused(j, "open", src) THEN Ret(t, 1)
      ELSE IF ~CanCreate(t1, dst) THEN Ret(t1, 1)
      ELSE IF Refused(j, "read", src) THEN Ret([empty EXCEPT ![dst].data = "part"], 1)
      ELSE Ret(IF "p" \in j.o THEN kept ELSE full, 0)

\* copy_dir(): whatever is at dst will do, and -p sets its mode in the end.
copy_dir(t, src, dst, j) ==
  LET t1 == IF CanMkdir(t, dst) THEN Put(t, dst, Dir(FALSE)) ELSE t
      r  == Each(t1, Entries(t, src, dst), j)
  IN  IF ~Exists(t1, dst) \/ Refused(j, "opendir", src) THEN Ret(t1, 1)
      ELSE Ret(IF "p" \in j.o THEN [r.t EXCEPT ![dst].ro = t[src].ro] ELSE r.t, r.ret)

copy_path(t, src, dst, j) ==
  IF ~Exists(t, src) \/ Refused(j, "lstat", src) \/ (IsDir(t, src) /\ "r" \notin j.o)
  THEN Ret(t, 1)
  ELSE IF IsDir(t, src) THEN copy_dir(t, src, dst, j)
  ELSE copy_file(t, src, dst, j)

\* Mutant of copy_file_raw: the source goes even if the copy broke off.
copy_file_rawUnlinks(t, src, dst, j) ==
  IF Refused(j, "open", src) \/ ~CanCreate(t, dst) THEN Ret(t, 1)
  ELSE IF Refused(j, "read", src)
  THEN Ret(unlink([Created(t, dst, t[src].ro) EXCEPT ![dst].data = "part"], src, j), 1)
  ELSE Ret(unlink(Put(t, dst, t[src]), src, j), 0)

\* copy_file_raw() of custom_mv: the source goes when all of it was copied; if
\* unlink() is refused it stays, and the status is 0 all the same.
copy_file_raw(t, src, dst, j) ==
  IF Refused(j, "open", src) \/ ~CanCreate(t, dst) THEN Ret(t, 1)
  ELSE IF Refused(j, "read", src)
  THEN Ret([Created(t, dst, t[src].ro) EXCEPT ![dst].data = "part"], 1)
  ELSE Ret(unlink(Put(t, dst, t[src]), src, j), 0)

\* copy_dir_recursive(): whatever is at dst will do; the source directory goes
\* if it is empty in the end.
copy_dir_recursive(t, src, dst, j) ==
  LET t1 == IF CanMkdir(t, dst) THEN Put(t, dst, Dir(t[src].ro)) ELSE t
      r  == Each(t1, Entries(t, src, dst), j)
  IN  IF ~Exists(t1, dst) \/ Refused(j, "opendir", src) THEN Ret(t1, 1)
      ELSE Ret(rmdir(r.t, src), r.ret)

move_path(t, src, dst, j) ==
  LET there == Exists(t, dst)
  IN  IF ~Exists(t, src) \/ Refused(j, "lstat", src) THEN Ret(t, 1)
      ELSE IF there /\ \/ "n" \in j.o
                       \/ "u" \in j.o /\ t[dst].mtime >= t[src].mtime
                       \/ "i" \in j.o /\ dst \notin j.yes
      THEN Ret(t, 0)
      ELSE IF there /\ "f" \notin j.o /\ t[dst].ro THEN Ret(t, 1)
      ELSE IF Dev(src) = Dev(dst)
      THEN IF CanRename(t, src, dst) THEN Ret(rename(t, src, dst), 0) ELSE Ret(t, 1)
      ELSE IF IsDir(t, src) THEN copy_dir_recursive(t, src, dst, j)
      ELSE copy_file_raw(t, src, dst, j)

\* rm_dir(): the entries, then the directory, unless one of them went wrong.
\* With -f a directory that cannot be opened or removed is passed over.
rm_dir(t, p, j) ==
  LET r == Each(t, Entries(t, p, p), j)
      passed == IF "f" \in j.o THEN 0 ELSE 1
  IN  IF Refused(j, "opendir", p) THEN Ret(t, passed)
      ELSE IF r.ret = 1 \/ ("i" \in j.o /\ p \notin j.yes) THEN r
      ELSE Ret(rmdir(r.t, p), IF CanRmdir(r.t, p) THEN 0 ELSE passed)

rm_path(t, p, j) ==
  IF Refused(j, "lstat", p) THEN Ret(t, 1)
  ELSE IF ~Exists(t, p) THEN Ret(t, IF "f" \in j.o THEN 0 ELSE 1)
  ELSE IF IsDir(t, p)
  THEN IF "r" \in j.o THEN rm_dir(t, p, j)
       ELSE IF "d" \notin j.o THEN Ret(t, 1)
       ELSE IF "i" \in j.o /\ p \notin j.yes THEN Ret(t, 0)
       ELSE Ret(rmdir(t, p), IF CanRmdir(t, p) THEN 0 ELSE 1)
  ELSE IF p \notin j.yes /\ ("i" \in j.o \/ ("f" \notin j.o /\ t[p].ro)) THEN Ret(t, 0)
  ELSE Ret(unlink(t, p, j), IF CanUnlink(t, p, j) THEN 0 ELSE 1)

Each(t, pairs, j) ==
  IF pairs = <<>> THEN Ret(t, 0)
  ELSE LET src == Head(pairs)[1]
           dst == Head(pairs)[2]
           a   == CASE j.tool = "cp" -> copy_path(t, src, dst, j)
                    [] j.tool = "mv" -> move_path(t, src, dst, j)
                    [] j.tool = "rm" -> rm_path(t, src, j)
           b   == Each(a.t, Tail(pairs), j)
       IN  Ret(b.t, IF a.ret = 1 THEN 1 ELSE b.ret)

\* main() of the three: several sources need a directory to go to.
Target(t, src, j) == IF j.tool # "rm" /\ IsDir(t, j.dst) THEN Append(j.dst, Base(src)) ELSE j.dst
main(t, j) ==
  IF j.tool # "rm" /\ Len(j.srcs) > 1 /\ ~IsDir(t, j.dst) THEN Ret(t, 1)
  ELSE Each(t, [i \in DOMAIN j.srcs |-> <<j.srcs[i], Target(t, j.srcs[i], j)>>], j)

-----------------------------------------------------------------------------
(* Properties.                                                             *)

Sources(t, j) == {j.srcs[i] : i \in DOMAIN j.srcs}
\* The operand that a path is under, and where a path under it goes.
Operand(t, p, j) == CHOOSE s \in Sources(t, j) : Under(p, s)
Goes(t, p, j) == LET s == Operand(t, p, j)
                 IN  Target(t, s, j) \o SubSeq(p, Len(s) + 1, Len(p))
Named(t, j) == {p \in DOMAIN t : \E s \in Sources(t, j) : Under(p, s)}
Places(t, j) == {p \in DOMAIN t : \E s \in Sources(t, j) : Under(p, Target(t, s, j))}

\* Where the code lets a failure pass and still returns 0:
\* - custom_mv.c:59 and :85 do not look whether unlink() and rmdir() of the
\*   source worked, so what cannot be removed is there twice;
\* - custom_rm.c:49 and :84 return 0 under -f for a directory that cannot be
\*   opened or removed, and so do the directories above it;
\* - custom_cp.c:117 and custom_mv.c:71 take any EEXIST of mkdir() for a
\*   directory: an empty one whose place is taken by a file is not copied, and
\*   custom_mv then removes it.
StaysBehind(t, p, j) == \E q \in DOMAIN t : Under(q, p) /\ (Refused(j, "unlink", q) \/ ~Writable(t, q))
PassedOver(t, p, j) ==
  "f" \in j.o /\ \E q \in DOMAIN t : /\ IsDir(t, q) /\ (Under(p, q) \/ Under(q, p))
                                     /\ Refused(j, "opendir", q) \/ ~Writable(t, q)
PlaceTaken(t, p, q) == IsDir(t, p) /\ Names(t, p) = {} /\ Exists(t, q) /\ ~IsDir(t, q)

\* custom_cp, custom_mv and custom_rm, whatever breaks off, is refused or is
\* declined: nothing outside the operands changes; of what is copied or moved
\* every directory and every byte is still at its old or at its new place; and
\* a status of 0 means that all was done, unless options ask to leave
\* something.  The exceptions are those above, and no others.
NothingLost(t, j) ==
  LET r == main(t, j)
      easy == j.o \cap {"n", "u", "i"} = {}
      named == Named(t, j)
      At(q, p) == Exists(r.t, q) /\ r.t[q].type = t[p].type /\ r.t[q].data = t[p].data
      Done(p) == LET q == Goes(t, p, j) IN At(q, p) \/ PlaceTaken(t, p, q)
  IN  CASE j.tool = "cp" ->
             /\ \A p \in DOMAIN t \ Places(t, j) : p \in DOMAIN r.t /\ r.t[p] = t[p]
             /\ r.ret = 0 /\ easy => \A p \in named : At(p, p) /\ Done(p)
        [] j.tool = "mv" ->
             /\ \A p \in DOMAIN t \ (named \cup Places(t, j)) : p \in DOMAIN r.t /\ r.t[p] = t[p]
             /\ \A p \in named : At(p, p) \/ Done(p)
             /\ r.ret = 0 /\ easy => \A p \in named : Done(p) /\ (p \in DOMAIN r.t =>
                                         p = Goes(t, p, j) \/ StaysBehind(t, p, j))
        [] j.tool = "rm" ->
             /\ \A p \in DOMAIN r.t : r.t[p] = t[p]
             /\ \A p \in DOMAIN t \ DOMAIN r.t :
                  p \in named /\ ("i" \in j.o => p \in j.yes)
                  /\ (t[p].ro /\ ~IsDir(t, p) /\ "f" \notin j.o => p \in j.yes)
             /\ r.ret = 0 /\ easy /\ j.yes = DOMAIN t =>
                  \A p \in named \cap DOMAIN r.t : PassedOver(t, p, j)
=============================================================================
