--------------------------------- MODULE Fs ---------------------------------
(* The inode layer and the file system calls of xv6 (kernel/fs.c, sysfile.c *)
(* and file.c): the block bitmap, the on-disk inodes and directories, the   *)
(* in-memory inode table with its reference counts and sleep locks, path    *)
(* lookup, and the open file table.                                        *)
(*                                                                         *)
(* Every call of a process is cut where another process can get in: between *)
(* two sleep locks.  What it does with a lock held, and gives up in the     *)
(* same breath, is one step.  A directory is the function from its names to *)
(* inode numbers; a file's data is the blocks that hold it.  The log (Log)  *)
(* makes the calls that run together durable as one: `durable' is what a    *)
(* crash goes back to.                                                     *)
EXTENDS Integers, FiniteSets, FiniteSetsExt, Sequences

CONSTANTS Procs,       \* processes
          NINODES,     \* inodes of the file system
          NBLOCKS,     \* data blocks
          NDIRECT,     \* direct block numbers of an inode
          NINDIRECT,   \* block numbers in an indirect block
          NFILE,       \* open files per system
          NOFILE,      \* open files per process
          Names,       \* file names other than "." and ".."
          Programs     \* what each process may do: calls with a path, and others

ASSUME FsAssumption ==
  /\ {NINODES, NBLOCKS, NDIRECT, NINDIRECT, NFILE, NOFILE} \subseteq Nat \ {0}
  /\ {".", ".."} \cap Names = {} /\ IsFiniteSet(Procs)
  /\ \A g \in Programs, p \in Procs : g.calls[p] \subseteq
       [op : {"open", "create", "link", "unlink", "mkdir", "mknod", "chdir"}, abs : BOOLEAN,
        path : Seq(Names \cup {".", ".."}),
        newabs : BOOLEAN, new : Seq(Names \cup {".", ".."}), mode : {"read", "write", "trunc"}]

VARIABLES disk,     \* the file system as the buffer cache has it
          durable,  \* the same, as of the last commit
          itable,   \* in-memory inodes, by inode number
          ftable,   \* open files
          ofile,    \* p->ofile
          cwd,      \* p->cwd, 0 for no process
          loc,      \* where a process is in its system call
          booted,   \* has ireclaim() finished?
          prog,     \* what the processes do in this behaviour
          strays    \* history: inodes reached out of a removed directory by
                    \* a call since the last time that no call was under way
fsVars == <<disk, durable, itable, ftable, ofile, cwd, loc, booted, prog>>
vars == <<disk, durable, itable, ftable, ofile, cwd, loc, booted, prog, strays>>

ROOTINO == 1
Inums   == 1 .. NINODES
Blocks  == 1 .. NBLOCKS
MAXFILE == NDIRECT + NINDIRECT
Entries == Names \cup {".", ".."}
NoEnts  == [n \in Entries |-> 0]
NoInode == [type |-> "none", nlink |-> 0, size |-> 0, addrs |-> [k \in 0 .. NDIRECT |-> 0]]
NoSlot  == [ref |-> 0, valid |-> FALSE, lock |-> {}, mem |-> NoInode]
NoFile  == [ref |-> 0, ip |-> 0, writable |-> FALSE]
NoCall  == [op |-> "none", abs |-> TRUE, path |-> <<>>, newabs |-> TRUE, new |-> <<>>,
            mode |-> "read"]
\* pc: the place in the call; ip, dp: the inodes it holds (dp, and ip where
\* pc says so, locked); old: link()'s first inode; rest: the path still to
\* walk; puts: the iput()s to do before pc; stage: how far the first of them is
Idle    == [pc |-> "idle", call |-> NoCall, ip |-> 0, dp |-> 0, old |-> 0,
            rest |-> <<>>, puts |-> <<>>, stage |-> "drop"]

Inode == [type : {"none", "file", "dir", "dev"}, nlink : Nat, size : 0 .. MAXFILE,
          addrs : [0 .. NDIRECT -> 0 .. NBLOCKS]]
FsImage == [inode : [Inums -> Inode], ents : [Inums -> [Entries -> 0 .. NINODES]],
            used : SUBSET Blocks, ind : [Blocks -> [0 .. NINDIRECT - 1 -> 0 .. NBLOCKS]],
            adrift : SUBSET Inums]

\* The kinds of value every variable keeps.
TypeOK ==
  /\ disk \in FsImage /\ durable \in FsImage
  /\ itable \in [Inums -> [ref : Nat, valid : BOOLEAN, lock : SUBSET Procs, mem : Inode]]
  /\ ftable \in [1 .. NFILE -> [ref : Nat, ip : 0 .. NINODES, writable : BOOLEAN]]
  /\ ofile \in [Procs -> [1 .. NOFILE -> 0 .. NFILE]]
  /\ cwd \in [Procs -> 0 .. NINODES]
  /\ \A p \in Procs : /\ {loc[p].ip, loc[p].dp, loc[p].old} \subseteq 0 .. NINODES
                      /\ loc[p].puts \in Seq(Inums) /\ Len(loc[p].puts) <= 2
  /\ booted \in BOOLEAN /\ prog \in Programs /\ strays \subseteq Inums

\* What mkfs leaves: a root directory, in one block, that no entry names.
Mkfs ==
  [inode |-> [i \in Inums |-> IF i = ROOTINO
                              THEN [type |-> "dir", nlink |-> 1, size |-> 1,
                                    addrs |-> [k \in 0 .. NDIRECT |-> IF k = 0 THEN 1 ELSE 0]]
                              ELSE NoInode],
   ents |-> [i \in Inums |-> IF i = ROOTINO
                             THEN [n \in Entries |-> IF n \in Names THEN 0 ELSE ROOTINO]
                             ELSE NoEnts],
   used |-> {1}, ind |-> [b \in Blocks |-> [k \in 0 .. NINDIRECT - 1 |-> 0]],
   adrift |-> {}]

-----------------------------------------------------------------------------
(* Blocks.                                                                 *)

\* balloc() and bzero(): the first free block, marked and cleared; 0 if none.
FirstFree(d) == IF d.used = Blocks THEN 0 ELSE Min(Blocks \ d.used)
\* Mutant of balloc: the block is not cleared.
ballocNoBzero(d) == IF FirstFree(d) = 0 THEN d ELSE [d EXCEPT !.used = @ \cup {FirstFree(d)}]
balloc(d) ==
  IF FirstFree(d) = 0 THEN d
  ELSE [d EXCEPT !.used = @ \cup {FirstFree(d)},
                 !.ind[FirstFree(d)] = [k \in 0 .. NINDIRECT - 1 |-> 0]]

\* bmap(): the block number of block bn of an inode, allocated if there is
\* none; addr is 0 if the disk is full.
bmap(d, m, bn) ==
  LET new  == FirstFree(d)
      has  == m.addrs[NDIRECT] # 0
      a    == IF has THEN m.addrs[NDIRECT] ELSE new
      d1   == IF has THEN d ELSE balloc(d)
      slot == d1.ind[a][bn - NDIRECT]
      leaf == FirstFree(d1)
      m1   == [m EXCEPT !.addrs[NDIRECT] = a]
  IN  IF bn < NDIRECT
      THEN IF m.addrs[bn] # 0
           THEN [d |-> d, m |-> m, addr |-> m.addrs[bn]]
           ELSE [d |-> balloc(d), m |-> [m EXCEPT !.addrs[bn] = new], addr |-> new]
      ELSE IF a = 0 THEN [d |-> d, m |-> m, addr |-> 0]
      ELSE IF slot # 0 THEN [d |-> d1, m |-> m1, addr |-> slot]
      ELSE IF leaf = 0 THEN [d |-> d1, m |-> m1, addr |-> 0]
      ELSE [d |-> [balloc(d1) EXCEPT !.ind[a][bn - NDIRECT] = leaf], m |-> m1, addr |-> leaf]

\* The places of inode m that name a block: its addrs, and the slots of its
\* indirect block.
Slots(d, m) ==
  {k \in 0 .. NDIRECT : m.addrs[k] # 0}
  \cup {k \in NDIRECT + 1 .. NDIRECT + NINDIRECT :
          m.addrs[NDIRECT] # 0 /\ d.ind[m.addrs[NDIRECT]][k - NDIRECT - 1] # 0}
BlockAt(d, m, k) == IF k <= NDIRECT THEN m.addrs[k] ELSE d.ind[m.addrs[NDIRECT]][k - NDIRECT - 1]

\* itrunc(): bfree() of every block the inode names, and the inode written.
itrunc(d, i, m) ==
  [d EXCEPT !.used = @ \ {BlockAt(d, m, k) : k \in Slots(d, m)},
            !.inode[i] = [m EXCEPT !.size = 0, !.addrs = NoInode.addrs],
            !.ents[i] = NoEnts]

\* writei() of one block at bn <= size; copied: either_copyin() gets the data.
\* The inode is written back whether or not the size changed, for bmap() may
\* have added a block to it.
writei(d, i, m, bn, copied) ==
  LET r  == bmap(d, m, bn)
      m1 == [r.m EXCEPT !.size = IF r.addr # 0 /\ copied /\ bn >= @ THEN bn + 1 ELSE @]
  IN  [r.d EXCEPT !.inode[i] = m1]

-----------------------------------------------------------------------------
(* The inode table.                                                        *)

\* iget(): one more reference.  The table is taken to have a slot for every
\* inode; with fewer a full one panics.
iget(t, i) == [t EXCEPT ![i].ref = @ + 1]

\* ilock(): wait for the lock, and read the inode if it is not in memory.
NoType(i)   == ~itable[i].valid /\ disk.inode[i].type = "none"
CanLock(i)  == itable[i].lock = {} /\ ~NoType(i)
Loaded(t, i) == IF t[i].valid THEN t
                ELSE [t EXCEPT ![i].valid = TRUE, ![i].mem = disk.inode[i]]
ilock(t, i, p) == [Loaded(t, i) EXCEPT ![i].lock = {p}]
iunlock(t, i)  == [t EXCEPT ![i].lock = {}]

\* iupdate(): the table's copy of inode i, and the disk's, become m.
InMemory(t, i, m) == [t EXCEPT ![i].mem = m]
iupdate(d, i, m)  == [d EXCEPT !.inode[i] = m]

\* A process gets to do its next step in place s when its iput()s are done.
Runs(p, s) == booted /\ loc[p].pc = s /\ loc[p].puts = <<>>
Goes(p, l) == loc' = [loc EXCEPT ![p] = l]

-----------------------------------------------------------------------------
(* iput(), end_op() and path lookup.                                       *)

\* iput(): drop a reference.  The last one to an inode that has no links
\* frees it: lock, truncate and write it with type 0, unlock it as no longer
\* valid, and only then drop the reference.
\* Mutant of LastPut: any iput() of an inode without links frees it.
LastPutAnyRef(i) == itable[i].valid /\ itable[i].mem.nlink = 0
LastPut(i) == itable[i].ref = 1 /\ itable[i].valid /\ itable[i].mem.nlink = 0
\* Mutant of Invalidate: the freed inode stays valid in the table.
InvalidateNot(t, i) == [t EXCEPT ![i].lock = {}]
Invalidate(t, i) == [t EXCEPT ![i].valid = FALSE, ![i].lock = {}]
iput(p) ==
  /\ booted /\ loc[p].puts # <<>>
  /\ LET l == loc[p]
         i == Head(l.puts)
     IN  \/ /\ l.stage = "drop" /\ LastPut(i) /\ itable[i].lock = {}
            /\ itable' = [itable EXCEPT ![i].lock = {p}]
            /\ Goes(p, [l EXCEPT !.stage = "trunc"])
            /\ UNCHANGED disk
         \/ /\ l.stage = "trunc"
            /\ disk' = [iupdate(itrunc(disk, i, itable[i].mem), i, NoInode)
                          EXCEPT !.adrift = @ \ {i}]
            /\ itable' = InMemory(itable, i, NoInode)
            /\ Goes(p, [l EXCEPT !.stage = "invalid"])
         \/ /\ l.stage = "invalid"
            /\ itable' = Invalidate(itable, i)
            /\ Goes(p, [l EXCEPT !.stage = "last"])
            /\ UNCHANGED disk
         \/ /\ l.stage = "last" \/ (l.stage = "drop" /\ ~LastPut(i))
            /\ itable' = IF itable[i].ref = 1 THEN [itable EXCEPT ![i] = NoSlot]
                         ELSE [itable EXCEPT ![i].ref = @ - 1]
            /\ Goes(p, [l EXCEPT !.stage = "drop", !.puts = Tail(@)])
            /\ UNCHANGED disk
  /\ UNCHANGED <<durable, ftable, ofile, cwd, booted>>

\* end_op(): the last call to end commits for all.
InOp(p) == loc[p].pc \notin {"idle", "exit"}
Commit(p) == durable' = IF \E q \in Procs \ {p} : InOp(q) THEN durable ELSE disk
EndOp(p) ==
  /\ Runs(p, "end")
  /\ Commit(p)
  /\ Goes(p, IF loc[p].call.op = "exit" THEN [Idle EXCEPT !.pc = "exit", !.call = loc[p].call]
             ELSE Idle)
  /\ UNCHANGED <<disk, itable, ftable, ofile, cwd, booted>>

\* A process enters a call: begin_op(), and namex() starts at the root or at
\* a new reference to the current directory.
Begin(p, c) ==
  /\ Runs(p, "idle") /\ cwd[p] # 0
  /\ LET s == IF c.abs THEN ROOTINO ELSE cwd[p] IN
     /\ itable' = iget(itable, s)
     /\ Goes(p, [Idle EXCEPT !.pc = "walk", !.call = c, !.ip = s, !.rest = c.path])
  /\ UNCHANGED <<disk, durable, ftable, ofile, cwd, booted>>

\* One round of namex(): with only the directory locked, look up the next
\* name and take a reference to what it names; then drop the directory.
\* nameiparent() stops one name early, with the directory unlocked.
ForParent(l) == l.old # 0 \/ l.call.op \in {"create", "mkdir", "mknod", "unlink"}
namex(p) ==
  /\ Runs(p, "walk")
  /\ LET l     == loc[p]
         i     == l.ip
         fails == [l EXCEPT !.pc = IF l.old # 0 THEN "undo" ELSE "end", !.ip = 0, !.puts = <<i>>]
         next  == disk.ents[i][Head(l.rest)]
     IN  \/ /\ l.rest = <<>>
            /\ Goes(p, IF ForParent(l) THEN fails ELSE [l EXCEPT !.pc = "found"])
            /\ UNCHANGED itable
         \/ /\ l.rest # <<>> /\ CanLock(i)
            /\ LET t == Loaded(itable, i) IN
               IF t[i].mem.type # "dir" THEN Goes(p, fails) /\ itable' = t
               ELSE IF ForParent(l) /\ Len(l.rest) = 1
                    THEN Goes(p, [l EXCEPT !.pc = "found"]) /\ itable' = t
               ELSE IF next = 0 THEN Goes(p, fails) /\ itable' = t
               ELSE /\ Goes(p, [l EXCEPT !.ip = next, !.rest = Tail(@), !.puts = <<i>>])
                    /\ itable' = iget(t, next)
  /\ UNCHANGED <<disk, durable, ftable, ofile, cwd, booted>>

\* The step of call op that follows its lookup, with the found inode locked.
Found(p, ops) == Runs(p, "found") /\ loc[p].call.op \in ops /\ CanLock(loc[p].ip)
\* A call gives up, or is done, and drops the inodes in s.
Ends(p, s) == Goes(p, [loc[p] EXCEPT !.pc = "end", !.ip = 0, !.dp = 0, !.old = 0,
                                     !.rest = <<>>, !.puts = s])

-----------------------------------------------------------------------------
(* The system calls.                                                       *)

\* dirlink() needs a free slot in the directory: it can fail only for want of
\* a block to extend the directory with.
Rooms(d) == IF FirstFree(d) = 0 THEN BOOLEAN ELSE {TRUE}
\* Inodes entered in a directory that has been removed: no path leads there.
Astray(d, dir, is) == IF dir.nlink = 0 THEN [d EXCEPT !.adrift = @ \cup is] ELSE d

\* sys_link(), first half: count the new link before it is there.
LinkInc(p) ==
  /\ Found(p, {"link"}) /\ loc[p].old = 0
  /\ LET l == loc[p]
         t == Loaded(itable, l.ip)
         m == [t[l.ip].mem EXCEPT !.nlink = @ + 1]
         s == IF l.call.newabs THEN ROOTINO ELSE cwd[p]
     IN  IF m.type = "dir" THEN Ends(p, <<l.ip>>) /\ itable' = t /\ UNCHANGED disk
         ELSE /\ disk' = iupdate(disk, l.ip, m)
              /\ itable' = iget(InMemory(t, l.ip, m), s)
              /\ Goes(p, [l EXCEPT !.pc = "walk", !.old = l.ip, !.ip = s, !.rest = l.call.new])
  /\ UNCHANGED <<durable, ftable, ofile, cwd, booted>>

\* sys_link(), second half: enter the name, or go and take the link back.
LinkEnter(p) ==
  /\ Found(p, {"link"}) /\ loc[p].old # 0
  /\ LET l    == loc[p]
         t    == Loaded(itable, l.ip)
         name == Head(l.rest)
     IN  /\ itable' = t
         /\ \E room \in Rooms(disk) :
              IF disk.ents[l.ip][name] # 0 \/ ~room
              THEN Goes(p, [l EXCEPT !.pc = "undo", !.ip = 0, !.rest = <<>>, !.puts = <<l.ip>>])
                   /\ UNCHANGED disk
              ELSE /\ disk' = Astray([disk EXCEPT !.ents[l.ip][name] = l.old], t[l.ip].mem, {l.old})
                   /\ Ends(p, <<l.ip, l.old>>)
  /\ UNCHANGED <<durable, ftable, ofile, cwd, booted>>

\* sys_link(), "bad": the link that was counted is not there.
\* Mutant of LinkUndo: the count is not taken back.
LinkUndoNot(p) ==
  /\ Runs(p, "undo") /\ CanLock(loc[p].old)
  /\ itable' = Loaded(itable, loc[p].old) /\ Ends(p, <<loc[p].old>>)
  /\ UNCHANGED <<disk, durable, ftable, ofile, cwd, booted>>
LinkUndo(p) ==
  /\ Runs(p, "undo") /\ CanLock(loc[p].old)
  /\ LET i == loc[p].old
         t == Loaded(itable, i)
         m == [t[i].mem EXCEPT !.nlink = @ - 1]
     IN  disk' = iupdate(disk, i, m) /\ itable' = InMemory(t, i, m) /\ Ends(p, <<i>>)
  /\ UNCHANGED <<durable, ftable, ofile, cwd, booted>>

\* sys_unlink() up to its second ilock(): the directory stays locked.
\* Mutant of Undeletable: ".." can be unlinked.
UnlinksDotDot(n) == n = "."
Undeletable(n) == n \in {".", ".."}
UnlinkParent(p) ==
  /\ Found(p, {"unlink"})
  /\ LET l  == loc[p]
         ip == disk.ents[l.ip][Head(l.rest)]
     IN  IF Undeletable(Head(l.rest)) \/ ip = 0
         THEN Ends(p, <<l.ip>>) /\ itable' = Loaded(itable, l.ip)
         ELSE /\ itable' = iget(ilock(itable, l.ip, p), ip)
              /\ Goes(p, [l EXCEPT !.pc = "unlink", !.dp = l.ip, !.ip = ip])
  /\ UNCHANGED <<disk, durable, ftable, ofile, cwd, booted>>

\* The entry goes, and the directory is dropped with the inode still locked.
\* Mutant of Unlinked: the parent loses a link for every entry.
UnlinkedAnyType(m, t) == [m EXCEPT !.nlink = @ - 1]
Unlinked(m, t) == [m EXCEPT !.nlink = IF t = "dir" THEN @ - 1 ELSE @]
isdirempty(i) == \A n \in Names : disk.ents[i][n] = 0
UnlinkEntry(p) ==
  /\ Runs(p, "unlink") /\ CanLock(loc[p].ip)
  /\ LET l  == loc[p]
         t  == ilock(itable, l.ip, p)
         m  == t[l.ip].mem
         dm == Unlinked(t[l.dp].mem, m.type)
     IN  /\ m.nlink > 0
         /\ IF m.type = "dir" /\ ~isdirempty(l.ip)
            THEN /\ itable' = iunlock(t, l.ip)
                 /\ Goes(p, [l EXCEPT !.pc = "bad", !.ip = 0, !.puts = <<l.ip>>])
                 /\ UNCHANGED disk
            ELSE /\ disk' = [iupdate(disk, l.dp, dm) EXCEPT !.ents[l.dp][Head(l.rest)] = 0]
                 /\ itable' = iunlock(InMemory(t, l.dp, dm), l.dp)
                 /\ Goes(p, [l EXCEPT !.pc = "unlinked", !.dp = 0, !.puts = <<l.dp>>])
  /\ UNCHANGED <<durable, ftable, ofile, cwd, booted>>

UnlinkDone(p) ==
  /\ Runs(p, "unlinked")
  /\ LET i == loc[p].ip
         m == [itable[i].mem EXCEPT !.nlink = @ - 1]
     IN  /\ disk' = iupdate(disk, i, m)
         /\ itable' = iunlock(InMemory(itable, i, m), i)
         /\ Ends(p, <<i>>)
  /\ UNCHANGED <<durable, ftable, ofile, cwd, booted>>

\* A call that failed below a locked directory lets go of it.
UnlockParent(p) ==
  /\ Runs(p, "bad")
  /\ itable' = iunlock(itable, loc[p].dp)
  /\ Ends(p, <<loc[p].dp>>)
  /\ UNCHANGED <<disk, durable, ftable, ofile, cwd, booted>>

\* create() up to its ialloc(): an existing inode is locked only after the
\* directory is let go; for a new one the directory stays locked, and the
\* first free inode on disk is marked with its type.
Creating == {"create", "mkdir", "mknod"}
TypeFor(op) == CASE op = "mkdir" -> "dir" [] op = "mknod" -> "dev" [] OTHER -> "file"
FreeInums == {i \in Inums : disk.inode[i].type = "none"}
CreateParent(p) ==
  /\ Found(p, Creating)
  /\ LET l   == loc[p]
         old == disk.ents[l.ip][Head(l.rest)]
         new == Min(FreeInums)
     IN  IF old # 0
         THEN /\ itable' = iget(Loaded(itable, l.ip), old)
              /\ Goes(p, [l EXCEPT !.pc = "exists", !.ip = old, !.rest = <<>>, !.puts = <<l.ip>>])
              /\ UNCHANGED disk
         ELSE IF FreeInums = {}
         THEN Ends(p, <<l.ip>>) /\ itable' = Loaded(itable, l.ip) /\ UNCHANGED disk
         ELSE /\ disk' = iupdate(disk, new, [NoInode EXCEPT !.type = TypeFor(l.call.op)])
              /\ itable' = ilock(itable, l.ip, p)
              /\ Goes(p, [l EXCEPT !.pc = "iget", !.dp = l.ip, !.ip = new])
  /\ UNCHANGED <<durable, ftable, ofile, cwd, booted>>

\* The end of ialloc(): the marked inode gets its slot in the table.
ialloc(p) ==
  /\ Runs(p, "iget")
  /\ itable' = iget(itable, loc[p].ip)
  /\ Goes(p, [loc[p] EXCEPT !.pc = "create"])
  /\ UNCHANGED <<disk, durable, ftable, ofile, cwd, booted>>

\* create() with the directory and the new inode locked: ".", ".." and the
\* entry, or back to an inode without links.
create(p) ==
  /\ Runs(p, "create") /\ CanLock(loc[p].ip)
  /\ LET l    == loc[p]
         dir  == l.call.op = "mkdir"
         t    == ilock(itable, l.ip, p)
         m    == [t[l.ip].mem EXCEPT !.nlink = 1]
         d    == IF dir THEN writei(disk, l.ip, m, 0, TRUE) ELSE iupdate(disk, l.ip, m)
         dots == [NoEnts EXCEPT !["."] = l.ip, ![".."] = l.dp]
         dm   == [t[l.dp].mem EXCEPT !.nlink = IF dir THEN @ + 1 ELSE @]
         mine == {l.ip} \cup (IF dir THEN {l.dp} ELSE {})
     IN  \E room \in Rooms(d) :
           IF (dir /\ d.inode[l.ip].size = 0) \/ ~room
           THEN LET n == [d.inode[l.ip] EXCEPT !.nlink = 0] IN
                /\ disk' = iupdate(d, l.ip, n)
                /\ itable' = iunlock(InMemory(t, l.ip, n), l.ip)
                /\ Goes(p, [l EXCEPT !.pc = "bad", !.ip = 0, !.puts = <<l.ip>>])
           ELSE /\ disk' = Astray([iupdate(d, l.dp, dm) EXCEPT
                                     !.ents[l.dp][Head(l.rest)] = l.ip,
                                     !.ents[l.ip] = IF dir THEN dots ELSE NoEnts], t[l.dp].mem, mine)
                /\ itable' = iunlock(InMemory(InMemory(t, l.ip, d.inode[l.ip]), l.dp, dm), l.dp)
                /\ Goes(p, [l EXCEPT !.pc = "created", !.dp = 0, !.rest = <<>>, !.puts = <<l.dp>>])
  /\ UNCHANGED <<durable, ftable, ofile, cwd, booted>>

\* create() of a name that is there: good enough for open() of a file.
\* Mutant of CreateExists: the inode of the wrong type is not put.
CreateExistsNoPut(p) ==
  /\ Runs(p, "exists") /\ CanLock(loc[p].ip)
  /\ itable' = Loaded(itable, loc[p].ip) /\ Ends(p, <<>>)
  /\ UNCHANGED <<disk, durable, ftable, ofile, cwd, booted>>
CreateExists(p) ==
  /\ Runs(p, "exists") /\ CanLock(loc[p].ip)
  /\ LET l == loc[p]
         t == Loaded(itable, l.ip)
     IN  IF l.call.op = "create" /\ t[l.ip].mem.type \in {"file", "dev"}
         THEN itable' = ilock(itable, l.ip, p) /\ Goes(p, [l EXCEPT !.pc = "created"])
         ELSE itable' = t /\ Ends(p, <<l.ip>>)
  /\ UNCHANGED <<disk, durable, ftable, ofile, cwd, booted>>

\* sys_mkdir() and sys_mknod() after create().
MkdirDone(p) ==
  /\ Runs(p, "created") /\ loc[p].call.op # "create"
  /\ itable' = iunlock(itable, loc[p].ip)
  /\ Ends(p, <<loc[p].ip>>)
  /\ UNCHANGED <<disk, durable, ftable, ofile, cwd, booted>>

\* sys_open() with the inode locked: filealloc(), fdalloc() and O_TRUNC.  The
\* open file takes over the reference.  nodev: the major number, which is not
\* kept here, is out of range.
FreeFiles == {f \in 1 .. NFILE : ftable[f].ref = 0}
FreeFds(p) == {fd \in 1 .. NOFILE : ofile[p][fd] = 0}
sys_open(p) ==
  /\ \/ Found(p, {"open"})
     \/ Runs(p, "created") /\ loc[p].call.op = "create"
  /\ LET l == loc[p]
         t == iunlock(Loaded(itable, l.ip), l.ip)
         m == t[l.ip].mem
         f == Min(FreeFiles)
         d == itrunc(disk, l.ip, m)
         trunc == l.call.mode = "trunc" /\ m.type = "file"
     IN  \E nodev \in BOOLEAN :
           IF \/ m.type = "dir" /\ l.call.mode # "read"
              \/ m.type = "dev" /\ nodev
              \/ FreeFiles = {} \/ FreeFds(p) = {}
           THEN itable' = t /\ Ends(p, <<l.ip>>) /\ UNCHANGED <<disk, ftable, ofile>>
           ELSE /\ ftable' = [ftable EXCEPT ![f] = [ref |-> 1, ip |-> l.ip,
                                                    writable |-> l.call.mode # "read"]]
                /\ ofile' = [ofile EXCEPT ![p][Min(FreeFds(p))] = f]
                /\ disk' = IF trunc THEN d ELSE disk
                /\ itable' = IF trunc THEN InMemory(t, l.ip, d.inode[l.ip]) ELSE t
                /\ Ends(p, <<>>)
  /\ UNCHANGED <<durable, cwd, booted>>

\* sys_chdir(): the old directory is dropped inside the call, the new one
\* kept after it.
Chdir(p) ==
  /\ Found(p, {"chdir"})
  /\ LET l == loc[p]
         t == Loaded(itable, l.ip)
     IN  /\ itable' = t
         /\ IF t[l.ip].mem.type # "dir" THEN Ends(p, <<l.ip>>)
            ELSE Goes(p, [l EXCEPT !.pc = "chdir", !.puts = <<cwd[p]>>])
  /\ UNCHANGED <<disk, durable, ftable, ofile, cwd, booted>>
ChdirDone(p) ==
  /\ Runs(p, "chdir")
  /\ Commit(p)
  /\ cwd' = [cwd EXCEPT ![p] = loc[p].ip]
  /\ Goes(p, Idle)
  /\ UNCHANGED <<disk, itable, ftable, ofile, booted>>

\* One round of filewrite_inode(): a transaction of its own that writes a
\* block at the offset, which is at most the size, or cannot read the data.  A
\* write of several rounds is several of these.
filewrite(p) ==
  /\ Runs(p, "idle") /\ "write" \in prog.also
  /\ \E fd \in 1 .. NOFILE, bn \in 0 .. MAXFILE - 1, copied \in BOOLEAN :
       LET f == ftable[ofile[p][fd]]
           t == Loaded(itable, f.ip)
           m == t[f.ip].mem
           d == writei(disk, f.ip, m, bn, copied)
       IN  /\ ofile[p][fd] # 0 /\ f.writable /\ CanLock(f.ip)
           /\ m.type = "file" /\ bn <= m.size
           /\ disk' = d
           /\ itable' = InMemory(t, f.ip, d.inode[f.ip])
  /\ Goes(p, [Idle EXCEPT !.pc = "end"])
  /\ UNCHANGED <<durable, ftable, ofile, cwd, booted>>

\* fileclose(): the last close() of a file drops its inode in a transaction.
CloseFd(p, fd, l) ==
  LET f == ofile[p][fd] IN
  /\ f # 0
  /\ ofile' = [ofile EXCEPT ![p][fd] = 0]
  /\ IF ftable[f].ref > 1
     THEN ftable' = [ftable EXCEPT ![f].ref = @ - 1] /\ UNCHANGED loc
     ELSE ftable' = [ftable EXCEPT ![f] = NoFile]
          /\ Goes(p, [l EXCEPT !.pc = "end", !.puts = <<ftable[f].ip>>])
  /\ UNCHANGED <<disk, durable, itable, cwd, booted>>
sys_close(p) == Runs(p, "idle") /\ \E fd \in 1 .. NOFILE : CloseFd(p, fd, Idle)

sys_dup(p) ==
  /\ Runs(p, "idle") /\ "dup" \in prog.also /\ FreeFds(p) # {}
  /\ \E fd \in 1 .. NOFILE :
       /\ ofile[p][fd] # 0
       /\ ftable' = [ftable EXCEPT ![ofile[p][fd]].ref = @ + 1]
       /\ ofile' = [ofile EXCEPT ![p][Min(FreeFds(p))] = ofile[p][fd]]
  /\ UNCHANGED <<disk, durable, itable, cwd, loc, booted>>

\* kfork(): the child shares the open files and the current directory.
kfork(p, q) ==
  /\ Runs(p, "idle") /\ cwd[p] # 0 /\ Runs(q, "idle") /\ cwd[q] = 0
  /\ ofile' = [ofile EXCEPT ![q] = ofile[p]]
  /\ ftable' = [f \in DOMAIN ftable |->
                  [ftable[f] EXCEPT !.ref = @ + Cardinality({fd \in 1 .. NOFILE : ofile[p][fd] = f})]]
  /\ cwd' = [cwd EXCEPT ![q] = cwd[p]]
  /\ itable' = iget(itable, cwd[p])
  /\ UNCHANGED <<disk, durable, loc, booted>>

\* kexit(): close every file, then drop the current directory.
ExitCall == [NoCall EXCEPT !.op = "exit"]
kexit(p) ==
  \/ /\ Runs(p, "idle") /\ "fork" \in prog.also /\ cwd[p] # 0
     /\ \E q \in Procs \ {p} : cwd[q] # 0 /\ loc[q].call.op # "exit"
     /\ Goes(p, [Idle EXCEPT !.pc = "exit", !.call = ExitCall])
     /\ UNCHANGED <<disk, durable, itable, ftable, ofile, cwd, booted>>
  \/ Runs(p, "exit") /\ \E fd \in 1 .. NOFILE : CloseFd(p, fd, loc[p])
  \/ /\ Runs(p, "exit") /\ FreeFds(p) = 1 .. NOFILE
     /\ IF cwd[p] # 0
        THEN /\ Goes(p, [loc[p] EXCEPT !.pc = "end", !.puts = <<cwd[p]>>])
             /\ cwd' = [cwd EXCEPT ![p] = 0]
        ELSE Goes(p, Idle) /\ UNCHANGED cwd
     /\ UNCHANGED <<disk, durable, itable, ftable, ofile, booted>>

-----------------------------------------------------------------------------
(* Panics, crashes and start-up.                                           *)

\* The inode a process is about to ilock().
Wants(p) ==
  CASE loc[p].puts # <<>> -> 0
    [] loc[p].pc = "walk" -> IF loc[p].rest = <<>> THEN 0 ELSE loc[p].ip
    [] loc[p].pc \in {"found", "unlink", "create", "exists"} -> loc[p].ip
    [] loc[p].pc = "undo" -> loc[p].old
    [] OTHER -> 0
\* ilock() of an inode that is free on disk, unlink() of one without links,
\* dirlookup() in one that is no directory.  Nothing runs after panic().
Panics(p) ==
  LET m == Loaded(itable, Wants(p))[Wants(p)].mem
  IN  /\ Wants(p) # 0 /\ itable[Wants(p)].lock = {}
      /\ \/ NoType(Wants(p))
         \/ loc[p].pc = "unlink" /\ m.nlink < 1
         \/ loc[p].pc = "found" /\ ForParent(loc[p]) /\ m.type # "dir"
panic(p) == booted /\ Panics(p) /\ UNCHANGED fsVars

\* The name by which a process came to its inode, and the inodes that somebody
\* came to by the ".." of a directory whose parent has been freed since.
LastName(l) ==
  LET path == IF l.old # 0 THEN l.call.new ELSE l.call.path
      k    == Len(path) - Len(l.rest)
  IN  IF k = 0 THEN "." ELSE path[k]
Strayed ==
  {loc[p].ip : p \in {q \in Procs : /\ loc[q].pc \in {"walk", "found", "exists"}
                                    /\ ~itable[loc[q].ip].valid
                                    /\ disk.inode[loc[q].ip].nlink = 0
                                    /\ LastName(loc[q]) = ".."}}

\* What a boot leaves: processes at the root, and nothing open.
FreshTable == [i \in Inums |-> IF i = ROOTINO THEN [NoSlot EXCEPT !.ref = Cardinality(Procs)]
                               ELSE NoSlot]
FreshFiles == [f \in 1 .. NFILE |-> NoFile]
FreshFds   == [p \in Procs |-> [fd \in 1 .. NOFILE |-> 0]]
FreshCwd   == [p \in Procs |-> ROOTINO]

\* Power is lost and comes back: recovery leaves the last committed state.
Crash ==
  /\ "crash" \in prog.also
  /\ disk' = durable /\ UNCHANGED durable
  /\ itable' = FreshTable /\ ftable' = FreshFiles /\ ofile' = FreshFds
  /\ cwd' = FreshCwd /\ loc' = [p \in Procs |-> Idle]
  /\ booted' = FALSE

\* ireclaim(), before any call is made: an inode that lost its last link
\* while it was open is freed now, each in a transaction.
Orphans == {i \in Inums : disk.inode[i].type # "none" /\ disk.inode[i].nlink = 0}
ireclaim ==
  /\ ~booted
  /\ IF Orphans = {} THEN booted' = TRUE /\ UNCHANGED <<disk, durable>>
     ELSE LET i == Min(Orphans) IN
          /\ disk' = [iupdate(itrunc(disk, i, disk.inode[i]), i, NoInode) EXCEPT !.adrift = @ \ {i}]
          /\ durable' = disk' /\ UNCHANGED booted
  /\ UNCHANGED <<itable, ftable, ofile, cwd, loc>>

Init ==
  /\ disk = Mkfs /\ durable = Mkfs
  /\ itable = FreshTable /\ ftable = FreshFiles /\ ofile = FreshFds
  /\ cwd = FreshCwd /\ loc = [p \in Procs |-> Idle]
  /\ booted = FALSE /\ prog \in Programs /\ strays = {}

Step(p) ==
  \/ iput(p) \/ EndOp(p) \/ namex(p) \/ \E c \in prog.calls[p] : Begin(p, c)
  \/ LinkInc(p) \/ LinkEnter(p) \/ LinkUndo(p)
  \/ UnlinkParent(p) \/ UnlinkEntry(p) \/ UnlinkDone(p) \/ UnlockParent(p)
  \/ CreateParent(p) \/ ialloc(p) \/ create(p) \/ CreateExists(p) \/ MkdirDone(p)
  \/ sys_open(p) \/ Chdir(p) \/ ChdirDone(p)
  \/ filewrite(p) \/ sys_close(p) \/ sys_dup(p) \/ kexit(p) \/ \E q \in Procs : kfork(p, q)

Next ==
  /\ (\E p \in Procs : Step(p) \/ panic(p)) \/ Crash \/ ireclaim
  /\ UNCHANGED prog /\ strays' = IF \E p \in Procs : InOp(p)' THEN strays \cup Strayed' ELSE {}

Spec == Init /\ [][Next]_vars

-----------------------------------------------------------------------------
(* Properties.                                                             *)

\* balloc(), bfree(), bmap(), itrunc() and writei() together: every block
\* marked in the bitmap is named by exactly one place of exactly one inode,
\* no free block is named, and every block below the size of an inode is
\* there, so readi() never has to allocate.  In particular bfree() never
\* meets a free block, and no block leaks, on the disk as on its log.
BlocksOwnedOnce ==
  \A d \in {disk, durable} :
    LET named == UNION {{<<i, k>> : k \in Slots(d, d.inode[i])} : i \in Inums}
        at(r) == BlockAt(d, d.inode[r[1]], r[2])
    IN  /\ {at(r) : r \in named} = d.used
        /\ Cardinality(named) = Cardinality(d.used)
        /\ \A i \in Inums : \A bn \in 0 .. d.inode[i].size - 1 :
             bmap(d, d.inode[i], bn).d = d

\* fs.h says of nlink "Number of links to inode in file system": whenever the
\* log commits, the nlink of every inode is the number of entries that name
\* it, and for a directory one more for the ".." of every directory in it.
\* The exceptions are inodes entered in a directory after rmdir removed it,
\* which create() and link() do not check for.
LinksCounted ==
  \A i \in Inums \ durable.adrift :
    LET In(j, n) == durable.inode[j].type = "dir" /\ durable.ents[j][n] = i
        entries  == {r \in Inums \X Names : In(r[1], r[2])}
        children == {j \in Inums \ ({ROOTINO, i} \cup durable.adrift) :
                       In(j, "..") /\ durable.inode[j].nlink > 0}
        root     == IF i = ROOTINO THEN 1 ELSE 0
    IN  durable.inode[i].type # "none" =>
          durable.inode[i].nlink = Cardinality(entries) + Cardinality(children) + root

\* The struct inode pointers of a process that is at l, with current
\* directory c: c, the inodes its call works with, and those yet to iput().
Pointers == {"cwd", "ip", "dp", "old", "put", "next"}
Pointer(l, c, h) ==
  CASE h = "cwd"  -> IF l.pc = "chdir" THEN 0 ELSE c
    [] h = "ip"   -> IF l.pc = "iget" THEN 0 ELSE l.ip
    [] h = "dp"   -> l.dp
    [] h = "old"  -> l.old
    [] h = "put"  -> IF l.puts = <<>> THEN 0 ELSE l.puts[1]
    [] h = "next" -> IF Len(l.puts) < 2 THEN 0 ELSE l.puts[2]

\* ip->ref counts the pointers to an inode, those of processes and of open
\* files, and f->ref the descriptors that stand for an open file.
Held(ls, cs, i) == {r \in Procs \X Pointers : Pointer(ls[r[1]], cs[r[1]], r[2]) = i}
Opens(fs, i) == {f \in 1 .. NFILE : fs[f].ref > 0 /\ fs[f].ip = i}
Fds(os, f) == {r \in Procs \X (1 .. NOFILE) : os[r[1]][r[2]] = f}
RefsCounted ==
  /\ \A i \in Inums :
       itable[i].ref = Cardinality(Opens(ftable, i)) + Cardinality(Held(loc, cwd, i))
  /\ \A f \in 1 .. NFILE : ftable[f].ref = Cardinality(Fds(ofile, f))

\* A table entry that is valid and not locked is the inode on disk: nobody
\* works with the type, links or blocks of an earlier life of the inode.
CacheCoherent ==
  \A i \in Inums : itable[i].valid /\ itable[i].lock = {} => itable[i].mem = disk.inode[i]

\* What iput()'s comment says of the lock of an inode that has no links and
\* whose last reference it drops: "this acquiresleep() won't block (or
\* deadlock)".
LastPutIsFree ==
  \A p \in Procs : loc[p].puts # <<>> /\ loc[p].stage = "drop" =>
    LET i == Head(loc[p].puts) IN LastPut(i) => itable[i].lock = {}

\* The sleep locks of inodes, taken parent first: no set of processes wait
\* for each other's, and iput() waits for none.
NoLockCycle ==
  /\ \A S \in SUBSET Procs \ {{}} :
       \E p \in S : Wants(p) = 0 \/ itable[Wants(p)].lock \cap S = {}
  /\ LastPutIsFree

\* An inode without links is freed by the last iput(), or after a crash by
\* ireclaim(): between calls only open files and current directories keep it.
UnlinkedFreed ==
  booted /\ (\A p \in Procs : ~InOp(p)) => \A i \in Orphans : itable[i].ref > 0

\* The one way to a panic of ilock(), unlink() and dirlookup() is a ".." that
\* leads out of a removed directory to a parent that is gone as well: ilock()
\* finds that inode free, or whoever is creating it finds it freed again by the
\* iput() of the call that strayed there.
OnlyStaleDotDotPanics ==
  booted => \A p \in Procs : Panics(p) => NoType(Wants(p)) /\ Wants(p) \in strays
=============================================================================
