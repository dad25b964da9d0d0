------------------------------- MODULE FsInv --------------------------------
(***************************************************************************)
(* The invariant of the file system (module Fs) that its proofs rest on, and*)
(* the shapes of its steps that they speak of.                             *)
(***************************************************************************)
EXTENDS Fs

Places == {"idle", "walk", "found", "undo", "unlink", "unlinked", "bad", "iget", "create",
           "exists", "created", "chdir", "end", "exit"}

Stages == {"drop", "trunc", "invalid", "last"}

AnyInode == [type : {"none", "file", "dir", "dev"}, nlink : Int, size : 0 .. MAXFILE,
             addrs : [0 .. NDIRECT -> 0 .. NBLOCKS]]

AnyImage == [inode : [Inums -> AnyInode], ents : [Inums -> [Entries -> 0 .. NINODES]],
             used : SUBSET Blocks, ind : [Blocks -> [0 .. NINDIRECT - 1 -> 0 .. NBLOCKS]],
             adrift : SUBSET Inums]

Tables == [Inums -> [ref : Int, valid : BOOLEAN, lock : SUBSET Procs, mem : AnyInode]]

Calls == [op : {"open", "create", "link", "unlink", "mkdir", "mknod", "chdir", "none", "exit"},
          abs : BOOLEAN, path : Seq(Entries), newabs : BOOLEAN, new : Seq(Entries),
          mode : {"read", "write", "trunc"}]

Locs == [pc : Places, call : Calls, ip : 0 .. NINODES, dp : 0 .. NINODES, old : 0 .. NINODES,
         rest : Seq(Entries), puts : Seq(Inums), stage : Stages]

\* The types, without the bounds that only hold of well-behaved counts.
Shape ==
  /\ disk \in AnyImage /\ durable \in AnyImage /\ itable \in Tables
  /\ ftable \in [1 .. NFILE -> [ref : Int, ip : 0 .. NINODES, writable : BOOLEAN]]
  /\ ofile \in [Procs -> [1 .. NOFILE -> 0 .. NFILE]]
  /\ cwd \in [Procs -> 0 .. NINODES] /\ loc \in [Procs -> Locs]
  /\ booted \in BOOLEAN /\ prog \in Programs

\* Which inodes a process holds at which place of its call.
RolesOf(l) ==
  /\ l.ip # 0 <=> l.pc \in {"walk", "found", "unlink", "unlinked", "iget", "create",
                            "exists", "created", "chdir"}
  /\ l.dp # 0 <=> l.pc \in {"unlink", "bad", "iget", "create"}
  /\ l.old # 0 => l.pc \in {"walk", "found", "undo"} /\ l.call.op = "link"
  /\ l.pc = "undo" => l.old # 0
  /\ l.pc \in {"unlink", "iget", "create"} \/ (l.pc = "found" /\ ForParent(l)) => l.rest # <<>>
  /\ l.pc \in {"idle", "exit"} => l.puts = <<>>
  /\ Len(l.puts) <= 2
  /\ l.puts = <<>> => l.stage = "drop"

\* The same of all processes; one without a directory has no files.
Roles ==
  /\ \A p \in Procs : RolesOf(loc[p])
  /\ \A p \in Procs : cwd[p] = 0 =>
       loc[p].pc \in {"idle", "end", "exit"} /\ \A fd \in 1 .. NOFILE : ofile[p][fd] = 0
  /\ \A f \in 1 .. NFILE : ftable[f].ref > 0 => ftable[f].ip # 0
  /\ ~booted => \A p \in Procs : loc[p] = Idle

\* The process is in iput(i).
Putting(l, i) == l.puts # <<>> /\ l.puts[1] = i

\* The inodes that a process at l has locked.
LockedAt(l, i) ==
  \/ l.dp = i
  \/ l.pc \in {"unlinked", "created"} /\ l.ip = i
  \/ l.stage \in {"trunc", "invalid"} /\ Putting(l, i)

\* ip->lock is held by who is at a place between ilock() and iunlock(), by one
\* process at a time, and only of a valid inode.
Locks ==
  /\ \A i \in Inums, p \in Procs : p \in itable[i].lock <=> LockedAt(loc[p], i)
  /\ \A i \in Inums, p, q \in Procs : p \in itable[i].lock /\ q \in itable[i].lock => p = q
  /\ \A i \in Inums, p \in Procs : p \in itable[i].lock => itable[i].valid
  /\ \A p \in Procs, i \in Inums : loc[p].stage \in {"trunc", "invalid"} /\ Putting(loc[p], i) =>
       loc[p].dp # i /\ (loc[p].pc \in {"unlinked", "created"} => loc[p].ip # i)

\* A valid inode is the one on disk, except while iput() has freed it.
Coherent ==
  /\ \A i \in Inums : itable[i].valid =>
       \/ itable[i].mem = disk.inode[i] /\ disk.inode[i].type # "none"
       \/ \E p \in Procs : loc[p].stage = "invalid" /\ Putting(loc[p], i)
  /\ ~booted => \A i \in Inums : ~itable[i].valid

\* Block k of inode m, as bmap() numbers them but with the indirect block
\* itself at NDIRECT; 0 if there is none.
Ks == 0 .. NDIRECT + NINDIRECT

Blk(d, m, k) ==
  IF k <= NDIRECT THEN m.addrs[k]
  ELSE IF m.addrs[NDIRECT] = 0 THEN 0 ELSE d.ind[m.addrs[NDIRECT]][k - NDIRECT - 1]

Place(bn) == IF bn < NDIRECT THEN bn ELSE bn + 1

\* The blocks in use are those that inodes name, each in one place; there is a
\* block for every position below the size; a free inode has none.
OwnedIn(d) ==
  /\ \A i \in Inums, k \in Ks : Blk(d, d.inode[i], k) # 0 => Blk(d, d.inode[i], k) \in d.used
  /\ \A b \in d.used : \E i \in Inums, k \in Ks : Blk(d, d.inode[i], k) = b
  /\ \A i, j \in Inums, k, l \in Ks :
       Blk(d, d.inode[i], k) # 0 /\ Blk(d, d.inode[i], k) = Blk(d, d.inode[j], l) => i = j /\ k = l
  /\ \A i \in Inums : \A bn \in 0 .. d.inode[i].size - 1 : Blk(d, d.inode[i], Place(bn)) # 0
  /\ \A i \in Inums : d.inode[i].type = "none" =>
       d.inode[i].addrs = NoInode.addrs /\ d.inode[i].size = 0

Owned == OwnedIn(disk) /\ OwnedIn(durable)

\* The inductive invariant.
IInv == Shape /\ Roles /\ RefsCounted /\ Locks /\ Coherent /\ Owned

\* How many of the pointers of a process at l, with current directory c,
\* are to inode i.
One(b) == IF b THEN 1 ELSE 0

Mine(l, c, i) ==
  One(l.pc # "chdir" /\ c = i) + One(l.pc # "iget" /\ l.ip = i) + One(l.dp = i)
  + One(l.old = i) + One(l.puts # <<>> /\ l.puts[1] = i) + One(Len(l.puts) >= 2 /\ l.puts[2] = i)

\* A set of pairs is row p and the other rows.
Row(X, p) == {r \in X : r[1] = p}

Others(X, p) == {r \in X : r[1] # p}

-----------------------------------------------------------------------------
(* What a step of a process does to the table.                             *)

\* The copy of inode j in the table is the one on the disk, or both stay as
\* they were; only an inode that is free on the disk may change alone.
Synced(j) ==
  \/ itable'[j].mem = disk'.inode[j] /\ disk'.inode[j].type # "none"
  \/ /\ itable[j].valid /\ itable'[j].mem = itable[j].mem
     /\ disk'.inode[j] = disk.inode[j] \/ disk.inode[j].type = "none"

\* A step in which p takes a reference to s, locks a and unlocks b (0: none).
Acts(p, s, a, b) ==
  /\ itable' \in Tables /\ disk' \in AnyImage
  /\ \A j \in Inums : itable'[j].ref = itable[j].ref + One(j = s)
  /\ \A j \in Inums : j # a /\ j # b => itable'[j].lock = itable[j].lock
  /\ \A j \in Inums : itable[j].valid => itable'[j].valid
  /\ \A j \in Inums : itable'[j].valid => Synced(j)
  /\ a # 0 => itable[a].lock = {} /\ itable'[a].lock = {p} /\ itable'[a].valid
  /\ b # 0 => itable'[b].lock = {} /\ LockedAt(loc[p], b)

\* The process goes on at m, and is then known to have locked a and not b.
Moves(p, m, a, b) ==
  /\ loc' = [loc EXCEPT ![p] = m] /\ m \in Locs /\ RolesOf(m)
  /\ m.stage = "drop" /\ loc[p].stage = "drop"
  /\ \A j \in Inums : LockedAt(m, j) <=> j = a \/ (LockedAt(loc[p], j) /\ j # b)

\* Entries, and the inodes adrift, are apart from inodes and blocks.
SameInodes(e, d) == e \in AnyImage /\ e.inode = d.inode /\ e.used = d.used /\ e.ind = d.ind

NoInd == [k \in 0 .. NINDIRECT - 1 |-> 0]

\* The same blocks in the same places.
SameBlocks(e, d) ==
  /\ e.used = d.used
  /\ \A i \in Inums, k \in Ks : Blk(e, e.inode[i], k) = Blk(d, d.inode[i], k)

Settled(e) ==
  /\ \A i \in Inums : \A bn \in 0 .. e.inode[i].size - 1 : Blk(e, e.inode[i], Place(bn)) # 0
  /\ \A i \in Inums : e.inode[i].type = "none" =>
       e.inode[i].addrs = NoInode.addrs /\ e.inode[i].size = 0

\* A block fresh from balloc() in addrs[k] (fs.c:376, fs.c:388).
GrowsRoot(d, i, k, b, e) ==
  /\ d \in AnyImage /\ OwnedIn(d) /\ b \in Blocks /\ b \notin d.used
  /\ d.inode[i].addrs[k] = 0 /\ d.inode[i].type # "none"
  /\ e \in AnyImage /\ e.used = d.used \cup {b}
  /\ e.ind[b] = NoInd /\ \A c \in Blocks : c # b => e.ind[c] = d.ind[c]
  /\ e.inode[i].type = d.inode[i].type /\ e.inode[i].size = d.inode[i].size
  /\ \A l \in 0 .. NDIRECT : e.inode[i].addrs[l] = IF l = k THEN b ELSE d.inode[i].addrs[l]
  /\ \A j \in Inums : j # i => e.inode[j] = d.inode[j]

\* A block fresh from balloc() in the indirect block (fs.c:395).
GrowsLeaf(d, i, x, b, a, e) ==
  /\ d \in AnyImage /\ OwnedIn(d) /\ b \in Blocks /\ b \notin d.used
  /\ a = d.inode[i].addrs[NDIRECT] /\ a # 0 /\ d.ind[a][x] = 0
  /\ e \in AnyImage /\ e.used = d.used \cup {b} /\ e.inode = d.inode
  /\ \A c \in Blocks : c # a /\ c # b => e.ind[c] = d.ind[c]
  /\ \A y \in 0 .. NINDIRECT - 1 : e.ind[a][y] = IF y = x THEN b ELSE d.ind[a][y]

SetInd(d, a, x, b) == [d EXCEPT !.ind[a][x] = b]

\* The image e is d with entry x of indirect block a set to b.
IndSet(e, d, a, x, b) ==
  /\ e.used = d.used /\ \A y \in Blocks : y # a => e.ind[y] = d.ind[y]
  /\ \A y \in 0 .. NINDIRECT - 1 : e.ind[a][y] = IF y = x THEN b ELSE d.ind[a][y]

\* bfree() of every block of an inode leaves the others owned (fs.c:409).
Truncated(e, d, i) ==
  /\ e \in AnyImage /\ e.ind = d.ind
  /\ e.used = d.used \ {BlockAt(d, d.inode[i], k) : k \in Slots(d, d.inode[i])}
  /\ e.inode[i].addrs = NoInode.addrs /\ e.inode[i].size = 0
  /\ \A j \in Inums : j # i => e.inode[j] = d.inode[j]

\* Freeing an inode: itrunc(), and type 0 (fs.c:313-315).
Freed(d, i, m) == [iupdate(itrunc(d, i, m), i, NoInode) EXCEPT !.adrift = @ \ {i}]

-----------------------------------------------------------------------------
(* A step of one process keeps the invariant.                              *)

\* What a step of p has to leave of the open files and directories.
Files(p, m) ==
  /\ ftable' \in [1 .. NFILE -> [ref : Int, ip : 0 .. NINODES, writable : BOOLEAN]]
  /\ ofile' \in [Procs -> [1 .. NOFILE -> 0 .. NFILE]]
  /\ cwd' \in [Procs -> 0 .. NINODES]
  /\ \A q \in Procs \ {p} : cwd'[q] = cwd[q] /\ ofile'[q] = ofile[q]
  /\ cwd'[p] = 0 => m.pc \in {"idle", "end", "exit"} /\ \A fd \in 1 .. NOFILE : ofile'[p][fd] = 0
  /\ \A f \in 1 .. NFILE : ftable'[f].ref > 0 => ftable'[f].ip # 0
  /\ \A f \in 1 .. NFILE : ftable'[f].ref = Cardinality(Fds(ofile', f))

Stays == booted /\ booted' = booted /\ prog' = prog

-----------------------------------------------------------------------------
(* The place of a process.                                                 *)

\* m is l, moved on.
Is(m, l, pc, ip, dp, old, rest, puts) ==
  /\ m \in Locs /\ m.stage = l.stage
  /\ m.pc = pc /\ m.ip = ip /\ m.dp = dp /\ m.old = old /\ m.rest = rest /\ m.puts = puts

Atop(pc, ip, dp, j) == dp = j \/ (pc \in {"unlinked", "created"} /\ ip = j)

Puts(s, j) == One(s # <<>> /\ s[1] = j) + One(Len(s) >= 2 /\ s[2] = j)

Count(pc, c, ip, dp, old, puts, j) ==
  One(pc # "chdir" /\ c = j) + One(pc # "iget" /\ ip = j) + One(dp = j) + One(old = j)
  + Puts(puts, j)

Still == /\ Stays /\ ftable' = ftable /\ ofile' = ofile /\ cwd' = cwd
         /\ durable' = durable \/ durable' = disk

\* p goes on at m: it takes a reference to s, locks a and unlocks b.
Advances(p, m, pc, ip, dp, old, rest, puts, s, a, b) ==
  /\ loc[p].puts = <<>> /\ Is(m, loc[p], pc, ip, dp, old, rest, puts)
  /\ loc' = [loc EXCEPT ![p] = m] /\ RolesOf(m)
  /\ s \in 0 .. NINODES /\ a \in 0 .. NINODES /\ b \in 0 .. NINODES
  /\ cwd[p] = 0 => pc \in {"idle", "end", "exit"}
  /\ \A j \in Inums : Atop(pc, ip, dp, j)
                      <=> j = a \/ (Atop(loc[p].pc, loc[p].ip, loc[p].dp, j) /\ j # b)
  /\ \A j \in Inums : Count(pc, cwd[p], ip, dp, old, puts, j)
                      = Count(loc[p].pc, cwd[p], loc[p].ip, loc[p].dp, loc[p].old, <<>>, j)
                        + One(j = s)

-----------------------------------------------------------------------------
(* What the steps do to the table, when the disk stays as it is.           *)

SameDisk == disk' = disk \/ (disk' \in AnyImage /\ disk'.inode = disk.inode)

\* Inode i is written, in the table and on the disk.
Wrote(i) ==
  /\ disk' \in AnyImage /\ disk'.inode[i].type # "none"
  /\ \A j \in Inums : j # i => disk'.inode[j] = disk.inode[j]

\* iupdate() of an inode with the same blocks, entries apart.
Updated(f, e, i, n) ==
  /\ e \in AnyImage /\ OwnedIn(e) /\ n \in AnyInode /\ SameInodes(f, iupdate(e, i, n))
  /\ n.type = e.inode[i].type /\ n.size = e.inode[i].size /\ n.addrs = e.inode[i].addrs

UpdatedOne(f, e, i, n) ==
  /\ f \in AnyImage /\ OwnedIn(f) /\ f.inode[i] = n
  /\ \A j \in Inums : j # i => f.inode[j] = e.inode[j]

\* A table in which p has locked inode i, and has it as it will be on disk.
HasLocked(u, i, p) ==
  /\ u \in Tables /\ u[i].lock = {p} /\ u[i].mem = disk'.inode[i]
  /\ \A j \in Inums : /\ u[j].ref = itable[j].ref
                      /\ u[j].valid <=> itable[j].valid \/ j = i
                      /\ j # i => u[j].lock = itable[j].lock
                      /\ j # i => u[j].mem = itable[j].mem

WroteBoth(i, d) ==
  /\ disk' \in AnyImage /\ disk'.inode[i].type # "none" /\ disk'.inode[d].type # "none"
  /\ \A j \in Inums : j # i /\ j # d => disk'.inode[j] = disk.inode[j]

\* A descriptor fd of p that named y comes to name x (fdalloc(), fileclose()).
Refds(p, fd, x) ==
  /\ ofile' \in [Procs -> [1 .. NOFILE -> 0 .. NFILE]] /\ ofile'[p][fd] = x
  /\ \A q \in Procs, g \in 1 .. NOFILE : q # p \/ g # fd => ofile'[q][g] = ofile[q][g]
  /\ \A q \in Procs \ {p} : ofile'[q] = ofile[q]

\* The entry f of the file table comes to be g (filealloc(), fileclose()).
Apart(fs, gs, f) == \A h \in 1 .. NFILE : h # f => gs[h] = fs[h]

\* One descriptor and one entry of the file table change together.
File == [ref : Int, ip : 0 .. NINODES, writable : BOOLEAN]

FileMoves(p, fd, x, f, g) ==
  /\ Refds(p, fd, x) /\ cwd' = cwd /\ cwd[p] # 0
  /\ ftable' = [ftable EXCEPT ![f] = g] /\ g \in File /\ (g.ref > 0 => g.ip # 0)
  /\ g.ref + One(ofile[p][fd] = f) = ftable[f].ref + One(x = f)
  /\ \A h \in 1 .. NFILE : h # f => x # h /\ ofile[p][fd] # h

\* An inode is read, maybe written, and not locked after.
Fetched(i) ==
  /\ itable' \in Tables /\ itable'[i].lock = {} /\ itable'[i].mem = disk'.inode[i]
  /\ \A j \in Inums : /\ itable'[j].ref = itable[j].ref
                      /\ itable'[j].valid <=> itable[j].valid \/ j = i
                      /\ j # i => itable'[j].lock = itable[j].lock
                      /\ j # i => itable'[j].mem = itable[j].mem

Unlocks(p, i, b) ==
  \/ b = 0 /\ CanLock(i)
  \/ b = i /\ LockedAt(loc[p], i) /\ loc[p].stage = "drop"

\* A step of iput() keeps the invariant if it keeps the counts, the locks
\* and the table as the disk.
PutStep(p, m) ==
  /\ loc' = [loc EXCEPT ![p] = m] /\ m \in Locs /\ RolesOf(m) /\ m.pc = loc[p].pc
  /\ itable' \in Tables /\ disk' \in AnyImage /\ OwnedIn(disk')
  /\ ftable' = ftable /\ ofile' = ofile /\ cwd' = cwd /\ durable' = durable /\ Stays
  /\ \A j \in Inums : itable'[j].ref + Mine(loc[p], cwd[p], j)
                      = itable[j].ref + Mine(m, cwd[p], j)

\* Where a process is after a step of iput(): the same place of its call.
Staged(m, l, s, puts) ==
  /\ m \in Locs /\ m.stage = s /\ m.puts = puts /\ m.pc = l.pc /\ m.call = l.call
  /\ m.ip = l.ip /\ m.dp = l.dp /\ m.old = l.old /\ m.rest = l.rest

\* One reference fewer; the table entry is free when it was the last.
Dropped(t, i) == IF t[i].ref = 1 THEN [t EXCEPT ![i] = NoSlot] ELSE [t EXCEPT ![i].ref = @ - 1]

Fresh == /\ itable = FreshTable /\ ftable = FreshFiles /\ ofile = FreshFds
         /\ cwd = FreshCwd /\ loc = [p \in Procs |-> Idle]
         /\ booted = FALSE /\ prog \in Programs
         /\ disk \in AnyImage /\ durable \in AnyImage /\ Owned

\* The steps of calls that leave the open files and the current directories
\* alone.
CallStep(p) ==
  \/ EndOp(p)
  \/ namex(p)
  \/ \E c \in prog.calls[p] : Begin(p, c)
  \/ LinkInc(p)
  \/ LinkEnter(p)
  \/ LinkUndo(p)
  \/ UnlinkParent(p)
  \/ UnlinkEntry(p)
  \/ UnlinkDone(p)
  \/ UnlockParent(p)
  \/ CreateParent(p)
  \/ ialloc(p)
  \/ create(p)
  \/ CreateExists(p)
  \/ MkdirDone(p)
  \/ Chdir(p)

\* A step that leaves the open files and the current directories alone.
Stepped(p) ==
  \E m, pc, ip, dp, old, rest, puts, s, a, b :
    /\ Advances(p, m, pc, ip, dp, old, rest, puts, s, a, b)
    /\ Acts(p, s, a, b) /\ Still /\ OwnedIn(disk')

\* Every set of natural numbers that is not empty has a least element.
WellOrdered == \A T : T \subseteq Nat /\ T # {} => Min(T) \in T
=============================================================================
