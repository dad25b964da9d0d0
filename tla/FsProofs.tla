------------------------------ MODULE FsProofs ------------------------------
(***************************************************************************)
(* Proofs about the file system (module Fs), for any number of processes,  *)
(* inodes, blocks, files and descriptors and any calls that satisfy        *)
(* FsAssumption: iput(), start and recovery, and the theorems.             *)
(***************************************************************************)
EXTENDS FsFiles

-----------------------------------------------------------------------------
(* iput().                                                                 *)

\* References of two processes are counted apart.
LEMMA TwoHold ==
  ASSUME IInv, NEW p \in Procs, NEW q \in Procs, p # q, NEW i \in Inums
  PROVE  /\ itable[i].ref \in Int
         /\ itable[i].ref >= Mine(loc[p], cwd[p], i)
         /\ itable[i].ref >= Mine(loc[p], cwd[p], i) + Mine(loc[q], cwd[q], i)
<1>. DEFINE ms == [loc EXCEPT ![p] = Idle]
            ds == [cwd EXCEPT ![p] = 0]
<1>1. loc \in [Procs -> Locs] /\ cwd \in [Procs -> 0 .. NINODES] /\ i # 0
  BY DEF IInv, Shape, Inums
<1>2. /\ ms \in [Procs -> Locs] /\ ds \in [Procs -> 0 .. NINODES] /\ ms[p] = Idle /\ ds[p] = 0
      /\ \A r \in Procs \ {p} : ms[r] = loc[r] /\ ds[r] = cwd[r]
  <2>1. Idle \in Locs /\ 0 \in 0 .. NINODES
    BY SMTT(30), IdleIs, Holding
  <2>. QED BY ZenonT(40), <1>1, <2>1
<1>. HIDE DEF ms, ds
<1>3. Mine(Idle, 0, i) = 0
  BY SMTT(30), <1>1, IdleIs DEF Mine, One
<1>4. /\ IsFiniteSet(Held(ms, ds, i)) /\ IsFiniteSet(Held(loc, cwd, i))
      /\ Cardinality(Held(ms, ds, i)) + Mine(loc[p], cwd[p], i)
           = Cardinality(Held(loc, cwd, i)) + Mine(ms[p], ds[p], i)
      /\ Cardinality(Held(loc, cwd, i)) >= Mine(loc[p], cwd[p], i)
  BY SMTT(30), <1>1, <1>2, HeldMoves
<1>5. Cardinality(Held(ms, ds, i)) >= Mine(ms[q], ds[q], i)
  <2>1. \A r \in Procs \ {q} : ms[r] = ms[r] /\ ds[r] = ds[r]
    BY ZenonT(40)
  <2>. QED BY ZenonT(40), <1>2, <2>1, HeldMoves
<1>6. /\ Cardinality(Held(ms, ds, i)) \in Nat /\ Cardinality(Held(loc, cwd, i)) \in Nat
      /\ Cardinality(Opens(ftable, i)) \in Nat
      /\ Mine(loc[p], cwd[p], i) \in Nat /\ Mine(loc[q], cwd[q], i) \in Nat
  BY SMTT(30), <1>4, FS_CardinalityType, OpensCount DEF Mine, One
<1>7. itable[i].ref = Cardinality(Opens(ftable, i)) + Cardinality(Held(loc, cwd, i))
  BY ZenonT(40) DEF IInv, RefsCounted
<1>8. Mine(ms[q], ds[q], i) = Mine(loc[q], cwd[q], i) /\ Mine(ms[p], ds[p], i) = 0
  BY <1>2, <1>3
<1>. QED BY SMTT(30), <1>4, <1>5, <1>6, <1>7, <1>8

\* The count of an inode is at least the pointers of any one process.
LEMMA OneHolds ==
  ASSUME IInv, NEW p \in Procs, NEW i \in Inums
  PROVE  itable[i].ref \in Int /\ itable[i].ref >= Mine(loc[p], cwd[p], i)
<1>1. loc \in [Procs -> Locs] /\ cwd \in [Procs -> 0 .. NINODES]
  BY ZenonT(40) DEF IInv, Shape
<1>2. /\ IsFiniteSet(Held(loc, cwd, i))
      /\ Cardinality(Held(loc, cwd, i)) >= Mine(loc[p], cwd[p], i)
  BY SMTT(30), <1>1, HeldMoves
<1>3. /\ Cardinality(Held(loc, cwd, i)) \in Nat /\ Cardinality(Opens(ftable, i)) \in Nat
      /\ Mine(loc[p], cwd[p], i) \in Nat
  BY SMTT(30), <1>2, FS_CardinalityType, OpensCount DEF Mine, One
<1>4. itable[i].ref = Cardinality(Opens(ftable, i)) + Cardinality(Held(loc, cwd, i))
  BY ZenonT(40) DEF IInv, RefsCounted
<1>. QED BY SMTT(30), <1>2, <1>3, <1>4

\* Nobody has locked an inode of which iput() drops the last reference: a
\* process that has locked it holds a reference of its own (fs.c:307).
LEMMA LastIsFree ==
  ASSUME IInv, NEW p \in Procs, NEW i \in Inums, Putting(loc[p], i),
         loc[p].stage \notin {"trunc", "invalid"}, itable[i].ref = 1
  PROVE  itable[i].lock = {}
<1>. SUFFICES ASSUME NEW q \in itable[i].lock PROVE FALSE
  BY ZenonT(40)
<1>1. q \in Procs /\ LockedAt(loc[q], i) /\ i # 0
  BY SMTT(30) DEF IInv, Shape, Tables, Locks, Inums
<1>2. loc[q] \in Locs /\ loc[p] \in Locs
  BY ZenonT(40), <1>1 DEF IInv, Shape
<1>3. CASE q = p
  <2>1. loc[p].dp = i \/ (loc[p].pc \in {"unlinked", "created"} /\ loc[p].ip = i)
    BY ZenonT(40), <1>1, <1>3 DEF LockedAt
  <2>2. Mine(loc[p], cwd[p], i) >= 2
    BY SMTT(30), <1>1, <2>1 DEF Mine, One, Putting
  <2>3. itable[i].ref >= Mine(loc[p], cwd[p], i) /\ Mine(loc[p], cwd[p], i) \in Nat
    BY SMTT(30), OneHolds DEF Mine, One
  <2>. QED BY SMTT(30), <2>2, <2>3
<1>4. CASE q # p
  <2>1. Mine(loc[p], cwd[p], i) >= 1 /\ Mine(loc[p], cwd[p], i) \in Nat
    BY DEF Mine, One, Putting
  <2>2. Mine(loc[q], cwd[q], i) >= 1 /\ Mine(loc[q], cwd[q], i) \in Nat
    BY <1>1 DEF Mine, One, LockedAt, Putting
  <2>3. itable[i].ref >= Mine(loc[p], cwd[p], i) + Mine(loc[q], cwd[q], i)
    BY ZenonT(40), <1>1, <1>4, TwoHold
  <2>. QED BY SMTT(30), <2>1, <2>2, <2>3
<1>. QED BY SMTT(30), <1>3, <1>4

\* A stage of iput() keeps the invariant if it keeps the locks, the counts and
\* the table in line with the disk.
LEMMA PutKept ==
  ASSUME IInv, NEW p \in Procs, NEW m, PutStep(p, m), Locks', Coherent'
  PROVE  IInv'
<1>1. /\ loc' = [loc EXCEPT ![p] = m] /\ m \in Locs /\ RolesOf(m) /\ m.pc = loc[p].pc
      /\ itable' \in Tables /\ disk' \in AnyImage /\ OwnedIn(disk')
      /\ ftable' = ftable /\ ofile' = ofile /\ cwd' = cwd /\ durable' = durable /\ Stays
      /\ \A j \in Inums : itable'[j].ref + Mine(loc[p], cwd[p], j)
                          = itable[j].ref + Mine(m, cwd[p], j)
  BY DEF PutStep
<1>2. loc \in [Procs -> Locs] /\ cwd \in [Procs -> 0 .. NINODES]
  BY ZenonT(40) DEF IInv, Shape
<1>3. loc' \in [Procs -> Locs] /\ loc'[p] = m /\ \A q \in Procs \ {p} : loc'[q] = loc[q]
  BY ZenonT(40), <1>1, <1>2
<1>4. Shape'
  BY SMTT(30), <1>1, <1>3 DEF IInv, Shape, Stays
<1>5. Roles'
  <2>1. \A q \in Procs : RolesOf(loc'[q]) /\ loc'[q].pc = loc[q].pc
    BY SMTT(30), <1>1, <1>3 DEF IInv, Roles
  <2>2. \A q \in Procs : cwd[q] = 0 =>
          loc[q].pc \in {"idle", "end", "exit"} /\ \A fd \in 1 .. NOFILE : ofile[q][fd] = 0
    BY ZenonT(40) DEF IInv, Roles
  <2>3. \A f \in 1 .. NFILE : ftable[f].ref > 0 => ftable[f].ip # 0
    BY DEF IInv, Roles
  <2>. QED BY ZenonT(40), <1>1, <2>1, <2>2, <2>3 DEF Roles, Stays
<1>6. RefsCounted'
  <2>1. ASSUME NEW j \in Inums
        PROVE  itable'[j].ref = Cardinality(Opens(ftable', j)) + Cardinality(Held(loc', cwd', j))
    <3>1. /\ itable'[j].ref \in Int /\ itable[j].ref \in Int
      BY SMTT(30), <1>1 DEF IInv, Shape, Tables
    <3>2. /\ Cardinality(Opens(ftable, j)) \in Nat /\ Mine(loc[p], cwd[p], j) \in Nat
          /\ Mine(m, cwd[p], j) \in Nat
      BY OpensCount DEF Mine, One
    <3>3. itable'[j].ref + Mine(loc[p], cwd[p], j) = itable[j].ref + Mine(m, cwd[p], j)
      BY ZenonT(40), <1>1
    <3>4. itable'[j].ref + Mine(loc[p], cwd[p], j) + Cardinality(Opens(ftable, j))
          = itable[j].ref + Mine(loc'[p], cwd'[p], j) + Cardinality(Opens(ftable', j))
      BY ZenonT(40), <1>1, <1>3, <3>1, <3>2, <3>3
    <3>5. cwd' \in [Procs -> 0 .. NINODES] /\ \A q \in Procs \ {p} : loc'[q] = loc[q] /\ cwd'[q] = cwd[q]
      BY SMTT(30), <1>1, <1>2, <1>3
    <3>. QED BY ZenonT(40), <1>3, <3>1, <3>4, <3>5, CountsKept
  <2>2. \A f \in 1 .. NFILE : ftable'[f].ref = Cardinality(Fds(ofile', f))
    BY ZenonT(40), <1>1 DEF IInv, RefsCounted
  <2>. QED BY ZenonT(40), <2>1, <2>2, NotChanged DEF RefsCounted
<1>7. Owned'
  <2>1. OwnedIn(durable')
    BY ZenonT(40), <1>1 DEF IInv, Owned
  <2>. QED BY ZenonT(40), <1>1, <2>1 DEF Owned, OwnedIn, Blk
<1>. QED BY ZenonT(40), <1>4, <1>5, <1>6, <1>7 DEF IInv

\* A stage of iput() leaves the process at its place in the call.
LEMMA StagedIs ==
  ASSUME NEW l \in Locs, NEW s \in Stages
  PROVE  /\ Staged([l EXCEPT !.stage = s], l, s, l.puts)
         /\ Tail(l.puts) \in Seq(Inums)
              => Staged([l EXCEPT !.stage = s, !.puts = Tail(@)], l, s, Tail(l.puts))
<1>1. Staged([l EXCEPT !.stage = s], l, s, l.puts)
  BY ZenonT(40) DEF Staged, Locs
<1>2. ASSUME Tail(l.puts) \in Seq(Inums)
      PROVE  Staged([l EXCEPT !.stage = s, !.puts = Tail(@)], l, s, Tail(l.puts))
  BY ZenonT(40), <1>2, ZenonT(40) DEF Staged, Locs
<1>. QED BY ZenonT(40), <1>1, <1>2

\* The stage of an iput() does not change what the process points to.
LEMMA StagedMine ==
  ASSUME NEW l, NEW m, NEW s, Staged(m, l, s, l.puts), RolesOf(l), l.puts # <<>>
  PROVE  RolesOf(m) /\ \A c, j : Mine(m, c, j) = Mine(l, c, j)
BY DEF Staged, RolesOf, Mine, ForParent

\* What iput() finds.
LEMMA PutsOf ==
  ASSUME IInv, NEW p \in Procs, loc[p].puts # <<>>
  PROVE  /\ loc[p] \in Locs /\ RolesOf(loc[p]) /\ Head(loc[p].puts) \in Inums
         /\ Putting(loc[p], Head(loc[p].puts))
         /\ \A j : Putting(loc[p], j) => j = Head(loc[p].puts)
         /\ Tail(loc[p].puts) \in Seq(Inums)
<1>1. loc[p] \in Locs /\ RolesOf(loc[p])
  BY ZenonT(40) DEF IInv, Shape, Roles
<1>2. loc[p].puts \in Seq(Inums)
  BY <1>1 DEF Locs
<1>. HIDE DEF Inums
<1>3. Head(loc[p].puts) = loc[p].puts[1] /\ Head(loc[p].puts) \in Inums /\ Tail(loc[p].puts) \in Seq(Inums)
  BY <1>2
<1>. QED BY ZenonT(40), <1>1, <1>3 DEF Putting

\* The inode is locked (fs.c:309).
LEMMA PutLocks ==
  ASSUME IInv, NEW p \in Procs, booted, Stays, NEW i, Putting(loc[p], i),
         loc[p].stage = "drop", LastPut(i), itable[i].lock = {},
         itable' = [itable EXCEPT ![i].lock = {p}],
         Goes(p, [loc[p] EXCEPT !.stage = "trunc"]),
         disk' = disk, durable' = durable, ftable' = ftable, ofile' = ofile, cwd' = cwd
  PROVE  IInv'
<1>. DEFINE l == loc[p]
            m == [loc[p] EXCEPT !.stage = "trunc"]
<1>0. loc[p].puts # <<>>
  BY ZenonT(40) DEF Putting
<1>1. /\ l \in Locs /\ RolesOf(l) /\ i \in Inums /\ Putting(l, i) /\ \A j : Putting(l, j) => j = i
  BY ZenonT(40), <1>0, PutsOf
<1>2. Staged(m, l, "trunc", l.puts)
  <2>1. "trunc" \in Stages
    BY ZenonT(40) DEF Stages
  <2>. QED BY ZenonT(40), <1>1, <2>1, StagedIs
<1>3. loc' = [loc EXCEPT ![p] = m]
  BY DEF Goes
<1>. HIDE DEF m
<1>4. RolesOf(m) /\ \A c, j : Mine(m, c, j) = Mine(l, c, j)
  BY ZenonT(40), <1>0, <1>1, <1>2, StagedMine
<1>5. loc \in [Procs -> Locs] /\ itable \in Tables
  BY ZenonT(40) DEF IInv, Shape
<1>6. loc'[p] = m /\ \A q \in Procs : q # p => loc'[q] = loc[q]
  BY ZenonT(40), <1>3, <1>5
<1>7. /\ itable' \in Tables
      /\ \A j \in Inums : /\ itable'[j].ref = itable[j].ref /\ itable'[j].valid = itable[j].valid
                          /\ itable'[j].mem = itable[j].mem
                          /\ j # i => itable'[j].lock = itable[j].lock
      /\ itable'[i].lock = {p}
  BY <1>1, <1>5 DEF Tables
<1>8. PutStep(p, m)
  <2>1. \A j \in Inums : itable'[j].ref + Mine(loc[p], cwd[p], j) = itable[j].ref + Mine(m, cwd[p], j)
    BY ZenonT(40), <1>4, <1>7
  <2>2. m \in Locs /\ m.pc = loc[p].pc
    BY ZenonT(40), <1>2 DEF Staged
  <2>3. disk \in AnyImage /\ OwnedIn(disk)
    BY ZenonT(40) DEF IInv, Shape, Owned
  <2>. QED BY ZenonT(40), <1>3, <1>4, <1>7, <2>1, <2>2, <2>3 DEF PutStep
<1>9. \A j \in Inums : LockedAt(m, j) <=> LockedAt(l, j) \/ j = i
  BY ZenonT(40), <1>1, <1>2 DEF Staged, LockedAt, Putting
<1>10. Locks'
  <2>1. \A j \in Inums, q \in Procs : q \in itable[j].lock <=> LockedAt(loc[q], j)
    BY ZenonT(40) DEF IInv, Locks
  <2>2. \A j \in Inums, q \in Procs : q \in itable'[j].lock <=> LockedAt(loc'[q], j)
    BY SMTT(30), <2>1, <1>6, <1>7, <1>9
  <2>3. \A j \in Inums, q, r \in Procs : q \in itable'[j].lock /\ r \in itable'[j].lock => q = r
    BY SMTT(30), <1>7 DEF IInv, Locks
  <2>4. \A j \in Inums, q \in Procs : q \in itable'[j].lock => itable'[j].valid
    BY <1>7 DEF IInv, Locks, LastPut
  <2>5. ASSUME NEW q \in Procs, NEW j \in Inums, loc'[q].stage \in {"trunc", "invalid"}, Putting(loc'[q], j)
        PROVE  loc'[q].dp # j /\ (loc'[q].pc \in {"unlinked", "created"} => loc'[q].ip # j)
    <3>1. CASE q = p
      <4>1. j = i
        BY SMTT(30), <1>1, <1>2, <1>6, <2>5, <3>1 DEF Putting, Staged
      <4>2. ~LockedAt(l, i)
        BY ZenonT(40), <1>1, <2>1
      <4>. QED BY ZenonT(40), <1>2, <1>6, <3>1, <4>1, <4>2 DEF Staged, LockedAt
    <3>2. CASE q # p
      BY SMTT(30), <1>6, <2>5, <3>2 DEF IInv, Locks
    <3>. QED BY ZenonT(40), <3>1, <3>2
  <2>. QED BY SMTT(30), <2>2, <2>3, <2>4, <2>5, NotChanged DEF Locks
<1>11. Coherent'
  <2>1. ASSUME NEW j \in Inums, itable'[j].valid
        PROVE  \/ itable'[j].mem = disk'.inode[j] /\ disk'.inode[j].type # "none"
               \/ \E q \in Procs : loc'[q].stage = "invalid" /\ Putting(loc'[q], j)
    <3>1. \/ itable[j].mem = disk.inode[j] /\ disk.inode[j].type # "none"
          \/ \E q \in Procs : loc[q].stage = "invalid" /\ Putting(loc[q], j)
      BY ZenonT(40), <1>7, <2>1 DEF IInv, Coherent
    <3>. QED BY ZenonT(40), <3>1, <1>6, <1>7
  <2>. QED BY ZenonT(40), <2>1 DEF Coherent, Stays
<1>. QED BY ZenonT(40), <1>8, <1>10, <1>11, PutKept

\* The inode is truncated and freed on disk and in the table (fs.c:313-315).
LEMMA PutFrees ==
  ASSUME IInv, NEW p \in Procs, booted, Stays, NEW i, Putting(loc[p], i),
         loc[p].stage = "trunc",
         disk' = Freed(disk, i, itable[i].mem), itable' = InMemory(itable, i, NoInode),
         Goes(p, [loc[p] EXCEPT !.stage = "invalid"]),
         durable' = durable, ftable' = ftable, ofile' = ofile, cwd' = cwd
  PROVE  IInv'
<1>. DEFINE l == loc[p]
            m == [loc[p] EXCEPT !.stage = "invalid"]
<1>0. loc[p].puts # <<>>
  BY ZenonT(40) DEF Putting
<1>1. /\ l \in Locs /\ RolesOf(l) /\ i \in Inums /\ Putting(l, i) /\ \A j : Putting(l, j) => j = i
  BY ZenonT(40), <1>0, PutsOf
<1>2. Staged(m, l, "invalid", l.puts)
  <2>1. "invalid" \in Stages
    BY ZenonT(40) DEF Stages
  <2>. QED BY ZenonT(40), <1>1, <2>1, StagedIs
<1>3. loc' = [loc EXCEPT ![p] = m]
  BY DEF Goes
<1>. HIDE DEF m
<1>4. RolesOf(m) /\ \A c, j : Mine(m, c, j) = Mine(l, c, j)
  BY ZenonT(40), <1>0, <1>1, <1>2, StagedMine
<1>5. loc \in [Procs -> Locs] /\ itable \in Tables /\ disk \in AnyImage /\ OwnedIn(disk)
  BY DEF IInv, Shape, Owned
<1>6. loc'[p] = m /\ \A q \in Procs : q # p => loc'[q] = loc[q]
  BY ZenonT(40), <1>3, <1>5
<1>7. /\ itable' \in Tables
      /\ \A j \in Inums : /\ itable'[j].ref = itable[j].ref /\ itable'[j].valid = itable[j].valid
                          /\ itable'[j].lock = itable[j].lock
                          /\ j # i => itable'[j].mem = itable[j].mem
  <2>1. NoInode \in AnyInode
    BY ZenonT(40), NoInodeIs
  <2>. QED BY SMTT(30), <1>1, <1>5, <2>1, InMemoryIs
<1>8. \A j \in Inums, q \in Procs : q \in itable[j].lock <=> LockedAt(loc[q], j)
  BY DEF IInv, Locks
<1>9. itable[i].mem = disk.inode[i]
  <2>1. p \in itable[i].lock
    BY <1>1, <1>8 DEF LockedAt
  <2>2. ASSUME NEW q \in Procs, loc[q].stage = "invalid", Putting(loc[q], i) PROVE FALSE
    <3>1. q \in itable[i].lock
      BY SMTT(30), <1>1, <1>8, <2>2 DEF LockedAt
    <3>2. q = p
      BY ZenonT(40), <1>1, <2>1, <3>1 DEF IInv, Locks
    <3>. QED BY ZenonT(40), <2>2, <3>2
  <2>3. itable[i].valid
    BY SMTT(30), <1>1, <2>1 DEF IInv, Locks
  <2>. QED BY ZenonT(40), <1>1, <2>2, <2>3 DEF IInv, Coherent
<1>10. /\ disk' \in AnyImage /\ disk'.inode = [disk.inode EXCEPT ![i] = NoInode] /\ OwnedIn(disk')
  BY ZenonT(40), <1>1, <1>5, <1>9, FreedIs
<1>11. \A j \in Inums : j # i => disk'.inode[j] = disk.inode[j]
  BY ZenonT(40), <1>5, <1>10 DEF AnyImage
<1>12. PutStep(p, m)
  <2>1. \A j \in Inums : itable'[j].ref + Mine(loc[p], cwd[p], j) = itable[j].ref + Mine(m, cwd[p], j)
    BY <1>4, <1>7
  <2>2. m \in Locs /\ m.pc = loc[p].pc
    BY ZenonT(40), <1>2 DEF Staged
  <2>. QED BY ZenonT(40), <1>3, <1>4, <1>7, <1>10, <2>1, <2>2 DEF PutStep
<1>13. \A j : LockedAt(m, j) <=> LockedAt(l, j)
  BY ZenonT(40), <1>2 DEF Staged, LockedAt, Putting
<1>14. Locks'
  <2>2. \A j \in Inums, q \in Procs : q \in itable'[j].lock <=> LockedAt(loc'[q], j)
    BY ZenonT(40), <1>6, <1>7, <1>8, <1>13
  <2>3. \A j \in Inums, q, r \in Procs : q \in itable'[j].lock /\ r \in itable'[j].lock => q = r
    BY <1>7 DEF IInv, Locks
  <2>4. \A j \in Inums, q \in Procs : q \in itable'[j].lock => itable'[j].valid
    BY ZenonT(40), <1>7 DEF IInv, Locks
  <2>5. ASSUME NEW q \in Procs, NEW j \in Inums, loc'[q].stage \in {"trunc", "invalid"}, Putting(loc'[q], j)
        PROVE  loc'[q].dp # j /\ (loc'[q].pc \in {"unlinked", "created"} => loc'[q].ip # j)
    <3>1. CASE q = p
      <4>1. l.dp # j /\ (l.pc \in {"unlinked", "created"} => l.ip # j)
        <5>1. Putting(l, j)
          BY ZenonT(40), <1>2, <1>6, <2>5, <3>1 DEF Putting, Staged
        <5>. QED BY <5>1 DEF IInv, Locks
      <4>. QED BY ZenonT(40), <1>2, <1>6, <3>1, <4>1 DEF Staged
    <3>2. CASE q # p
      BY SMTT(30), <1>6, <2>5, <3>2 DEF IInv, Locks
    <3>. QED BY SMTT(30), <3>1, <3>2
  <2>. QED BY SMTT(30), <2>2, <2>3, <2>4, <2>5 DEF Locks
<1>15. Coherent'
  <2>1. ASSUME NEW j \in Inums, itable'[j].valid
        PROVE  \/ itable'[j].mem = disk'.inode[j] /\ disk'.inode[j].type # "none"
               \/ \E q \in Procs : loc'[q].stage = "invalid" /\ Putting(loc'[q], j)
    <3>1. CASE j = i
      BY ZenonT(40), <1>1, <1>2, <1>6, <3>1 DEF Staged, Putting
    <3>2. CASE j # i
      <4>1. \/ itable[j].mem = disk.inode[j] /\ disk.inode[j].type # "none"
            \/ \E q \in Procs : loc[q].stage = "invalid" /\ Putting(loc[q], j)
        BY SMTT(30), <1>7, <2>1 DEF IInv, Coherent
      <4>2. itable'[j].mem = itable[j].mem /\ disk'.inode[j] = disk.inode[j]
        BY ZenonT(40), <1>7, <1>11, <3>2
      <4>. QED BY ZenonT(40), <4>1, <4>2, <1>6
    <3>. QED BY ZenonT(40), <3>1, <3>2
  <2>. QED BY ZenonT(40), <2>1 DEF Coherent, Stays
<1>. QED BY ZenonT(40), <1>12, <1>14, <1>15, PutKept

\* It is no longer valid, and unlocked (fs.c:316-318).
LEMMA PutInvalidates ==
  ASSUME IInv, NEW p \in Procs, booted, Stays, NEW i, Putting(loc[p], i),
         loc[p].stage = "invalid", itable' = Invalidate(itable, i),
         Goes(p, [loc[p] EXCEPT !.stage = "last"]),
         disk' = disk, durable' = durable, ftable' = ftable, ofile' = ofile, cwd' = cwd
  PROVE  IInv'
<1>. DEFINE l == loc[p]
            m == [loc[p] EXCEPT !.stage = "last"]
<1>0. loc[p].puts # <<>>
  BY ZenonT(40) DEF Putting
<1>1. /\ l \in Locs /\ RolesOf(l) /\ i \in Inums /\ Putting(l, i) /\ \A j : Putting(l, j) => j = i
  BY ZenonT(40), <1>0, PutsOf
<1>2. Staged(m, l, "last", l.puts)
  <2>1. "last" \in Stages
    BY ZenonT(40) DEF Stages
  <2>. QED BY ZenonT(40), <1>1, <2>1, StagedIs
<1>3. loc' = [loc EXCEPT ![p] = m]
  BY ZenonT(40) DEF Goes
<1>. HIDE DEF m
<1>4. RolesOf(m) /\ \A c, j : Mine(m, c, j) = Mine(l, c, j)
  BY ZenonT(40), <1>0, <1>1, <1>2, StagedMine
<1>5. loc \in [Procs -> Locs] /\ itable \in Tables
  BY ZenonT(40) DEF IInv, Shape
<1>6. loc'[p] = m /\ \A q \in Procs : q # p => loc'[q] = loc[q]
  BY ZenonT(40), <1>3, <1>5
<1>7. /\ itable' \in Tables
      /\ \A j \in Inums : /\ itable'[j].ref = itable[j].ref /\ itable'[j].mem = itable[j].mem
                          /\ j # i => itable'[j].lock = itable[j].lock /\ itable'[j].valid = itable[j].valid
      /\ itable'[i].lock = {} /\ ~itable'[i].valid
  BY ZenonT(40), <1>1, <1>5 DEF Tables, Invalidate
<1>8. PutStep(p, m)
  <2>1. \A j \in Inums : itable'[j].ref + Mine(loc[p], cwd[p], j) = itable[j].ref + Mine(m, cwd[p], j)
    BY SMTT(30), <1>4, <1>7
  <2>2. m \in Locs /\ m.pc = loc[p].pc
    BY ZenonT(40), <1>2 DEF Staged
  <2>3. disk \in AnyImage /\ OwnedIn(disk)
    BY ZenonT(40) DEF IInv, Shape, Owned
  <2>. QED BY ZenonT(40), <1>3, <1>4, <1>7, <2>1, <2>2, <2>3 DEF PutStep
<1>9. \A j \in Inums, q \in Procs : q \in itable[j].lock <=> LockedAt(loc[q], j)
  BY ZenonT(40) DEF IInv, Locks
<1>10. l.dp # i /\ (l.pc \in {"unlinked", "created"} => l.ip # i)
  BY <1>1 DEF IInv, Locks
<1>11. \A j \in Inums : LockedAt(m, j) <=> LockedAt(l, j) /\ j # i
  BY ZenonT(40), <1>1, <1>2, <1>10 DEF Staged, LockedAt
<1>12. \A q \in Procs : q # p => ~LockedAt(loc[q], i)
  <2>1. p \in itable[i].lock
    BY ZenonT(40), <1>1, <1>9 DEF LockedAt
  <2>2. \A q \in Procs : q \in itable[i].lock => q = p
    BY ZenonT(40), <1>1, <2>1 DEF IInv, Locks
  <2>. QED BY SMTT(30), <1>1, <1>9, <2>2
<1>13. Locks'
  <2>2. \A j \in Inums, q \in Procs : q \in itable'[j].lock <=> LockedAt(loc'[q], j)
    <3>. SUFFICES ASSUME NEW j \in Inums, NEW q \in Procs
                  PROVE  q \in itable'[j].lock <=> LockedAt(loc'[q], j)
      BY ZenonT(40)
    <3>1. CASE j = i
      BY ZenonT(40), <1>6, <1>7, <1>11, <1>12, <3>1
    <3>2. CASE j # i
      BY SMTT(30), <1>6, <1>7, <1>9, <1>11, <3>2
    <3>. QED BY SMTT(30), <3>1, <3>2
  <2>3. \A j \in Inums, q, r \in Procs : q \in itable'[j].lock /\ r \in itable'[j].lock => q = r
    BY ZenonT(40), <1>7 DEF IInv, Locks
  <2>4. \A j \in Inums, q \in Procs : q \in itable'[j].lock => itable'[j].valid
    BY SMTT(30), <1>7 DEF IInv, Locks
  <2>5. ASSUME NEW q \in Procs, NEW j \in Inums, loc'[q].stage \in {"trunc", "invalid"}, Putting(loc'[q], j)
        PROVE  loc'[q].dp # j /\ (loc'[q].pc \in {"unlinked", "created"} => loc'[q].ip # j)
    <3>1. q # p
      BY ZenonT(40), <1>2, <1>6, <2>5 DEF Staged
    <3>. QED BY SMTT(30), <1>6, <2>5, <3>1 DEF IInv, Locks
  <2>. QED BY ZenonT(40), <2>2, <2>3, <2>4, <2>5 DEF Locks
<1>14. Coherent'
  <2>1. ASSUME NEW j \in Inums, itable'[j].valid
        PROVE  \/ itable'[j].mem = disk'.inode[j] /\ disk'.inode[j].type # "none"
               \/ \E q \in Procs : loc'[q].stage = "invalid" /\ Putting(loc'[q], j)
    <3>1. j # i
      BY SMTT(30), <1>7, <2>1
    <3>2. \/ itable[j].mem = disk.inode[j] /\ disk.inode[j].type # "none"
          \/ \E q \in Procs : loc[q].stage = "invalid" /\ Putting(loc[q], j)
      BY ZenonT(40), <1>7, <2>1, <3>1 DEF IInv, Coherent
    <3>3. \A q \in Procs : Putting(loc[q], j) => q # p
      BY SMTT(30), <1>1, <3>1
    <3>. QED BY ZenonT(40), <3>1, <3>2, <3>3, <1>6, <1>7
  <2>. QED BY <2>1 DEF Coherent, Stays
<1>. QED BY SMTT(30), <1>8, <1>13, <1>14, PutKept

\* An iput() done is one pointer fewer.
LEMMA TailPuts ==
  ASSUME NEW S, NEW s \in Seq(S), Len(s) <= 2, s # <<>>
  PROVE  \A j : Puts(s, j) = Puts(Tail(s), j) + One(Head(s) = j)
<1>0. /\ Len(s) \in Nat \ {0} /\ Head(s) = s[1] /\ Tail(s) \in Seq(S) /\ Len(Tail(s)) = Len(s) - 1
      /\ \A i \in 1 .. Len(Tail(s)) : Tail(s)[i] = s[i + 1]
  <2>1. Len(s) \in Nat \ {0}
    OBVIOUS
  <2>2. Head(s) = s[1] /\ Tail(s) \in Seq(S)
    OBVIOUS
  <2>3. Len(Tail(s)) = Len(s) - 1
    BY SMTT(30), <2>1
  <2>4. ASSUME NEW i \in 1 .. Len(s) - 1 PROVE Tail(s)[i] = s[i + 1]
    BY <2>1
  <2>. QED BY SMTT(30), <2>1, <2>2, <2>3, <2>4
<1>1. Len(s) = 1 \/ Len(s) = 2
  BY <1>0
<1>2. CASE Len(s) = 1
  <2>2. Tail(s) = <<>>
    <3>1. Len(Tail(s)) \notin Nat \ {0}
      BY SMTT(30), <1>0, <1>2
    <3>. QED BY SMTT(30), <1>0, <3>1
  <2>3. \A j : Puts(Tail(s), j) = 0
    BY ZenonT(40), <2>2, PutsIs
  <2>4. \A j : Puts(s, j) = One(s[1] = j)
    BY <1>2 DEF Puts, One
  <2>5. \A b : One(b) \in Nat
    BY ZenonT(40) DEF One
  <2>. QED BY SMTT(30), <1>0, <2>3, <2>4, <2>5
<1>3. CASE Len(s) = 2
  <2>1. Head(s) = s[1]
    BY ZenonT(40), <1>0
  <2>2. Len(Tail(s)) = 1 /\ Tail(s)[1] = s[2]
    BY SMTT(30), <1>0, <1>3
  <2>3. Tail(s) # <<>>
    <3>. SUFFICES ASSUME Tail(s) = <<>> PROVE FALSE
      BY ZenonT(40)
    <3>1. Len(<<>>) = 0
      OBVIOUS
    <3>2. Len(Tail(s)) = Len(<<>>)
      BY Zenon
    <3>. QED BY SMTT(30), <2>2, <3>1, <3>2
  <2>. DEFINE r == Tail(s)
  <2>4. Len(r) = 1 /\ r[1] = s[2] /\ r # <<>>
    BY ZenonT(40), <2>2, <2>3
  <2>. HIDE DEF r
  <2>5. \A j : Puts(r, j) = One(s[2] = j)
    BY <2>4 DEF Puts, One
  <2>6. \A j : Puts(s, j) = One(s[1] = j) + One(s[2] = j)
    BY ZenonT(40), <1>3 DEF Puts
  <2>7. \A b : One(b) \in Nat
    BY ZenonT(40) DEF One
  <2>. QED BY SMTT(30), <2>1, <2>5, <2>6, <2>7 DEF r
<1>. QED BY ZenonT(40), <1>1, <1>2, <1>3

\* A process that has done an iput() has one pointer fewer, to that inode.
LEMMA TailMine ==
  ASSUME NEW l \in Locs, NEW m, Staged(m, l, "drop", Tail(l.puts)), RolesOf(l), l.puts # <<>>
  PROVE  RolesOf(m) /\ \A c, j : Mine(l, c, j) = Mine(m, c, j) + One(Head(l.puts) = j)
<1>1. l.puts \in Seq(Inums) /\ Len(l.puts) <= 2
  BY ZenonT(40) DEF Locs, RolesOf
<1>2. \A j : Puts(l.puts, j) = Puts(Tail(l.puts), j) + One(Head(l.puts) = j)
  BY ZenonT(40), <1>1, TailPuts
<1>3. Len(Tail(l.puts)) <= 2
  BY <1>1
<1>4. RolesOf(m)
  BY ZenonT(40), <1>3 DEF Staged, RolesOf, ForParent
<1>5. \A b : One(b) \in Nat
  BY ZenonT(40) DEF One
<1>6. ASSUME NEW c, NEW j PROVE Mine(l, c, j) = Mine(m, c, j) + One(Head(l.puts) = j)
  <2>1. \A n, x : Puts(n, x) \in Nat
    BY SMTT(30), <1>5 DEF Puts
  <2>2. Mine(l, c, j) = One(l.pc # "chdir" /\ c = j) + One(l.pc # "iget" /\ l.ip = j) + One(l.dp = j)
                        + One(l.old = j) + Puts(l.puts, j)
    BY <1>5 DEF Mine, Puts
  <2>3. Mine(m, c, j) = One(l.pc # "chdir" /\ c = j) + One(l.pc # "iget" /\ l.ip = j) + One(l.dp = j)
                        + One(l.old = j) + Puts(Tail(l.puts), j)
    <3>1. /\ m.pc = l.pc /\ m.ip = l.ip /\ m.dp = l.dp /\ m.old = l.old /\ m.puts = Tail(l.puts)
      BY DEF Staged
    <3>2. Mine(m, c, j) = One(m.pc # "chdir" /\ c = j) + One(m.pc # "iget" /\ m.ip = j)
                          + One(m.dp = j) + One(m.old = j) + Puts(m.puts, j)
      BY <1>5 DEF Mine, Puts
    <3>. QED BY ZenonT(40), <3>1, <3>2
  <2>. QED BY SMTT(30), <1>2, <1>5, <2>1, <2>2, <2>3
<1>. QED BY ZenonT(40), <1>4, <1>6

\* ip->ref-- frees the entry of the table when it was the last (fs.c:323).
LEMMA DroppedIs ==
  ASSUME NEW t \in Tables, NEW i \in Inums
  PROVE  LET u == Dropped(t, i)
         IN  /\ u \in Tables /\ u[i].ref = t[i].ref - 1
             /\ \A j \in Inums : j # i => u[j] = t[j]
             /\ IF t[i].ref = 1 THEN u[i].lock = {} /\ ~u[i].valid
                ELSE u[i].lock = t[i].lock /\ u[i].valid = t[i].valid /\ u[i].mem = t[i].mem
<1>1. t[i].ref \in Int /\ NoInode \in AnyInode
  BY SMTT(30), NoInodeIs DEF Tables
<1>2. CASE t[i].ref = 1
  <2>1. NoSlot \in [ref : Int, valid : BOOLEAN, lock : SUBSET Procs, mem : AnyInode]
    BY SMTT(30), <1>1 DEF NoSlot
  <2>2. Dropped(t, i) = [t EXCEPT ![i] = NoSlot]
    BY ZenonT(40), <1>2 DEF Dropped
  <2>3. NoSlot.ref = 0 /\ NoSlot.lock = {} /\ ~NoSlot.valid
    BY DEF NoSlot
  <2>. HIDE DEF NoSlot
  <2>. QED BY SMTT(30), <1>2, <2>1, <2>2, <2>3 DEF Tables
<1>3. CASE t[i].ref # 1
  <2>1. Dropped(t, i) = [t EXCEPT ![i].ref = @ - 1]
    BY ZenonT(40), <1>3 DEF Dropped
  <2>. QED BY SMTT(30), <1>1, <1>3, <2>1 DEF Tables
<1>. QED BY ZenonT(40), <1>2, <1>3

\* The reference is dropped (fs.c:323).
LEMMA PutDrops ==
  ASSUME IInv, NEW p \in Procs, booted, Stays, NEW i, Putting(loc[p], i),
         loc[p].stage \in {"drop", "last"}, itable' = Dropped(itable, i),
         Goes(p, [loc[p] EXCEPT !.stage = "drop", !.puts = Tail(@)]),
         disk' = disk, durable' = durable, ftable' = ftable, ofile' = ofile, cwd' = cwd
  PROVE  IInv'
<1>. DEFINE l == loc[p]
            m == [loc[p] EXCEPT !.stage = "drop", !.puts = Tail(@)]
<1>0. loc[p].puts # <<>>
  BY ZenonT(40) DEF Putting
<1>1. /\ l \in Locs /\ RolesOf(l) /\ i \in Inums /\ Putting(l, i) /\ Tail(l.puts) \in Seq(Inums)
  BY ZenonT(40), <1>0, PutsOf
<1>h. i = Head(l.puts)
  BY ZenonT(40), <1>0, PutsOf
<1>2. Staged(m, l, "drop", Tail(l.puts))
  <2>1. "drop" \in Stages
    BY DEF Stages
  <2>. QED BY ZenonT(40), <1>1, <2>1, StagedIs
<1>3. loc' = [loc EXCEPT ![p] = m]
  BY ZenonT(40) DEF Goes
<1>. HIDE DEF m
<1>4. RolesOf(m) /\ \A c, j : Mine(l, c, j) = Mine(m, c, j) + One(i = j)
  BY SMTT(30), <1>0, <1>1, <1>2, <1>h, TailMine
<1>5. loc \in [Procs -> Locs] /\ itable \in Tables
  BY ZenonT(40) DEF IInv, Shape
<1>6. loc'[p] = m /\ \A q \in Procs : q # p => loc'[q] = loc[q]
  BY SMTT(30), <1>3, <1>5
<1>7. /\ itable' \in Tables /\ itable'[i].ref = itable[i].ref - 1
      /\ \A j \in Inums : j # i => itable'[j] = itable[j]
      /\ IF itable[i].ref = 1 THEN itable'[i].lock = {} /\ ~itable'[i].valid
         ELSE itable'[i].lock = itable[i].lock /\ itable'[i].valid = itable[i].valid
              /\ itable'[i].mem = itable[i].mem
  BY ZenonT(40), <1>1, <1>5, DroppedIs
<1>8. itable'[i].lock = itable[i].lock
  <2>1. itable[i].ref = 1 => itable[i].lock = {}
    BY ZenonT(40), <1>1, LastIsFree
  <2>. QED BY ZenonT(40), <1>7, <2>1
<1>9. PutStep(p, m)
  <2>1. ASSUME NEW j \in Inums
        PROVE  itable'[j].ref + Mine(loc[p], cwd[p], j) = itable[j].ref + Mine(m, cwd[p], j)
    <3>1. Mine(l, cwd[p], j) = Mine(m, cwd[p], j) + One(i = j)
      BY SMTT(30), <1>4
    <3>2. itable[j].ref \in Int /\ Mine(m, cwd[p], j) \in Nat
      BY SMTT(30), <1>5 DEF Tables, Mine, One
    <3>3. itable'[j].ref = itable[j].ref - One(i = j)
      BY SMTT(30), <1>7, <3>2 DEF One
    <3>. QED BY SMTT(30), <3>1, <3>2, <3>3 DEF One
  <2>2. m \in Locs /\ m.pc = loc[p].pc
    BY ZenonT(40), <1>2 DEF Staged
  <2>3. disk \in AnyImage /\ OwnedIn(disk)
    BY ZenonT(40) DEF IInv, Shape, Owned
  <2>. QED BY ZenonT(40), <1>3, <1>4, <1>7, <2>1, <2>2, <2>3 DEF PutStep
<1>10. \A j \in Inums : LockedAt(m, j) <=> LockedAt(l, j)
  BY <1>2 DEF Staged, LockedAt
<1>11. \A j \in Inums : itable'[j].lock = itable[j].lock
  BY ZenonT(40), <1>7, <1>8
<1>12. Locks'
  <2>2. \A j \in Inums, q \in Procs : q \in itable'[j].lock <=> LockedAt(loc'[q], j)
    BY SMTT(30), <1>6, <1>10, <1>11 DEF IInv, Locks
  <2>3. \A j \in Inums, q, r \in Procs : q \in itable'[j].lock /\ r \in itable'[j].lock => q = r
    BY SMTT(30), <1>11 DEF IInv, Locks
  <2>4. \A j \in Inums, q \in Procs : q \in itable'[j].lock => itable'[j].valid
    <3>1. \A j \in Inums, q \in Procs : q \in itable[j].lock => itable[j].valid
      BY DEF IInv, Locks
    <3>. QED BY ZenonT(40), <1>7, <1>11, <3>1
  <2>5. ASSUME NEW q \in Procs, NEW j \in Inums, loc'[q].stage \in {"trunc", "invalid"}, Putting(loc'[q], j)
        PROVE  loc'[q].dp # j /\ (loc'[q].pc \in {"unlinked", "created"} => loc'[q].ip # j)
    <3>1. q # p
      BY ZenonT(40), <1>2, <1>6, <2>5 DEF Staged
    <3>. QED BY SMTT(30), <1>6, <2>5, <3>1 DEF IInv, Locks
  <2>. QED BY SMTT(30), <2>2, <2>3, <2>4, <2>5 DEF Locks
<1>13. Coherent'
  <2>1. ASSUME NEW j \in Inums, itable'[j].valid
        PROVE  \/ itable'[j].mem = disk'.inode[j] /\ disk'.inode[j].type # "none"
               \/ \E q \in Procs : loc'[q].stage = "invalid" /\ Putting(loc'[q], j)
    <3>1. itable[j].valid /\ itable'[j].mem = itable[j].mem
      BY ZenonT(40), <1>7, <2>1
    <3>2. \/ itable[j].mem = disk.inode[j] /\ disk.inode[j].type # "none"
          \/ \E q \in Procs : loc[q].stage = "invalid" /\ Putting(loc[q], j)
      BY ZenonT(40), <3>1 DEF IInv, Coherent
    <3>3. \A q \in Procs : loc[q].stage = "invalid" => q # p
      OBVIOUS
    <3>. QED BY ZenonT(40), <3>1, <3>2, <3>3, <1>6
  <2>. QED BY <2>1 DEF Coherent, Stays
<1>. QED BY ZenonT(40), <1>9, <1>12, <1>13, PutKept

\* Every stage of iput().
LEMMA PutsKept ==
  ASSUME IInv, NEW p \in Procs, iput(p), prog' = prog
  PROVE  IInv'
<1>. DEFINE l == loc[p]
            i == Head(l.puts)
<1>1. /\ l.puts # <<>> /\ booted /\ Stays
      /\ durable' = durable /\ ftable' = ftable /\ ofile' = ofile /\ cwd' = cwd
  BY ZenonT(40) DEF iput, Stays
<1>2. \/ /\ l.stage = "drop" /\ LastPut(i) /\ itable[i].lock = {}
         /\ itable' = [itable EXCEPT ![i].lock = {p}]
         /\ Goes(p, [l EXCEPT !.stage = "trunc"]) /\ disk' = disk
      \/ /\ l.stage = "trunc" /\ disk' = Freed(disk, i, itable[i].mem)
         /\ itable' = InMemory(itable, i, NoInode)
         /\ Goes(p, [l EXCEPT !.stage = "invalid"])
      \/ /\ l.stage = "invalid" /\ itable' = Invalidate(itable, i)
         /\ Goes(p, [l EXCEPT !.stage = "last"]) /\ disk' = disk
      \/ /\ l.stage \in {"drop", "last"} /\ itable' = Dropped(itable, i)
         /\ Goes(p, [l EXCEPT !.stage = "drop", !.puts = Tail(@)]) /\ disk' = disk
  BY ZenonT(40) DEF iput, Freed, Dropped
<1>3. Putting(l, i)
  BY ZenonT(40), <1>1, PutsOf
<1>. HIDE DEF i
<1>. QED BY ZenonT(40), <1>1, <1>2, <1>3, PutLocks, PutFrees, PutInvalidates, PutDrops

-----------------------------------------------------------------------------
(* The start of the system.                                                *)

\* Every process has the root directory as its current one, and nothing else
\* refers to an inode or a file (proc.c:227, fs.c:212).
LEMMA FreshCounts ==
  LET ls == [p \in Procs |-> Idle]
  IN  /\ \A i \in Inums : FreshTable[i].ref
                          = Cardinality(Opens(FreshFiles, i)) + Cardinality(Held(ls, FreshCwd, i))
      /\ \A f \in 1 .. NFILE : FreshFiles[f].ref = Cardinality(Fds(FreshFds, f))
<1>. DEFINE ls == [p \in Procs |-> Idle]
<1>1. IsFiniteSet(Procs) /\ Cardinality(Procs) \in Nat
  BY ZenonT(40), FsAssumption, FS_CardinalityType
<1>2. Cardinality({}) = 0
  BY ZenonT(40), FS_EmptySet
<1>3. ASSUME NEW i \in Inums
      PROVE  FreshTable[i].ref = Cardinality(Opens(FreshFiles, i)) + Cardinality(Held(ls, FreshCwd, i))
  <2>1. Opens(FreshFiles, i) = {}
    BY DEF Opens, FreshFiles, NoFile
  <2>2. i # 0
    BY DEF Inums
  <2>3. ASSUME NEW r \in Procs \X Pointers
        PROVE  Pointer(ls[r[1]], FreshCwd[r[1]], r[2]) = i <=> r[2] = "cwd" /\ i = ROOTINO
    <3>1. ls[r[1]] = Idle /\ FreshCwd[r[1]] = ROOTINO
      BY ZenonT(40) DEF FreshCwd
    <3>2. r[2] \in Pointers
      BY SMTT(30)
    <3>. QED BY SMTT(30), <2>2, <3>1, <3>2, IdleIs DEF Pointer, Pointers
  <2>4. CASE i = ROOTINO
    <3>1. Held(ls, FreshCwd, i) = Procs \X {"cwd"}
      <4>1. "cwd" \in Pointers
        BY DEF Pointers
      <4>. HIDE DEF ls
      <4>2. Held(ls, FreshCwd, i) = {r \in Procs \X Pointers : r[2] = "cwd"}
        BY ZenonT(40), <2>3, <2>4 DEF Held
      <4>. QED BY ZenonT(40), <4>1, <4>2
    <3>2. IsFiniteSet({"cwd"}) /\ Cardinality({"cwd"}) = 1
      BY ZenonT(40), FS_Singleton
    <3>3. Cardinality(Procs \X {"cwd"}) = Cardinality(Procs) * Cardinality({"cwd"})
      BY SMTT(30), <1>1, <3>2, FS_Product
    <3>4. FreshTable[i].ref = Cardinality(Procs)
      BY ZenonT(40), <2>4 DEF FreshTable, NoSlot
    <3>5. Cardinality(Procs) * 1 = Cardinality(Procs)
      BY <1>1
    <3>6. Cardinality(Held(ls, FreshCwd, i)) = Cardinality(Procs)
      BY ZenonT(40), <3>1, <3>2, <3>3, <3>5, Zenon
    <3>. HIDE DEF ls
    <3>. QED BY SMTT(30), <1>1, <1>2, <2>1, <3>4, <3>6
  <2>5. CASE i # ROOTINO
    <3>. HIDE DEF ls
    <3>1. Held(ls, FreshCwd, i) = {}
      BY ZenonT(40), <2>3, <2>5 DEF Held
    <3>2. FreshTable[i].ref = 0
      BY <2>5 DEF FreshTable, NoSlot
    <3>. QED BY SMTT(30), <1>2, <2>1, <3>1, <3>2
  <2>. QED BY SMTT(30), <2>4, <2>5
<1>4. ASSUME NEW f \in 1 .. NFILE PROVE FreshFiles[f].ref = Cardinality(Fds(FreshFds, f))
  <2>1. Fds(FreshFds, f) = {}
    BY DEF Fds, FreshFds
  <2>2. FreshFiles[f].ref = 0
    BY ZenonT(40) DEF FreshFiles, NoFile
  <2>. QED BY ZenonT(40), <1>2, <2>1, <2>2
<1>. QED BY ZenonT(40), <1>3, <1>4

\* After boot no process is in a call and nothing refers to an inode.
LEMMA FreshIs == Fresh => IInv
<1>. SUFFICES ASSUME Fresh PROVE IInv
  BY ZenonT(40)
<1>1. Idle \in Locs /\ RolesOf(Idle) /\ Idle.puts = <<>> /\ Idle.dp = 0 /\ Idle.pc = "idle" /\ Idle.stage = "drop"
  BY SMTT(30), IdleIs, Holding
<1>2. ROOTINO \in Inums /\ ROOTINO \in 0 .. NINODES /\ ROOTINO # 0
  BY FsAssumption DEF Inums, ROOTINO
<1>3. /\ FreshTable \in Tables
      /\ \A i \in Inums : FreshTable[i].lock = {} /\ ~FreshTable[i].valid
  <2>1. NoInode \in AnyInode
    BY ZenonT(40), NoInodeIs
  <2>2. Cardinality(Procs) \in Nat
    BY ZenonT(40), FsAssumption, FS_CardinalityType
  <2>3. /\ NoSlot \in [ref : Int, valid : BOOLEAN, lock : SUBSET Procs, mem : AnyInode]
        /\ [NoSlot EXCEPT !.ref = Cardinality(Procs)]
             \in [ref : Int, valid : BOOLEAN, lock : SUBSET Procs, mem : AnyInode]
        /\ NoSlot.lock = {} /\ NoSlot.valid = FALSE
        /\ [NoSlot EXCEPT !.ref = Cardinality(Procs)].lock = {}
        /\ [NoSlot EXCEPT !.ref = Cardinality(Procs)].valid = FALSE
    <3>. DEFINE c == Cardinality(Procs)
                n == NoInode
    <3>1. c \in Int /\ n \in AnyInode
      BY SMTT(30), <2>1, <2>2
    <3>2. NoSlot = [ref |-> 0, valid |-> FALSE, lock |-> {}, mem |-> n]
      BY ZenonT(40) DEF NoSlot
    <3>. HIDE DEF c, n
    <3>3. NoSlot \in [ref : Int, valid : BOOLEAN, lock : SUBSET Procs, mem : AnyInode]
      BY SMTT(30), <3>1, <3>2
    <3>4. NoSlot.lock = {} /\ NoSlot.valid = FALSE
      BY ZenonT(40), <3>2
    <3>5. /\ [NoSlot EXCEPT !.ref = c] \in [ref : Int, valid : BOOLEAN, lock : SUBSET Procs, mem : AnyInode]
          /\ [NoSlot EXCEPT !.ref = c].lock = {} /\ [NoSlot EXCEPT !.ref = c].valid = FALSE
      BY ZenonT(40), <3>1, <3>3, <3>4
    <3>. QED BY ZenonT(40), <3>3, <3>4, <3>5 DEF c
  <2>. DEFINE root == [NoSlot EXCEPT !.ref = Cardinality(Procs)]
  <2>4. FreshTable = [i \in Inums |-> IF i = ROOTINO THEN root ELSE NoSlot]
    BY DEF FreshTable
  <2>. HIDE DEF root
  <2>. QED BY ZenonT(40), <2>3, <2>4 DEF Tables, root
<1>4. Shape
  <2>1. ftable \in [1 .. NFILE -> [ref : Int, ip : 0 .. NINODES, writable : BOOLEAN]]
    BY SMTT(30), FsAssumption DEF Fresh, FreshFiles, NoFile
  <2>2. ofile \in [Procs -> [1 .. NOFILE -> 0 .. NFILE]]
    BY FsAssumption DEF Fresh, FreshFds
  <2>3. cwd \in [Procs -> 0 .. NINODES] /\ loc \in [Procs -> Locs]
    BY ZenonT(40), <1>1, <1>2 DEF Fresh, FreshCwd
  <2>. QED BY ZenonT(40), <1>3, <2>1, <2>2, <2>3 DEF Shape, Fresh
<1>5. \A p \in Procs : loc[p] = Idle /\ cwd[p] = ROOTINO
  BY ZenonT(40) DEF Fresh, FreshCwd
<1>6. Roles
  <2>1. \A f \in 1 .. NFILE : ~(ftable[f].ref > 0)
    BY DEF Fresh, FreshFiles, NoFile
  <2>. QED BY SMTT(30), <1>1, <1>2, <1>5, <2>1 DEF Roles
<1>7. RefsCounted
  BY ZenonT(40), FreshCounts DEF RefsCounted, Fresh
<1>8. Locks
  <2>1. \A i \in Inums : ~LockedAt(Idle, i) /\ ~Putting(Idle, i)
    BY <1>1 DEF LockedAt, Putting, Inums
  <2>. QED BY ZenonT(40), <1>3, <1>5, <2>1 DEF Locks, Fresh
<1>9. Coherent
  BY ZenonT(40), <1>3 DEF Coherent, Fresh
<1>. QED BY ZenonT(40), <1>4, <1>6, <1>7, <1>8, <1>9 DEF IInv, Fresh

\* After a crash the disk is that of the last commit.
LEMMA CrashKept ==
  ASSUME IInv, Crash, prog' = prog
  PROVE  IInv'
<1>1. disk' \in AnyImage /\ durable' \in AnyImage
  BY ZenonT(40) DEF Crash, IInv, Shape
<1>2. disk' = durable /\ durable' = durable /\ OwnedIn(durable)
  BY DEF Crash, IInv, Owned
<1>3. Owned'
  <2>1. OwnedIn(disk') /\ OwnedIn(durable')
    BY SMTT(30), <1>2
  <2>. QED BY ZenonT(40), <2>1 DEF Owned, OwnedIn, Blk
<1>4. Fresh'
  <2>1. prog \in Programs
    BY DEF IInv, Shape
  <2>. HIDE DEF Owned
  <2>. QED BY ZenonT(40), <1>1, <1>3, <2>1 DEF Crash, Fresh
<1>5. Fresh' => IInv'
  BY FreshIs, PTL
<1>. QED BY ZenonT(40), <1>4, <1>5

\* ireclaim() frees what it finds on disk, before anything is in the table.
LEMMA ReclaimKept ==
  ASSUME IInv, ireclaim, prog' = prog
  PROVE  IInv'
<1>1. /\ ~booted /\ itable' = itable /\ ftable' = ftable /\ ofile' = ofile /\ cwd' = cwd /\ loc' = loc
  BY DEF ireclaim
<1>2. booted' \in BOOLEAN /\ disk' \in AnyImage /\ durable' \in AnyImage /\ Owned'
  <2>1. CASE Orphans = {}
    <3>1. booted' = TRUE /\ disk' = disk /\ durable' = durable
      BY SMTT(30), <2>1 DEF ireclaim
    <3>2. disk \in AnyImage /\ durable \in AnyImage /\ OwnedIn(disk) /\ OwnedIn(durable)
      BY ZenonT(40) DEF IInv, Shape, Owned
    <3>3. OwnedIn(disk') /\ OwnedIn(durable')
      BY ZenonT(40), <3>1, <3>2
    <3>4. Owned'
      BY ZenonT(40), <3>3 DEF Owned, OwnedIn, Blk
    <3>. QED BY ZenonT(40), <3>1, <3>2, <3>4
  <2>2. CASE Orphans # {}
    <3>. DEFINE i == Min(Orphans)
    <3>1. i \in Inums
      <4>1. Orphans \subseteq Nat
        BY DEF Orphans, Inums
      <4>2. Min(Orphans) \in Orphans
        BY ZenonT(40), <2>2, <4>1, LeastIn
      <4>. QED BY SMTT(30), <4>2 DEF Orphans
    <3>2. disk' = Freed(disk, i, disk.inode[i]) /\ durable' = disk' /\ booted' = booted
      BY SMTT(30), <2>2 DEF ireclaim, Freed
    <3>. HIDE DEF i
    <3>3. disk \in AnyImage /\ OwnedIn(disk) /\ booted \in BOOLEAN
      BY ZenonT(40) DEF IInv, Shape, Owned
    <3>4. disk' \in AnyImage /\ OwnedIn(disk')
      BY ZenonT(40), <3>1, <3>2, <3>3, FreedIs
    <3>5. OwnedIn(durable')
      BY SMTT(30), <3>2, <3>4
    <3>. QED BY ZenonT(40), <3>2, <3>3, <3>4, <3>5 DEF Owned, OwnedIn, Blk
  <2>. QED BY ZenonT(40), <2>1, <2>2
<1>3. Shape'
  BY ZenonT(40), <1>1, <1>2 DEF IInv, Shape
<1>4. Roles'
  BY SMTT(30), <1>1 DEF IInv, Roles
<1>5. RefsCounted'
  BY ZenonT(40), <1>1, NotChanged DEF IInv, RefsCounted
<1>6. Locks'
  BY SMTT(30), <1>1 DEF IInv, Locks
<1>7. Coherent'
  BY ZenonT(40), <1>1 DEF IInv, Coherent
<1>. QED BY ZenonT(40), <1>2, <1>3, <1>4, <1>5, <1>6, <1>7 DEF IInv

\* The file system that mkfs makes: the root directory owns block 1.
LEMMA MkfsIs == Mkfs \in AnyImage /\ OwnedIn(Mkfs)
<1>. DEFINE root == [type |-> "dir", nlink |-> 1, size |-> 1,
                     addrs |-> [k \in 0 .. NDIRECT |-> IF k = 0 THEN 1 ELSE 0]]
            inos == [i \in Inums |-> IF i = ROOTINO THEN root ELSE NoInode]
            tab == [b \in Blocks |-> [k \in 0 .. NINDIRECT - 1 |-> 0]]
            top == [i \in Inums |-> IF i = ROOTINO
                                    THEN [n \in Entries |-> IF n \in Names THEN 0 ELSE ROOTINO]
                                    ELSE NoEnts]
<1>1. Mkfs.inode = inos /\ Mkfs.ind = tab /\ Mkfs.used = {1}
  BY ZenonT(40) DEF Mkfs
<1>2. /\ root \in AnyInode /\ root.size = 1 /\ root.type = "dir" /\ root.addrs[0] = 1
      /\ \A k \in 1 .. NDIRECT : root.addrs[k] = 0
  BY SMTT(30), Sizes DEF AnyInode
<1>3. 1 \in Blocks /\ ROOTINO \in Inums /\ 0 \in Ks
  BY Sizes DEF Blocks, Ks
<1>4. Mkfs \in AnyImage
  <2>1. inos \in [Inums -> AnyInode]
    BY ZenonT(40), <1>2, NoInodeIs
  <2>2. top \in [Inums -> [Entries -> 0 .. NINODES]]
    <3>1. ROOTINO \in 0 .. NINODES /\ 0 \in 0 .. NINODES
      BY Sizes DEF Inums
    <3>. QED BY ZenonT(40), <3>1 DEF NoEnts
  <2>3. tab \in [Blocks -> [0 .. NINDIRECT - 1 -> 0 .. NBLOCKS]]
    BY Sizes
  <2>4. {1} \in SUBSET Blocks /\ {} \in SUBSET Inums
    BY ZenonT(40), <1>3
  <2>5. Mkfs = [inode |-> inos, ents |-> top, used |-> {1}, ind |-> tab, adrift |-> {}]
    BY ZenonT(40) DEF Mkfs
  <2>. HIDE DEF inos, top, tab
  <2>. QED BY ZenonT(40), <2>1, <2>2, <2>3, <2>4, <2>5, ZenonT(40) DEF AnyImage
<1>. HIDE DEF root, tab
<1>5. /\ Mkfs.inode[ROOTINO] = root
      /\ \A i \in Inums : i # ROOTINO => Mkfs.inode[i] = NoInode
  BY SMTT(30), <1>1, <1>3
<1>6. \A k \in Ks : Blk(Mkfs, root, k) = IF k = 0 THEN 1 ELSE 0
  BY SMTT(30), <1>2, Sizes DEF Blk, Ks
<1>7. \A k \in Ks : Blk(Mkfs, NoInode, k) = 0
  BY SMTT(30), NoInodeIs, Sizes DEF Blk, Ks
<1>8. \A i \in Inums, k \in Ks :
        Blk(Mkfs, Mkfs.inode[i], k) = IF i = ROOTINO /\ k = 0 THEN 1 ELSE 0
  BY ZenonT(40), <1>5, <1>6, <1>7
<1>9. \A i \in Inums : \A bn \in 0 .. Mkfs.inode[i].size - 1 : i = ROOTINO /\ Place(bn) = 0
  BY SMTT(30), <1>2, <1>5, NoInodeIs, Sizes DEF Place
<1>10. \A i \in Inums : Mkfs.inode[i].type = "none" =>
         Mkfs.inode[i].addrs = NoInode.addrs /\ Mkfs.inode[i].size = 0
  BY ZenonT(40), <1>2, <1>5, NoInodeIs
<1>. QED BY SMTT(30), <1>1, <1>3, <1>4, <1>8, <1>9, <1>10 DEF OwnedIn

-----------------------------------------------------------------------------
(* The theorems.                                                           *)

\* The system starts with what mkfs made.
LEMMA InitIs == Init => IInv
<1>1. ASSUME Init PROVE Fresh
  <2>1. disk = Mkfs /\ durable = Mkfs
    BY ZenonT(40), <1>1 DEF Init
  <2>2. disk \in AnyImage /\ durable \in AnyImage /\ OwnedIn(disk) /\ OwnedIn(durable)
    BY ZenonT(40), <2>1, MkfsIs
  <2>. QED BY SMTT(30), <1>1, <2>2 DEF Init, Fresh, Owned
<1>. QED BY ZenonT(40), <1>1, FreshIs

\* Every step of a process keeps the invariant.
LEMMA ProcessKept ==
  ASSUME IInv, NEW p \in Procs, Step(p), prog' = prog
  PROVE  IInv'
  BY ZenonT(40), StepsKept, PutsKept

\* Every step keeps the invariant, a crash among them.
LEMMA NextKept == IInv /\ [Next]_vars => IInv'
<1>. SUFFICES ASSUME IInv, [Next]_vars PROVE IInv'
  BY ZenonT(40)
<1>0. ASSUME fsVars' = fsVars PROVE IInv'
  <2>1. /\ disk' = disk /\ durable' = durable /\ itable' = itable /\ ftable' = ftable
        /\ ofile' = ofile /\ cwd' = cwd /\ loc' = loc /\ booted' = booted /\ prog' = prog
    BY ZenonT(40), <1>0 DEF fsVars
  <2>2. Shape'
    BY ZenonT(40), <2>1 DEF IInv, Shape
  <2>3. Roles'
    BY SMTT(30), <2>1 DEF IInv, Roles
  <2>4. RefsCounted'
    BY ZenonT(40), <2>1, NotChanged DEF IInv, RefsCounted
  <2>5. Locks'
    BY SMTT(30), <2>1 DEF IInv, Locks
  <2>6. Coherent'
    BY ZenonT(40), <2>1 DEF IInv, Coherent
  <2>7. Owned'
    <3>1. OwnedIn(disk') /\ OwnedIn(durable')
      BY ZenonT(40), <2>1 DEF IInv, Owned
    <3>. QED BY ZenonT(40), <3>1 DEF Owned, OwnedIn, Blk
  <2>. QED BY SMTT(30), <2>2, <2>3, <2>4, <2>5, <2>6, <2>7 DEF IInv
<1>1. CASE Next
  <2>1. prog' = prog
    BY ZenonT(40), <1>1 DEF Next
  <2>2. CASE \E p \in Procs : Step(p)
    BY SMTT(30), <2>1, <2>2, ProcessKept
  <2>p. ASSUME NEW p \in Procs, panic(p) PROVE fsVars' = fsVars
    BY ZenonT(40), <2>p DEF panic
  <2>3. CASE Crash
    BY ZenonT(40), <2>1, <2>3, CrashKept
  <2>4. CASE ireclaim
    BY ZenonT(40), <2>1, <2>4, ReclaimKept
  <2>5. (\E p \in Procs : Step(p)) \/ Crash \/ ireclaim \/ fsVars' = fsVars
    BY ZenonT(40), <1>1, <2>p DEF Next
  <2>. QED BY ZenonT(40), <1>0, <2>2, <2>3, <2>4, <2>5
<1>2. CASE vars' = vars
  <2>1. fsVars' = fsVars
    BY ZenonT(40), <1>2 DEF vars, fsVars
  <2>. QED BY ZenonT(40), <1>0, <2>1
<1>. QED BY ZenonT(40), <1>1, <1>2

\* For any number of processes, inodes and blocks, any sizes of the tables and
\* any calls: the counts of references, who holds which inode's lock, the table
\* against the disk and the blocks against the bitmap stay in line through
\* every interleaving of system calls, crashes and recoveries.
THEOREM FsInvariance == Spec => []IInv
BY InitIs, NextKept, PTL DEF Spec

\* ip->ref is the number of pointers to the inode that processes and open files
\* have ("Referenced: ip->ref > 0 (in use)", fs.c:116), and f->ref the number of descriptors of the file:
\* iget(), idup(), iput(), filedup() and fileclose() are balanced on every path.
THEOREM InodeReferencesCounted == Spec => []RefsCounted
<1>1. IInv => RefsCounted
  BY SMTT(30) DEF IInv
<1>. QED BY <1>1, FsInvariance, PTL

\* An inode of the table that is valid and that nobody has locked is the one on
\* disk: every change in memory was written by iupdate() before iunlock(), and
\* iput() leaves no freed inode valid (fs.c:316).
THEOREM InodeTableCoherent == Spec => []CacheCoherent
<1>1. IInv => CacheCoherent
  <2>. SUFFICES ASSUME IInv, NEW i \in Inums, itable[i].valid, itable[i].lock = {}
                PROVE  itable[i].mem = disk.inode[i]
    BY DEF CacheCoherent
  <2>1. ASSUME NEW p \in Procs, loc[p].stage = "invalid", Putting(loc[p], i) PROVE FALSE
    <3>1. LockedAt(loc[p], i)
      BY SMTT(30), <2>1 DEF LockedAt
    <3>. QED BY ZenonT(40), <3>1 DEF IInv, Locks
  <2>. QED BY ZenonT(40), <2>1 DEF IInv, Coherent
<1>. QED BY <1>1, FsInvariance, PTL

\* "ip->ref == 1 means no other process can have ip locked, so this
\* acquiresleep() won't block (or deadlock)" (fs.c:307).
THEOREM LastPutNeverWaits == Spec => []LastPutIsFree
<1>1. IInv => LastPutIsFree
  <2>. SUFFICES ASSUME IInv, NEW p \in Procs, loc[p].puts # <<>>, loc[p].stage = "drop",
                       LastPut(Head(loc[p].puts))
                PROVE  itable[Head(loc[p].puts)].lock = {}
    BY ZenonT(40) DEF LastPutIsFree
  <2>1. Head(loc[p].puts) \in Inums /\ Putting(loc[p], Head(loc[p].puts))
    BY ZenonT(40), PutsOf
  <2>. QED BY ZenonT(40), <2>1, LastIsFree DEF LastPut
<1>. QED BY <1>1, FsInvariance, PTL

\* What the invariant says of an image, as BlocksOwnedOnce says it.
LEMMA OwnedOnce ==
  ASSUME NEW d \in AnyImage, OwnedIn(d)
  PROVE  LET named == UNION {{<<i, k>> : k \in Slots(d, d.inode[i])} : i \in Inums}
             at(r) == BlockAt(d, d.inode[r[1]], r[2])
         IN  /\ {at(r) : r \in named} = d.used
             /\ Cardinality(named) = Cardinality(d.used)
             /\ \A i \in Inums : \A bn \in 0 .. d.inode[i].size - 1 :
                  bmap(d, d.inode[i], bn).d = d
<1>. DEFINE named == UNION {{<<i, k>> : k \in Slots(d, d.inode[i])} : i \in Inums}
            at(r) == BlockAt(d, d.inode[r[1]], r[2])
            f == [r \in named |-> at(r)]
<1>1. \A i \in Inums : d.inode[i] \in AnyInode
  BY DEF AnyImage
<1>2. \A i \in Inums : /\ Slots(d, d.inode[i]) = {k \in Ks : Blk(d, d.inode[i], k) # 0}
                       /\ \A k \in Slots(d, d.inode[i]) :
                            BlockAt(d, d.inode[i], k) = Blk(d, d.inode[i], k)
  BY ZenonT(40), <1>1, SlotsAre
<1>3. ASSUME NEW r \in named
      PROVE  /\ r[1] \in Inums /\ r[2] \in Ks /\ r = <<r[1], r[2]>>
             /\ Blk(d, d.inode[r[1]], r[2]) # 0 /\ at(r) = Blk(d, d.inode[r[1]], r[2])
  <2>1. PICK i \in Inums : r \in {<<i, k>> : k \in Slots(d, d.inode[i])}
    BY ZenonT(40)
  <2>2. PICK k \in Slots(d, d.inode[i]) : r = <<i, k>>
    BY ZenonT(40), <2>1
  <2>. QED BY SMTT(30), <1>2, <2>2
<1>4. ASSUME NEW i \in Inums, NEW k \in Ks, Blk(d, d.inode[i], k) # 0
      PROVE  <<i, k>> \in named /\ at(<<i, k>>) = Blk(d, d.inode[i], k)
  <2>1. k \in Slots(d, d.inode[i])
    BY ZenonT(40), <1>2, <1>4
  <2>. QED BY SMTT(30), <1>2, <2>1
<1>5. /\ \A i \in Inums, k \in Ks : Blk(d, d.inode[i], k) # 0 => Blk(d, d.inode[i], k) \in d.used
      /\ \A b \in d.used : \E i \in Inums, k \in Ks : Blk(d, d.inode[i], k) = b
      /\ \A i, j \in Inums, k, l \in Ks :
           Blk(d, d.inode[i], k) # 0 /\ Blk(d, d.inode[i], k) = Blk(d, d.inode[j], l) => i = j /\ k = l
      /\ \A i \in Inums : \A bn \in 0 .. d.inode[i].size - 1 : Blk(d, d.inode[i], Place(bn)) # 0
  BY ZenonT(40) DEF OwnedIn
<1>6. d.used \subseteq Blocks /\ 0 \notin Blocks
  BY DEF AnyImage, Blocks
<1>7. \A r \in named : at(r) \in d.used
  <2>. HIDE DEF named, at
  <2>. QED BY SMTT(30), <1>3, <1>5
<1>8. \A b \in d.used : \E r \in named : at(r) = b
  <2>. SUFFICES ASSUME NEW b \in d.used PROVE \E r \in named : at(r) = b
    BY ZenonT(40)
  <2>1. PICK i \in Inums, k \in Ks : Blk(d, d.inode[i], k) = b
    BY <1>5
  <2>2. b # 0
    BY ZenonT(40), <1>6
  <2>3. <<i, k>> \in named /\ at(<<i, k>>) = b
    BY SMTT(30), <1>4, <2>1, <2>2
  <2>. HIDE DEF named, at
  <2>. QED BY ZenonT(40), <2>3
<1>9. {at(r) : r \in named} = d.used
  <2>. HIDE DEF named, at
  <2>. QED BY ZenonT(40), <1>7, <1>8
<1>10. Cardinality(named) = Cardinality(d.used)
  <2>1. f \in [named -> d.used]
    <3>. HIDE DEF named, at
    <3>. QED BY ZenonT(40), <1>7
  <2>2. \A r, s \in named : f[r] = f[s] => r = s
    <3>. SUFFICES ASSUME NEW r \in named, NEW s \in named, f[r] = f[s] PROVE r = s
      BY ZenonT(40)
    <3>1. at(r) = at(s)
      <4>. HIDE DEF named, at
      <4>. QED OBVIOUS
    <3>. HIDE DEF f
    <3>2. /\ r[1] \in Inums /\ r[2] \in Ks /\ r = <<r[1], r[2]>>
          /\ Blk(d, d.inode[r[1]], r[2]) # 0 /\ at(r) = Blk(d, d.inode[r[1]], r[2])
      BY ZenonT(40), <1>3
    <3>3. /\ s[1] \in Inums /\ s[2] \in Ks /\ s = <<s[1], s[2]>>
          /\ at(s) = Blk(d, d.inode[s[1]], s[2])
      BY ZenonT(40), <1>3
    <3>. HIDE DEF named, at
    <3>4. r[1] = s[1] /\ r[2] = s[2]
      <4>. DEFINE i == r[1]
                  j == s[1]
                  k == r[2]
                  l == s[2]
      <4>1. /\ i \in Inums /\ j \in Inums /\ k \in Ks /\ l \in Ks
            /\ Blk(d, d.inode[i], k) # 0 /\ Blk(d, d.inode[i], k) = Blk(d, d.inode[j], l)
        BY ZenonT(40), <3>1, <3>2, <3>3
      <4>2. \A w, x \in Inums, y, z \in Ks :
              Blk(d, d.inode[w], y) # 0 /\ Blk(d, d.inode[w], y) = Blk(d, d.inode[x], z) => w = x /\ y = z
        BY SMTT(30), <1>5
      <4>. HIDE DEF i, j, k, l
      <4>3. i = j /\ k = l
        BY SMTT(30), <4>1, <4>2
      <4>. QED BY <4>3 DEF i, j, k, l
    <3>. QED BY SMTT(30), <3>2, <3>3, <3>4
  <2>3. \A b \in d.used : \E r \in named : f[r] = b
    <3>. HIDE DEF named, at
    <3>. QED BY ZenonT(40), <1>8
  <2>. HIDE DEF f, named, at
  <2>4. f \in Injection(named, d.used)
    BY ZenonT(40), <2>1, <2>2 DEF Injection, IsInjective
  <2>5. f \in Surjection(named, d.used)
    BY ZenonT(40), <2>1, <2>3 DEF Surjection
  <2>6. IsFiniteSet(d.used)
    <3>1. IsFiniteSet(Blocks)
      BY SMTT(30), Sizes, FS_Interval DEF Blocks
    <3>. QED BY SMTT(30), <1>6, <3>1, FS_Subset
  <2>. QED BY ZenonT(40), <2>4, <2>5, <2>6, FS_Injection
<1>11. ASSUME NEW i \in Inums, NEW bn \in 0 .. d.inode[i].size - 1
       PROVE  bmap(d, d.inode[i], bn).d = d
  <2>. DEFINE m == d.inode[i]
  <2>1. m \in AnyInode /\ m.size \in 0 .. MAXFILE
    BY ZenonT(40), <1>1 DEF AnyInode
  <2>2. bn \in 0 .. MAXFILE - 1
    BY SMTT(30), <2>1, Sizes
  <2>3. Blk(d, m, Place(bn)) # 0
    BY ZenonT(40), <1>5
  <2>. HIDE DEF m
  <2>4. bn < NDIRECT => m.addrs[bn] # 0
    BY SMTT(30), <2>2, <2>3, Sizes DEF Blk, Place
  <2>5. bn >= NDIRECT => m.addrs[NDIRECT] # 0 /\ d.ind[m.addrs[NDIRECT]][bn - NDIRECT] # 0
    <3>. SUFFICES ASSUME bn >= NDIRECT
                  PROVE  m.addrs[NDIRECT] # 0 /\ d.ind[m.addrs[NDIRECT]][bn - NDIRECT] # 0
      OBVIOUS
    <3>1. Place(bn) = bn + 1 /\ ~(bn + 1 <= NDIRECT) /\ bn + 1 - NDIRECT - 1 = bn - NDIRECT
      BY SMTT(30), <2>2, Sizes DEF Place
    <3>2. Blk(d, m, Place(bn)) = IF m.addrs[NDIRECT] = 0 THEN 0
                                 ELSE d.ind[m.addrs[NDIRECT]][Place(bn) - NDIRECT - 1]
      BY ZenonT(40), <3>1 DEF Blk
    <3>3. Place(bn) - NDIRECT - 1 = bn - NDIRECT
      BY SMTT(30), <2>2, Sizes DEF Place
    <3>. HIDE DEF Place, Blk
    <3>. QED BY ZenonT(40), <2>3, <3>2, <3>3
  <2>6. bmap(d, m, bn).d = d
    <3>. HIDE DEF bmap
    <3>. QED BY ZenonT(40), <2>1, <2>2, <2>4, <2>5, BmapIs, Ordered
  <2>. QED BY <2>6 DEF m
<1>. HIDE DEF named, at
<1>. QED BY ZenonT(40), <1>9, <1>10, <1>11 DEF named, at

\* On disk and in every committed state, each block in use belongs to one place of
\* one inode, no inode names a free block, no block is lost, and readi() below
\* the size never allocates (balloc(), bfree(), bmap(), itrunc(), writei()).
THEOREM BlocksHaveOneOwner == Spec => []BlocksOwnedOnce
<1>1. IInv => BlocksOwnedOnce
  <2>. SUFFICES ASSUME IInv, NEW d \in {disk, durable}
                PROVE  LET named == UNION {{<<i, k>> : k \in Slots(d, d.inode[i])} : i \in Inums}
                           at(r) == BlockAt(d, d.inode[r[1]], r[2])
                       IN  /\ {at(r) : r \in named} = d.used
                           /\ Cardinality(named) = Cardinality(d.used)
                           /\ \A i \in Inums : \A bn \in 0 .. d.inode[i].size - 1 :
                                bmap(d, d.inode[i], bn).d = d
    BY ZenonT(40) DEF BlocksOwnedOnce
  <2>1. d \in AnyImage /\ OwnedIn(d)
    BY ZenonT(40) DEF IInv, Shape, Owned
  <2>. QED BY ZenonT(40), <2>1, OwnedOnce
<1>. QED BY <1>1, FsInvariance, PTL
=============================================================================
