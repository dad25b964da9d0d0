------------------------------ MODULE FsFacts -------------------------------
(***************************************************************************)
(* Facts about the operations of fs.c on the disk and on the inode table,  *)
(* and what the steps of system calls that leave files and current         *)
(* directories alone do to both.                                           *)
(***************************************************************************)
EXTENDS FsInv, TLAPS

-----------------------------------------------------------------------------
(* The operations on the inode table, column by column.                    *)

\* iget() and idup() add one to the count and change nothing else (fs.c:212, :247).
LEMMA IgetIs ==
  ASSUME NEW t \in Tables, NEW i \in Inums
  PROVE  /\ iget(t, i) \in Tables
         /\ \A j \in Inums : /\ iget(t, i)[j].ref = t[j].ref + One(j = i)
                             /\ iget(t, i)[j].valid = t[j].valid
                             /\ iget(t, i)[j].lock = t[j].lock
                             /\ iget(t, i)[j].mem = t[j].mem
BY DEF iget, Tables, One

\* ilock() reads the inode from disk if it is not valid (fs.c:268).
LEMMA LoadedIs ==
  ASSUME NEW t \in Tables, NEW i \in Inums, disk \in AnyImage
  PROVE  /\ Loaded(t, i) \in Tables
         /\ \A j \in Inums : /\ Loaded(t, i)[j].ref = t[j].ref
                             /\ Loaded(t, i)[j].valid <=> t[j].valid \/ j = i
                             /\ Loaded(t, i)[j].lock = t[j].lock
                             /\ Loaded(t, i)[j].mem = IF j = i /\ ~t[j].valid THEN disk.inode[j]
                                                      ELSE t[j].mem
<1>1. disk.inode[i] \in AnyInode
  BY ZenonT(40) DEF AnyImage
<1>. HIDE DEF AnyInode
<1>. QED BY ZenonT(40), <1>1 DEF Loaded, Tables

\* iunlock() changes only the lock (fs.c:286).
LEMMA IunlockIs ==
  ASSUME NEW t \in Tables, NEW i \in Inums
  PROVE  /\ iunlock(t, i) \in Tables
         /\ \A j \in Inums : /\ iunlock(t, i)[j].ref = t[j].ref
                             /\ iunlock(t, i)[j].valid = t[j].valid
                             /\ iunlock(t, i)[j].lock = IF j = i THEN {} ELSE t[j].lock
                             /\ iunlock(t, i)[j].mem = t[j].mem
BY ZenonT(40) DEF iunlock, Tables

\* An assignment to the fields of the inode in memory changes nothing else.
LEMMA InMemoryIs ==
  ASSUME NEW t \in Tables, NEW i \in Inums, NEW m \in AnyInode
  PROVE  /\ InMemory(t, i, m) \in Tables
         /\ \A j \in Inums : /\ InMemory(t, i, m)[j].ref = t[j].ref
                             /\ InMemory(t, i, m)[j].valid = t[j].valid
                             /\ InMemory(t, i, m)[j].lock = t[j].lock
                             /\ InMemory(t, i, m)[j].mem = IF j = i THEN m ELSE t[j].mem
BY ZenonT(40) DEF InMemory, Tables

\* What ilock() reads is the inode on the disk, and it is not a free one.
LEMMA Reads ==
  ASSUME IInv, NEW i \in Inums, CanLock(i)
  PROVE  /\ itable[i].lock = {} /\ disk.inode[i].type # "none"
         /\ itable[i].valid => itable[i].mem = disk.inode[i]
         /\ Loaded(itable, i)[i].mem = disk.inode[i]
<1>1. itable[i].lock = {}
  BY ZenonT(40) DEF CanLock
<1>2. \A p \in Procs : ~(loc[p].stage = "invalid" /\ Putting(loc[p], i))
  BY ZenonT(40), <1>1 DEF IInv, Locks, LockedAt
<1>3. itable[i].valid => itable[i].mem = disk.inode[i] /\ disk.inode[i].type # "none"
  BY ZenonT(40), <1>2 DEF IInv, Coherent
<1>4. ~itable[i].valid => disk.inode[i].type # "none"
  BY ZenonT(40) DEF CanLock, NoType
<1>5. Loaded(itable, i)[i].mem = IF ~itable[i].valid THEN disk.inode[i] ELSE itable[i].mem
  BY ZenonT(40), LoadedIs DEF IInv, Shape
<1>. QED BY ZenonT(40), <1>1, <1>3, <1>4, <1>5

-----------------------------------------------------------------------------
(* Images of the disk.                                                     *)

\* What the assumption says of the sizes.
LEMMA Sizes ==
  /\ NINODES \in Nat \ {0} /\ NBLOCKS \in Nat \ {0} /\ NDIRECT \in Nat \ {0}
  /\ NINDIRECT \in Nat \ {0} /\ NFILE \in Nat \ {0} /\ NOFILE \in Nat \ {0}
  /\ ROOTINO \in Inums /\ "." \notin Names /\ ".." \notin Names /\ MAXFILE = NDIRECT + NINDIRECT
BY FsAssumption DEF FsAssumption, ROOTINO, Inums, MAXFILE

\* A free inode has no blocks and no size.
LEMMA NoInodeIs ==
  /\ NoInode \in AnyInode /\ NoInode.type = "none" /\ NoInode.size = 0 /\ NoInode.nlink = 0
  /\ NoInode.addrs = [k \in 0 .. NDIRECT |-> 0]
BY Sizes DEF NoInode, AnyInode

\* iupdate() writes one inode and nothing else (fs.c:191).
LEMMA IupdateIs ==
  ASSUME NEW d \in AnyImage, NEW i \in Inums, NEW m \in AnyInode
  PROVE  /\ iupdate(d, i, m) \in AnyImage
         /\ iupdate(d, i, m).inode = [d.inode EXCEPT ![i] = m]
         /\ iupdate(d, i, m).used = d.used /\ iupdate(d, i, m).ind = d.ind
         /\ iupdate(d, i, m).ents = d.ents /\ iupdate(d, i, m).adrift = d.adrift
BY ZenonT(40) DEF iupdate, AnyImage

\* A change of directory entries leaves the inodes and blocks.
LEMMA EntsIs ==
  ASSUME NEW d \in AnyImage, NEW i \in Inums
  PROVE  /\ \A n \in Entries, x \in 0 .. NINODES : SameInodes([d EXCEPT !.ents[i][n] = x], d)
         /\ \A f \in [Entries -> 0 .. NINODES] : SameInodes([d EXCEPT !.ents[i] = f], d)
         /\ \A s \in SUBSET Inums : SameInodes([d EXCEPT !.adrift = s], d)
         /\ \A m, s : s \subseteq Inums => SameInodes(Astray(d, m, s), d)
<1>1. \A n \in Entries, x \in 0 .. NINODES : SameInodes([d EXCEPT !.ents[i][n] = x], d)
  BY ZenonT(40) DEF AnyImage, SameInodes
<1>2. \A f \in [Entries -> 0 .. NINODES] : SameInodes([d EXCEPT !.ents[i] = f], d)
  BY ZenonT(40) DEF AnyImage, SameInodes
<1>3. \A s \in SUBSET Inums : SameInodes([d EXCEPT !.adrift = s], d)
  BY ZenonT(40) DEF AnyImage, SameInodes
<1>4. ASSUME NEW m, NEW s \in SUBSET Inums PROVE SameInodes(Astray(d, m, s), d)
  <2>1. SameInodes(d, d)
    BY ZenonT(40) DEF SameInodes
  <2>2. d.adrift \cup s \in SUBSET Inums
    BY ZenonT(40) DEF AnyImage
  <2>3. SameInodes([d EXCEPT !.adrift = d.adrift \cup s], d)
    BY ZenonT(40), <1>3, <2>2
  <2>. QED BY ZenonT(40), <2>1, <2>3 DEF Astray
<1>. QED BY ZenonT(40), <1>1, <1>2, <1>3, <1>4

\* balloc() finds a free block, if there is one (fs.c:67).
LEMMA FirstFreeIs ==
  ASSUME WellOrdered, NEW d \in AnyImage
  PROVE  /\ FirstFree(d) \in 0 .. NBLOCKS
         /\ FirstFree(d) # 0 => FirstFree(d) \in Blocks \ d.used
<1>1. CASE d.used = Blocks
  BY <1>1, Sizes DEF FirstFree
<1>2. CASE d.used # Blocks
  <2>1. Blocks \ d.used \subseteq Nat /\ Blocks \ d.used # {}
    <3>1. d.used \subseteq Blocks
      BY ZenonT(40) DEF AnyImage
    <3>2. Blocks \subseteq Nat
      BY Sizes DEF Blocks
    <3>. QED BY ZenonT(40), <1>2, <3>1, <3>2, Zenon
  <2>2. Min(Blocks \ d.used) \in Blocks \ d.used
    BY ZenonT(40), <2>1 DEF WellOrdered
  <2>. QED BY <1>2, <2>2 DEF FirstFree, Blocks
<1>. QED BY ZenonT(40), <1>1, <1>2

\* balloc() takes the first free block and clears it (fs.c:67, :52).
LEMMA BallocIs ==
  ASSUME WellOrdered, NEW d \in AnyImage, FirstFree(d) # 0
  PROVE  /\ balloc(d) \in AnyImage /\ balloc(d).inode = d.inode
         /\ balloc(d).used = d.used \cup {FirstFree(d)}
         /\ balloc(d).ind = [d.ind EXCEPT ![FirstFree(d)] = NoInd]
<1>. DEFINE b == FirstFree(d)
<1>1. b \in Blocks /\ b # 0
  BY ZenonT(40), FirstFreeIs
<1>2. NoInd \in [0 .. NINDIRECT - 1 -> 0 .. NBLOCKS]
  BY Sizes DEF NoInd
<1>. HIDE DEF b
<1>3. balloc(d) = [d EXCEPT !.used = d.used \cup {b}, !.ind[b] = NoInd]
  BY ZenonT(40), <1>1 DEF b, balloc, NoInd
<1>4. /\ d.used \cup {b} \in SUBSET Blocks
      /\ [d.ind EXCEPT ![b] = NoInd] \in [Blocks -> [0 .. NINDIRECT - 1 -> 0 .. NBLOCKS]]
  BY ZenonT(40), <1>1, <1>2 DEF AnyImage
<1>5. balloc(d) = [d EXCEPT !.used = d.used \cup {b}, !.ind = [d.ind EXCEPT ![b] = NoInd]]
  BY ZenonT(40), <1>3 DEF AnyImage
<1>. QED BY ZenonT(40), <1>4, <1>5 DEF AnyImage, b

\* bmap() finds the block, or allocates it, or the indirect block, or both
\* (fs.c:366).
LEMMA BmapIs ==
  ASSUME WellOrdered, NEW d \in AnyImage, NEW m \in AnyInode, NEW bn \in 0 .. MAXFILE - 1
  PROVE  LET r == bmap(d, m, bn)
             b == FirstFree(d)
             c == FirstFree(balloc(d))
             a == m.addrs[NDIRECT]
         IN  \/ r.d = d /\ r.m = m /\ (r.addr # 0 => r.addr = Blk(d, m, Place(bn)))
             \/ /\ bn < NDIRECT /\ m.addrs[bn] = 0 /\ b # 0
                /\ r.d = balloc(d) /\ r.m = [m EXCEPT !.addrs[bn] = b] /\ r.addr = b
             \/ /\ bn >= NDIRECT /\ a # 0 /\ d.ind[a][bn - NDIRECT] = 0 /\ b # 0
                /\ r.d = [balloc(d) EXCEPT !.ind[a][bn - NDIRECT] = b] /\ r.m = m /\ r.addr = b
             \/ /\ bn >= NDIRECT /\ a = 0 /\ b # 0
                /\ r.d = balloc(d) /\ r.m = [m EXCEPT !.addrs[NDIRECT] = b] /\ r.addr = 0
             \/ /\ bn >= NDIRECT /\ a = 0 /\ b # 0 /\ c # 0
                /\ r.d = [balloc(balloc(d)) EXCEPT !.ind[b][bn - NDIRECT] = c]
                /\ r.m = [m EXCEPT !.addrs[NDIRECT] = b] /\ r.addr = c
<1>. DEFINE r == bmap(d, m, bn)
            b == FirstFree(d)
            c == FirstFree(balloc(d))
            a == m.addrs[NDIRECT]
<1>. USE Sizes
<1>a. m.addrs \in [0 .. NDIRECT -> 0 .. NBLOCKS] /\ a \in 0 .. NBLOCKS /\ bn \in Nat /\ b \in 0 .. NBLOCKS
  BY FirstFreeIs DEF AnyInode
<1>b. \A k \in 0 .. NDIRECT : [m EXCEPT !.addrs[k] = m.addrs[k]] = m
  BY ZenonT(40), <1>a DEF AnyInode
<1>c. b = 0 => balloc(d) = d
  BY ZenonT(40) DEF balloc
<1>1. CASE bn < NDIRECT /\ m.addrs[bn] # 0
  <2>1. r = [d |-> d, m |-> m, addr |-> m.addrs[bn]]
    BY ZenonT(40), <1>1 DEF bmap
  <2>2. Blk(d, m, Place(bn)) = m.addrs[bn]
    BY <1>1 DEF Blk, Place
  <2>. QED BY <2>1, <2>2
<1>2. CASE bn < NDIRECT /\ m.addrs[bn] = 0
  <2>1. r = [d |-> balloc(d), m |-> [m EXCEPT !.addrs[bn] = b], addr |-> b]
    BY ZenonT(40), <1>2 DEF bmap
  <2>2. CASE b = 0
    <3>1. [m EXCEPT !.addrs[bn] = b] = m
      BY <1>a, <1>b, <1>2, <2>2
    <3>. QED BY <1>c, <2>1, <2>2, <3>1
  <2>3. CASE b # 0
    BY <1>2, <2>1, <2>3
  <2>. QED BY ZenonT(40), <2>2, <2>3
<1>3. CASE bn >= NDIRECT /\ a # 0
  <2>. DEFINE slot == d.ind[a][bn - NDIRECT]
              m1 == [m EXCEPT !.addrs[NDIRECT] = a]
  <2>1. m1 = m
    BY <1>b
  <2>2. r = IF slot # 0 THEN [d |-> d, m |-> m1, addr |-> slot]
            ELSE IF b = 0 THEN [d |-> d, m |-> m1, addr |-> 0]
            ELSE [d |-> [balloc(d) EXCEPT !.ind[a][bn - NDIRECT] = b], m |-> m1, addr |-> b]
    BY <1>a, <1>3 DEF bmap
  <2>3. Blk(d, m, Place(bn)) = slot
    <3>0. bn \in Int /\ NDIRECT \in Int /\ bn >= NDIRECT
      BY <1>a, <1>3, Sizes
    <3>1. Place(bn) = bn + 1 /\ ~(bn + 1 <= NDIRECT) /\ bn + 1 - NDIRECT - 1 = bn - NDIRECT
      BY <3>0 DEF Place
    <3>. QED BY <1>3, <3>1 DEF Blk
  <2>. HIDE DEF r, m1, slot
  <2>4. CASE slot # 0
    BY <2>1, <2>2, <2>3, <2>4 DEF r
  <2>5. CASE slot = 0 /\ b = 0
    BY SMTT(30), <2>1, <2>2, <2>5 DEF r
  <2>6. CASE slot = 0 /\ b # 0
    BY <1>3, <2>1, <2>2, <2>6 DEF r, slot
  <2>. QED BY ZenonT(40), <2>4, <2>5, <2>6
<1>4. CASE bn >= NDIRECT /\ a = 0 /\ b = 0
  <2>1. r = [d |-> d, m |-> m, addr |-> 0]
    BY <1>a, <1>4 DEF bmap
  <2>. QED BY <2>1
<1>5. CASE bn >= NDIRECT /\ a = 0 /\ b # 0
  <2>. DEFINE slot == balloc(d).ind[b][bn - NDIRECT]
              m1 == [m EXCEPT !.addrs[NDIRECT] = b]
  <2>1. b \in Blocks /\ bn - NDIRECT \in 0 .. NINDIRECT - 1
    BY <1>a, <1>5, FirstFreeIs DEF MAXFILE
  <2>2. slot = 0
    <3>1. balloc(d).ind = [d.ind EXCEPT ![b] = NoInd]
      BY ZenonT(40), <1>5, BallocIs
    <3>2. DOMAIN d.ind = Blocks
      BY ZenonT(40) DEF AnyImage
    <3>. QED BY ZenonT(40), <2>1, <3>1, <3>2 DEF NoInd
  <2>3. r = IF slot # 0 THEN [d |-> balloc(d), m |-> m1, addr |-> slot]
            ELSE IF c = 0 THEN [d |-> balloc(d), m |-> m1, addr |-> 0]
            ELSE [d |-> [balloc(balloc(d)) EXCEPT !.ind[b][bn - NDIRECT] = c], m |-> m1, addr |-> c]
    BY <1>a, <1>5 DEF bmap
  <2>. HIDE DEF r, m1, slot
  <2>4. CASE c = 0
    BY SMTT(30), <1>5, <2>2, <2>3, <2>4 DEF r, m1
  <2>5. CASE c # 0
    BY <1>5, <2>2, <2>3, <2>5 DEF r, m1
  <2>. QED BY ZenonT(40), <2>4, <2>5
<1>. HIDE DEF r, b, c
<1>6. bn < NDIRECT \/ bn >= NDIRECT
  BY <1>a
<1>. QED BY ZenonT(40), <1>6, <1>1, <1>2, <1>3, <1>4, <1>5 DEF r, b, c

\* The blocks stay owned when every inode names what it named.
LEMMA SameOwned ==
  ASSUME NEW d, NEW e, OwnedIn(d), SameBlocks(e, d), Settled(e)
  PROVE  OwnedIn(e)
<1>1. /\ \A i \in Inums, k \in Ks : Blk(d, d.inode[i], k) # 0 => Blk(d, d.inode[i], k) \in d.used
      /\ \A b \in d.used : \E i \in Inums, k \in Ks : Blk(d, d.inode[i], k) = b
      /\ \A i, j \in Inums, k, l \in Ks :
           Blk(d, d.inode[i], k) # 0 /\ Blk(d, d.inode[i], k) = Blk(d, d.inode[j], l)
           => i = j /\ k = l
  BY ZenonT(40) DEF OwnedIn
<1>2. /\ e.used = d.used
      /\ \A i \in Inums, k \in Ks : Blk(e, e.inode[i], k) = Blk(d, d.inode[i], k)
  BY ZenonT(40) DEF SameBlocks
<1>3. /\ \A i \in Inums, k \in Ks : Blk(e, e.inode[i], k) # 0 => Blk(e, e.inode[i], k) \in e.used
      /\ \A b \in e.used : \E i \in Inums, k \in Ks : Blk(e, e.inode[i], k) = b
      /\ \A i, j \in Inums, k, l \in Ks :
           Blk(e, e.inode[i], k) # 0 /\ Blk(e, e.inode[i], k) = Blk(e, e.inode[j], l)
           => i = j /\ k = l
  BY <1>1, <1>2
<1>. QED BY ZenonT(40), <1>3 DEF OwnedIn, Settled

\* One more block, in a place that had none.
LEMMA GrowOwned ==
  ASSUME NEW d, NEW e, OwnedIn(d), Settled(e), NEW i \in Inums, NEW k \in Ks, NEW b,
         b \notin d.used, e.used = d.used \cup {b}, b # 0, 0 \notin d.used,
         Blk(d, d.inode[i], k) = 0, Blk(e, e.inode[i], k) = b,
         \A j \in Inums, l \in Ks : <<j, l>> # <<i, k>> =>
           Blk(e, e.inode[j], l) = Blk(d, d.inode[j], l)
  PROVE  OwnedIn(e)
<1>1. /\ \A j \in Inums, l \in Ks : Blk(d, d.inode[j], l) # 0 => Blk(d, d.inode[j], l) \in d.used
      /\ \A c \in d.used : \E j \in Inums, l \in Ks : Blk(d, d.inode[j], l) = c
      /\ \A j, h \in Inums, l, n \in Ks :
           Blk(d, d.inode[j], l) # 0 /\ Blk(d, d.inode[j], l) = Blk(d, d.inode[h], n)
           => j = h /\ l = n
  BY ZenonT(40) DEF OwnedIn
<1>2. \A j \in Inums, l \in Ks :
        Blk(e, e.inode[j], l) = IF j = i /\ l = k THEN b ELSE Blk(d, d.inode[j], l)
  BY ZenonT(40)
<1>3. \A j \in Inums, l \in Ks : Blk(e, e.inode[j], l) # 0 => Blk(e, e.inode[j], l) \in e.used
  BY <1>1, <1>2
<1>4. \A c \in e.used : \E j \in Inums, l \in Ks : Blk(e, e.inode[j], l) = c
  <2>. SUFFICES ASSUME NEW c \in e.used PROVE \E j \in Inums, l \in Ks : Blk(e, e.inode[j], l) = c
    BY ZenonT(40)
  <2>1. CASE c = b
    BY <2>1
  <2>2. CASE c \in d.used
    <3>1. PICK j \in Inums, l \in Ks : Blk(d, d.inode[j], l) = c
      BY <1>1, <2>2
    <3>2. CASE j = i /\ l = k
      BY ZenonT(40), <2>2, <3>1, <3>2
    <3>3. CASE ~(j = i /\ l = k)
      BY ZenonT(40), <1>2, <3>1, <3>3
    <3>. QED BY ZenonT(40), <3>2, <3>3
  <2>. QED BY ZenonT(40), <2>1, <2>2
<1>5. ASSUME NEW j \in Inums, NEW h \in Inums, NEW l \in Ks, NEW n \in Ks,
             Blk(e, e.inode[j], l) # 0, Blk(e, e.inode[j], l) = Blk(e, e.inode[h], n)
      PROVE  j = h /\ l = n
  BY <1>1, <1>2, <1>5
<1>. QED BY <1>3, <1>4, <1>5 DEF OwnedIn, Settled

\* A block that bmap() puts into addrs[] belongs to that place alone (fs.c:376,
\* fs.c:388).
LEMMA RootOwned ==
  ASSUME NEW d, NEW i \in Inums, NEW k \in 0 .. NDIRECT, NEW b, NEW e, GrowsRoot(d, i, k, b, e)
  PROVE  OwnedIn(e) /\ Blk(e, e.inode[i], k) = b
<1>k. NDIRECT \in Ks /\ \A m : Blk(d, m, NDIRECT) = m.addrs[NDIRECT]
  BY Sizes DEF Blk, Ks
<1>p. \A z \in 0 .. NDIRECT + NINDIRECT : \A bn \in 0 .. z - 1 : Place(bn) \in Ks
  BY Sizes DEF Place, Ks
<1>. SUFFICES ASSUME d \in AnyImage, OwnedIn(d), b \in Blocks \ d.used,
                     d.inode[i].addrs[k] = 0, d.inode[i].type # "none",
                     e \in AnyImage, e.used = d.used \cup {b},
                     e.ind[b] = NoInd, \A c \in Blocks : c # b => e.ind[c] = d.ind[c],
                     e.inode[i].type = d.inode[i].type, e.inode[i].size = d.inode[i].size,
                     \A l \in 0 .. NDIRECT :
                       e.inode[i].addrs[l] = IF l = k THEN b ELSE d.inode[i].addrs[l],
                     \A j \in Inums : j # i => e.inode[j] = d.inode[j]
              PROVE  OwnedIn(e) /\ Blk(e, e.inode[i], k) = b
  BY ZenonT(40) DEF GrowsRoot
<1>o. /\ \A j \in Inums, l \in Ks : Blk(d, d.inode[j], l) # 0 => Blk(d, d.inode[j], l) \in d.used
      /\ \A j, h \in Inums, l, n \in Ks : Blk(d, d.inode[j], l) # 0 /\ Blk(d, d.inode[j], l) = Blk(d, d.inode[h], n)
                                         => j = h /\ l = n
  BY ZenonT(40) DEF OwnedIn
<1>s. NDIRECT \in Nat \ {0} /\ NINDIRECT \in Nat \ {0} /\ MAXFILE = NDIRECT + NINDIRECT
  BY ZenonT(40), Sizes
<1>. USE <1>s DEF Ks
<1>1. k \in Ks /\ b # 0 /\ 0 \notin d.used /\ b \notin d.used
  BY DEF Blocks, AnyImage
<1>2. /\ d.inode \in [Inums -> AnyInode] /\ d.ind \in [Blocks -> [0 .. NINDIRECT - 1 -> 0 .. NBLOCKS]]
      /\ d.inode[i] \in AnyInode /\ d.inode[i].addrs \in [0 .. NDIRECT -> 0 .. NBLOCKS]
  BY ZenonT(40) DEF AnyImage, AnyInode
<1>4. Blk(d, d.inode[i], k) = 0 /\ Blk(e, e.inode[i], k) = b
  BY DEF Blk
<1>5. \A j \in Inums : d.inode[j].addrs[NDIRECT] # 0 =>
        d.inode[j].addrs[NDIRECT] \in Blocks /\ d.inode[j].addrs[NDIRECT] # b
  <2>. SUFFICES ASSUME NEW j \in Inums, d.inode[j].addrs[NDIRECT] # 0
                PROVE  d.inode[j].addrs[NDIRECT] \in Blocks /\ d.inode[j].addrs[NDIRECT] # b
    BY ZenonT(40)
  <2>1. Blk(d, d.inode[j], NDIRECT) = d.inode[j].addrs[NDIRECT] /\ NDIRECT \in Ks
    BY ZenonT(40), <1>k
  <2>2. d.inode[j].addrs[NDIRECT] \in d.used
    BY <2>1, <1>o
  <2>. QED BY ZenonT(40), <2>2, <1>1 DEF AnyImage
<1>6. ASSUME NEW j \in Inums, NEW l \in Ks, <<j, l>> # <<i, k>>
      PROVE  Blk(e, e.inode[j], l) = Blk(d, d.inode[j], l)
  <2>1. CASE j # i
    <3>1. e.inode[j] = d.inode[j]
      BY ZenonT(40), <2>1
    <3>2. d.inode[j].addrs[NDIRECT] # 0 =>
            e.ind[d.inode[j].addrs[NDIRECT]] = d.ind[d.inode[j].addrs[NDIRECT]]
      BY ZenonT(40), <1>5
    <3>. QED BY ZenonT(40), <3>1, <3>2 DEF Blk
  <2>2. CASE j = i /\ l <= NDIRECT
    <3>1. l \in 0 .. NDIRECT /\ l # k
      BY <1>6, <2>2
    <3>2. e.inode[i].addrs[l] = d.inode[i].addrs[l]
      BY ZenonT(40), <3>1
    <3>. QED BY ZenonT(40), <2>2, <3>2 DEF Blk
  <2>3. CASE j = i /\ l > NDIRECT /\ k # NDIRECT
    <3>1. e.inode[i].addrs[NDIRECT] = d.inode[i].addrs[NDIRECT]
      BY <2>3
    <3>2. d.inode[j].addrs[NDIRECT] # 0 =>
            e.ind[d.inode[j].addrs[NDIRECT]] = d.ind[d.inode[j].addrs[NDIRECT]]
      BY ZenonT(40), <1>5
    <3>. QED BY <2>3, <3>1, <3>2 DEF Blk
  <2>4. CASE j = i /\ l > NDIRECT /\ k = NDIRECT
    <3>1. e.inode[i].addrs[NDIRECT] = b /\ e.ind[b] = NoInd
      BY ZenonT(40), <2>4
    <3>2. l - NDIRECT - 1 \in 0 .. NINDIRECT - 1
      BY <2>4
    <3>3. NoInd[l - NDIRECT - 1] = 0
      BY ZenonT(40), <3>2 DEF NoInd
    <3>4. Blk(e, e.inode[j], l) = 0
      BY SMTT(30), <1>1, <2>4, <3>1, <3>3 DEF Blk
    <3>5. Blk(d, d.inode[j], l) = 0
      BY <2>4 DEF Blk
    <3>. QED BY ZenonT(40), <3>4, <3>5
  <2>. QED BY <2>1, <2>2, <2>3, <2>4
<1>7. Settled(e)
  <2>1. ASSUME NEW j \in Inums, NEW bn \in 0 .. e.inode[j].size - 1
        PROVE  Blk(e, e.inode[j], Place(bn)) # 0
    <3>1. e.inode[j].size = d.inode[j].size /\ d.inode[j].size \in 0 .. NDIRECT + NINDIRECT
      BY ZenonT(40), <1>2 DEF AnyInode
    <3>2. Place(bn) \in Ks
      BY ZenonT(40), <2>1, <3>1, <1>p
    <3>3. Blk(d, d.inode[j], Place(bn)) # 0
      BY ZenonT(40), <2>1, <3>1 DEF OwnedIn
    <3>. QED BY ZenonT(40), <1>1, <1>4, <1>6, <3>2, <3>3
  <2>2. ASSUME NEW j \in Inums, e.inode[j].type = "none"
        PROVE  e.inode[j].addrs = NoInode.addrs /\ e.inode[j].size = 0
    BY <2>2 DEF OwnedIn
  <2>. QED BY ZenonT(40), <2>1, <2>2 DEF Settled
<1>8. OwnedIn(e)
  <2>1. \A j \in Inums, l \in Ks : <<j, l>> # <<i, k>> =>
          Blk(e, e.inode[j], l) = Blk(d, d.inode[j], l)
    BY ZenonT(40), <1>6
  <2>. HIDE DEF Ks
  <2>. QED BY <1>1, <1>4, <1>7, <2>1, GrowOwned
<1>. QED BY ZenonT(40), <1>4, <1>8

\* A block that bmap() puts into the indirect block belongs to that place alone
\* (fs.c:395).
LEMMA LeafOwned ==
  ASSUME NEW d, NEW i \in Inums, NEW x \in 0 .. NINDIRECT - 1, NEW b, NEW a, NEW e,
         GrowsLeaf(d, i, x, b, a, e)
  PROVE  OwnedIn(e) /\ Blk(e, e.inode[i], NDIRECT + 1 + x) = b
<1>k. NDIRECT \in Ks /\ \A m : Blk(d, m, NDIRECT) = m.addrs[NDIRECT]
  BY Sizes DEF Blk, Ks
<1>p. \A z \in 0 .. NDIRECT + NINDIRECT : \A bn \in 0 .. z - 1 : Place(bn) \in Ks
  BY Sizes DEF Place, Ks
<1>g. d \in AnyImage /\ OwnedIn(d) /\ b \in Blocks \ d.used /\ a = d.inode[i].addrs[NDIRECT] /\ a # 0
  BY ZenonT(40) DEF GrowsLeaf
<1>o. /\ \A j \in Inums, l \in Ks : Blk(d, d.inode[j], l) # 0 => Blk(d, d.inode[j], l) \in d.used
      /\ \A j, h \in Inums, l, n \in Ks : Blk(d, d.inode[j], l) # 0 /\ Blk(d, d.inode[j], l) = Blk(d, d.inode[h], n)
                                         => j = h /\ l = n
  BY ZenonT(40), <1>g DEF OwnedIn
<1>z. 0 \notin d.used /\ d.used \subseteq Blocks /\ b \notin d.used
  BY <1>g DEF AnyImage, Blocks
<1>3. \A j \in Inums : d.inode[j].addrs[NDIRECT] # 0 =>
        /\ d.inode[j].addrs[NDIRECT] \in Blocks /\ d.inode[j].addrs[NDIRECT] # b
        /\ j # i => d.inode[j].addrs[NDIRECT] # a
  <2>. SUFFICES ASSUME NEW j \in Inums, d.inode[j].addrs[NDIRECT] # 0
                PROVE  /\ d.inode[j].addrs[NDIRECT] \in Blocks /\ d.inode[j].addrs[NDIRECT] # b
                       /\ j # i => d.inode[j].addrs[NDIRECT] # a
    BY ZenonT(40)
  <2>1. /\ Blk(d, d.inode[j], NDIRECT) = d.inode[j].addrs[NDIRECT] /\ NDIRECT \in Ks
        /\ Blk(d, d.inode[i], NDIRECT) = a
    BY ZenonT(40), <1>k, <1>g
  <2>2. d.inode[j].addrs[NDIRECT] \in d.used
    BY <2>1, <1>o, <1>g
  <2>3. j # i => d.inode[j].addrs[NDIRECT] # a
    BY <2>1, <1>o, <1>g
  <2>. QED BY ZenonT(40), <2>2, <2>3, <1>z
<1>. SUFFICES ASSUME d \in AnyImage, OwnedIn(d), b \in Blocks \ d.used,
                     a = d.inode[i].addrs[NDIRECT], a # 0, d.ind[a][x] = 0,
                     e \in AnyImage, e.used = d.used \cup {b}, e.inode = d.inode,
                     \A c \in Blocks : c # a /\ c # b => e.ind[c] = d.ind[c],
                     \A y \in 0 .. NINDIRECT - 1 :
                       e.ind[a][y] = IF y = x THEN b ELSE d.ind[a][y]
              PROVE  OwnedIn(e) /\ Blk(e, e.inode[i], NDIRECT + 1 + x) = b
  BY ZenonT(40) DEF GrowsLeaf
<1>s. NDIRECT \in Nat \ {0} /\ NINDIRECT \in Nat \ {0} /\ MAXFILE = NDIRECT + NINDIRECT
  BY ZenonT(40), Sizes
<1>. USE <1>s DEF Ks
<1>. DEFINE k == NDIRECT + 1 + x
<1>1. k \in Ks /\ b # 0 /\ 0 \notin d.used /\ b \notin d.used
  BY DEF Blocks, AnyImage
<1>2. /\ d.inode \in [Inums -> AnyInode] /\ d.ind \in [Blocks -> [0 .. NINDIRECT - 1 -> 0 .. NBLOCKS]]
      /\ \A j \in Inums : d.inode[j].addrs \in [0 .. NDIRECT -> 0 .. NBLOCKS]
  BY ZenonT(40) DEF AnyImage, AnyInode
<1>5. Blk(d, d.inode[i], k) = 0 /\ Blk(e, e.inode[i], k) = b
  <2>1. ~(k <= NDIRECT) /\ k - NDIRECT - 1 = x
    OBVIOUS
  <2>2. e.ind[a][x] = b
    BY ZenonT(40)
  <2>. QED BY ZenonT(40), <2>1, <2>2 DEF Blk
<1>6. ASSUME NEW j \in Inums, NEW l \in Ks, <<j, l>> # <<i, k>>
      PROVE  Blk(e, e.inode[j], l) = Blk(d, d.inode[j], l)
  <2>1. CASE l <= NDIRECT \/ d.inode[j].addrs[NDIRECT] = 0
    BY ZenonT(40), <2>1 DEF Blk
  <2>2. CASE j # i /\ l > NDIRECT /\ d.inode[j].addrs[NDIRECT] # 0
    <3>1. e.ind[d.inode[j].addrs[NDIRECT]] = d.ind[d.inode[j].addrs[NDIRECT]]
      BY ZenonT(40), <1>3, <2>2
    <3>. QED BY ZenonT(40), <3>1 DEF Blk
  <2>3. CASE j = i /\ l > NDIRECT
    <3>1. l - NDIRECT - 1 \in 0 .. NINDIRECT - 1 /\ l - NDIRECT - 1 # x
      BY <1>6, <2>3
    <3>2. e.ind[a][l - NDIRECT - 1] = d.ind[a][l - NDIRECT - 1]
      BY ZenonT(40), <3>1
    <3>. QED BY ZenonT(40), <2>3, <3>2 DEF Blk
  <2>. QED BY <2>1, <2>2, <2>3
<1>7. Settled(e)
  <2>1. ASSUME NEW j \in Inums, NEW bn \in 0 .. e.inode[j].size - 1
        PROVE  Blk(e, e.inode[j], Place(bn)) # 0
    <3>1. e.inode[j].size = d.inode[j].size /\ d.inode[j].size \in 0 .. NDIRECT + NINDIRECT
      BY ZenonT(40), <1>2 DEF AnyInode
    <3>2. Place(bn) \in Ks
      BY ZenonT(40), <2>1, <3>1, <1>p
    <3>3. Blk(d, d.inode[j], Place(bn)) # 0
      BY ZenonT(40), <2>1, <3>1 DEF OwnedIn
    <3>. QED BY ZenonT(40), <1>1, <1>5, <1>6, <3>2, <3>3
  <2>2. ASSUME NEW j \in Inums, e.inode[j].type = "none"
        PROVE  e.inode[j].addrs = NoInode.addrs /\ e.inode[j].size = 0
    BY <2>2 DEF OwnedIn
  <2>. QED BY ZenonT(40), <2>1, <2>2 DEF Settled
<1>. HIDE DEF k
<1>8. OwnedIn(e)
  <2>1. \A j \in Inums, l \in Ks : <<j, l>> # <<i, k>> =>
          Blk(e, e.inode[j], l) = Blk(d, d.inode[j], l)
    BY ZenonT(40), <1>6
  <2>. HIDE DEF Ks
  <2>. QED BY ZenonT(40), <1>1, <1>5, <1>7, <2>1, GrowOwned
<1>. QED BY ZenonT(40), <1>5, <1>8 DEF k

\* A slot of an indirect block is set.
LEMMA IndIs ==
  ASSUME NEW d \in AnyImage, NEW a \in Blocks, NEW x \in 0 .. NINDIRECT - 1, NEW b \in Blocks,
         NEW e, e = SetInd(d, a, x, b)
  PROVE  /\ e \in AnyImage /\ e.inode = d.inode /\ e.used = d.used
         /\ \A c \in Blocks : c # a => e.ind[c] = d.ind[c]
         /\ \A y \in 0 .. NINDIRECT - 1 : e.ind[a][y] = IF y = x THEN b ELSE d.ind[a][y]
<1>. DEFINE f == [d.ind EXCEPT ![a][x] = b]
<1>1. d.ind \in [Blocks -> [0 .. NINDIRECT - 1 -> 0 .. NBLOCKS]] /\ b \in 0 .. NBLOCKS
  BY DEF AnyImage, Blocks
<1>2. /\ f \in [Blocks -> [0 .. NINDIRECT - 1 -> 0 .. NBLOCKS]]
      /\ \A c \in Blocks : c # a => f[c] = d.ind[c]
      /\ \A y \in 0 .. NINDIRECT - 1 : f[a][y] = IF y = x THEN b ELSE d.ind[a][y]
  BY ZenonT(40), <1>1
<1>3. e = [d EXCEPT !.ind = f]
  BY ZenonT(40), <1>1 DEF AnyImage, SetInd
<1>. HIDE DEF f
<1>4. e \in AnyImage /\ e.inode = d.inode /\ e.used = d.used /\ e.ind = f
  BY ZenonT(40), <1>2, <1>3 DEF AnyImage
<1>. QED BY ZenonT(40), <1>2, <1>4

\* The same, of images named apart.
LEMMA IndSets ==
  ASSUME NEW d \in AnyImage, NEW a \in Blocks, NEW x \in 0 .. NINDIRECT - 1, NEW b \in Blocks,
         NEW e, e = SetInd(d, a, x, b)
  PROVE  IndSet(e, d, a, x, b)
<1>1. /\ e.used = d.used /\ \A c \in Blocks : c # a => e.ind[c] = d.ind[c]
      /\ \A y \in 0 .. NINDIRECT - 1 : e.ind[a][y] = IF y = x THEN b ELSE d.ind[a][y]
  BY SMTT(30), IndIs
<1>. QED BY ZenonT(40), <1>1 DEF IndSet

\* An address of an inode is set.
LEMMA AddrIs ==
  ASSUME NEW m \in AnyInode, NEW k \in 0 .. NDIRECT, NEW b \in 0 .. NBLOCKS
  PROVE  LET n == [m EXCEPT !.addrs[k] = b]
         IN  /\ n \in AnyInode /\ n.type = m.type /\ n.size = m.size /\ n.nlink = m.nlink
             /\ \A l \in 0 .. NDIRECT : n.addrs[l] = IF l = k THEN b ELSE m.addrs[l]
<1>. DEFINE n == [m EXCEPT !.addrs[k] = b]
            f == [m.addrs EXCEPT ![k] = b]
<1>1. m.addrs \in [0 .. NDIRECT -> 0 .. NBLOCKS]
  BY ZenonT(40) DEF AnyInode
<1>2. f \in [0 .. NDIRECT -> 0 .. NBLOCKS] /\ \A l \in 0 .. NDIRECT : f[l] = IF l = k THEN b ELSE m.addrs[l]
  BY ZenonT(40), <1>1
<1>3. n = [m EXCEPT !.addrs = f]
  BY ZenonT(40), <1>1 DEF AnyInode
<1>. HIDE DEF f, n
<1>4. n \in AnyInode /\ n.type = m.type /\ n.size = m.size /\ n.nlink = m.nlink /\ n.addrs = f
  BY ZenonT(40), <1>2, <1>3 DEF AnyInode
<1>. QED BY ZenonT(40), <1>2, <1>4 DEF n

\* bmap() leaves the inodes of the disk, and all of its own but addrs.
LEMMA BmapTypes ==
  ASSUME WellOrdered, NEW d \in AnyImage, NEW m \in AnyInode, NEW bn \in 0 .. MAXFILE - 1
  PROVE  LET r == bmap(d, m, bn)
         IN  /\ r.d \in AnyImage /\ r.d.inode = d.inode
             /\ r.m \in AnyInode /\ r.m.type = m.type /\ r.m.size = m.size /\ r.m.nlink = m.nlink
<1>. DEFINE r == bmap(d, m, bn)
            b == FirstFree(d)
            c == FirstFree(balloc(d))
            a == m.addrs[NDIRECT]
<1>0. \/ r.d = d /\ r.m = m /\ (r.addr # 0 => r.addr = Blk(d, m, Place(bn)))
      \/ /\ bn < NDIRECT /\ m.addrs[bn] = 0 /\ b # 0
         /\ r.d = balloc(d) /\ r.m = [m EXCEPT !.addrs[bn] = b] /\ r.addr = b
      \/ /\ bn >= NDIRECT /\ a # 0 /\ d.ind[a][bn - NDIRECT] = 0 /\ b # 0
         /\ r.d = [balloc(d) EXCEPT !.ind[a][bn - NDIRECT] = b] /\ r.m = m /\ r.addr = b
      \/ /\ bn >= NDIRECT /\ a = 0 /\ b # 0
         /\ r.d = balloc(d) /\ r.m = [m EXCEPT !.addrs[NDIRECT] = b] /\ r.addr = 0
      \/ /\ bn >= NDIRECT /\ a = 0 /\ b # 0 /\ c # 0
         /\ r.d = [balloc(balloc(d)) EXCEPT !.ind[b][bn - NDIRECT] = c]
         /\ r.m = [m EXCEPT !.addrs[NDIRECT] = b] /\ r.addr = c
  BY ZenonT(40), BmapIs
<1>s. NDIRECT \in Nat \ {0} /\ NINDIRECT \in Nat \ {0} /\ MAXFILE = NDIRECT + NINDIRECT
  BY ZenonT(40), Sizes
<1>1. a \in 0 .. NBLOCKS /\ (a # 0 => a \in Blocks)
  BY <1>s, Sizes DEF AnyInode, Blocks
<1>2. b # 0 => /\ b \in Blocks /\ b \in 0 .. NBLOCKS
               /\ balloc(d) \in AnyImage /\ balloc(d).inode = d.inode
  BY ZenonT(40), FirstFreeIs, BallocIs
<1>3. b # 0 /\ c # 0 => /\ c \in Blocks
                        /\ balloc(balloc(d)) \in AnyImage /\ balloc(balloc(d)).inode = d.inode
  BY ZenonT(40), <1>2, FirstFreeIs, BallocIs
<1>4. bn >= NDIRECT => bn - NDIRECT \in 0 .. NINDIRECT - 1
  BY <1>s
<1>5. CASE r.d = d /\ r.m = m
  BY ZenonT(40), <1>5
<1>6. CASE /\ bn < NDIRECT /\ m.addrs[bn] = 0 /\ b # 0
           /\ r.d = balloc(d) /\ r.m = [m EXCEPT !.addrs[bn] = b] /\ r.addr = b
  <2>1. bn \in 0 .. NDIRECT
    BY <1>6, <1>s
  <2>. QED BY <1>2, <1>6, <2>1, AddrIs
<1>7. CASE /\ bn >= NDIRECT /\ a # 0 /\ d.ind[a][bn - NDIRECT] = 0 /\ b # 0
           /\ r.d = [balloc(d) EXCEPT !.ind[a][bn - NDIRECT] = b] /\ r.m = m /\ r.addr = b
  <2>. HIDE DEF a, b
  <2>1. r.d \in AnyImage /\ r.d.inode = balloc(d).inode
    BY <1>1, <1>2, <1>4, <1>7, IndIs DEF SetInd
  <2>. QED BY ZenonT(40), <1>2, <1>7, <2>1
<1>8. CASE /\ bn >= NDIRECT /\ a = 0 /\ b # 0
           /\ r.d = balloc(d) /\ r.m = [m EXCEPT !.addrs[NDIRECT] = b] /\ r.addr = 0
  <2>1. NDIRECT \in 0 .. NDIRECT
    BY <1>s
  <2>. QED BY <1>2, <1>8, <2>1, AddrIs
<1>9. CASE /\ bn >= NDIRECT /\ a = 0 /\ b # 0 /\ c # 0
           /\ r.d = [balloc(balloc(d)) EXCEPT !.ind[b][bn - NDIRECT] = c]
           /\ r.m = [m EXCEPT !.addrs[NDIRECT] = b] /\ r.addr = c
  <2>1. NDIRECT \in 0 .. NDIRECT
    BY <1>s
  <2>. HIDE DEF b, c
  <2>2. r.d \in AnyImage /\ r.d.inode = balloc(balloc(d)).inode
    BY <1>2, <1>3, <1>4, <1>9, IndIs DEF SetInd
  <2>3. r.m \in AnyInode /\ r.m.type = m.type /\ r.m.size = m.size /\ r.m.nlink = m.nlink
    BY <1>2, <1>9, <2>1, AddrIs
  <2>. QED BY ZenonT(40), <1>3, <1>9, <2>2, <2>3
<1>. HIDE DEF r, a, b, c
<1>. QED BY ZenonT(40), <1>0, <1>5, <1>6, <1>7, <1>8, <1>9 DEF r

\* writei() changes one inode, and of that not the type or the links.
LEMMA WriteiIs ==
  ASSUME WellOrdered, NEW d \in AnyImage, NEW i \in Inums, NEW m \in AnyInode, NEW bn \in 0 .. MAXFILE - 1,
         NEW copied
  PROVE  LET e == writei(d, i, m, bn, copied)
             r == bmap(d, m, bn)
         IN  /\ e \in AnyImage /\ \A j \in Inums : j # i => e.inode[j] = d.inode[j]
             /\ e.used = r.d.used /\ e.ind = r.d.ind
             /\ e.inode[i].type = m.type /\ e.inode[i].nlink = m.nlink
             /\ e.inode[i].addrs = r.m.addrs
             /\ e.inode[i].size = IF r.addr # 0 /\ copied /\ bn >= m.size THEN bn + 1 ELSE m.size
<1>. DEFINE e == writei(d, i, m, bn, copied)
            r == bmap(d, m, bn)
            z == IF r.addr # 0 /\ copied /\ bn >= m.size THEN bn + 1 ELSE m.size
            n == [r.m EXCEPT !.size = z]
<1>1. /\ r.d \in AnyImage /\ r.d.inode = d.inode
      /\ r.m \in AnyInode /\ r.m.type = m.type /\ r.m.size = m.size /\ r.m.nlink = m.nlink
  BY ZenonT(40), BmapTypes
<1>2. e = iupdate(r.d, i, n)
  BY ZenonT(40), <1>1 DEF writei, iupdate
<1>3. z \in 0 .. MAXFILE
  BY Sizes DEF AnyInode
<1>. HIDE DEF r, z, e
<1>4. n \in AnyInode /\ n.type = m.type /\ n.nlink = m.nlink /\ n.size = z /\ n.addrs = r.m.addrs
  BY ZenonT(40), <1>1, <1>3 DEF AnyInode
<1>. HIDE DEF n
<1>5. e \in AnyImage /\ e.inode = [d.inode EXCEPT ![i] = n] /\ e.used = r.d.used /\ e.ind = r.d.ind
  BY <1>1, <1>2, <1>4, IupdateIs
<1>6. d.inode \in [Inums -> AnyInode]
  BY ZenonT(40) DEF AnyImage
<1>. QED BY ZenonT(40), <1>4, <1>5, <1>6 DEF e, r, z

\* ... so the other inodes stay as they are, and this one keeps its type.
LEMMA WriteiKeeps ==
  ASSUME WellOrdered, NEW d \in AnyImage, NEW i \in Inums, NEW m \in AnyInode, NEW bn \in 0 .. MAXFILE - 1,
         NEW copied \in BOOLEAN
  PROVE  /\ writei(d, i, m, bn, copied) \in AnyImage
         /\ \A j \in Inums : j # i => writei(d, i, m, bn, copied).inode[j] = d.inode[j]
         /\ writei(d, i, m, bn, copied).inode[i].type = m.type
BY WriteiIs

\* The inode of writei() is owned as the old one was (fs.c:489).
LEMMA WriteiOwned ==
  ASSUME WellOrdered, NEW d \in AnyImage, OwnedIn(d), NEW i \in Inums, NEW m \in AnyInode,
         m.addrs = d.inode[i].addrs, m.size = d.inode[i].size, m.type # "none",
         NEW bn \in 0 .. MAXFILE - 1, bn <= m.size, NEW copied
  PROVE  OwnedIn(writei(d, i, m, bn, copied))
<1>. DEFINE r == bmap(d, m, bn)
            b == FirstFree(d)
            c == FirstFree(balloc(d))
            a == m.addrs[NDIRECT]
            w == writei(d, i, m, bn, copied)
            z == IF r.addr # 0 /\ copied /\ bn >= m.size THEN bn + 1 ELSE m.size
            e == iupdate(r.d, i, r.m)
            g == iupdate(d, i, m)
<1>0. \/ r.d = d /\ r.m = m /\ (r.addr # 0 => r.addr = Blk(d, m, Place(bn)))
      \/ /\ bn < NDIRECT /\ m.addrs[bn] = 0 /\ b # 0
         /\ r.d = balloc(d) /\ r.m = [m EXCEPT !.addrs[bn] = b] /\ r.addr = b
      \/ /\ bn >= NDIRECT /\ a # 0 /\ d.ind[a][bn - NDIRECT] = 0 /\ b # 0
         /\ r.d = [balloc(d) EXCEPT !.ind[a][bn - NDIRECT] = b] /\ r.m = m /\ r.addr = b
      \/ /\ bn >= NDIRECT /\ a = 0 /\ b # 0
         /\ r.d = balloc(d) /\ r.m = [m EXCEPT !.addrs[NDIRECT] = b] /\ r.addr = 0
      \/ /\ bn >= NDIRECT /\ a = 0 /\ b # 0 /\ c # 0
         /\ r.d = [balloc(balloc(d)) EXCEPT !.ind[b][bn - NDIRECT] = c]
         /\ r.m = [m EXCEPT !.addrs[NDIRECT] = b] /\ r.addr = c
  BY ZenonT(40), BmapIs
<1>s. NDIRECT \in Nat \ {0} /\ NINDIRECT \in Nat \ {0} /\ MAXFILE = NDIRECT + NINDIRECT
  BY ZenonT(40), Sizes
<1>1. /\ r.d \in AnyImage /\ r.d.inode = d.inode
      /\ r.m \in AnyInode /\ r.m.type = m.type /\ r.m.size = m.size
  BY ZenonT(40), BmapTypes
<1>2. /\ w \in AnyImage /\ \A j \in Inums : j # i => w.inode[j] = d.inode[j]
      /\ w.used = r.d.used /\ w.ind = r.d.ind
      /\ w.inode[i].type = m.type /\ w.inode[i].addrs = r.m.addrs /\ w.inode[i].size = z
  BY WriteiIs
<1>3. d.inode \in [Inums -> AnyInode] /\ d.ind \in [Blocks -> [0 .. NINDIRECT - 1 -> 0 .. NBLOCKS]]
  BY ZenonT(40) DEF AnyImage
<1>4. /\ e \in AnyImage /\ e.used = r.d.used /\ e.ind = r.d.ind /\ e.inode[i] = r.m
      /\ \A j \in Inums : j # i => e.inode[j] = d.inode[j]
  <2>1. e \in AnyImage /\ e.used = r.d.used /\ e.ind = r.d.ind /\ e.inode = [r.d.inode EXCEPT ![i] = r.m]
    BY <1>1, IupdateIs
  <2>. QED BY ZenonT(40), <1>1, <1>3, <2>1
<1>5. /\ g \in AnyImage /\ g.used = d.used /\ g.ind = d.ind /\ g.inode[i] = m
      /\ \A j \in Inums : j # i => g.inode[j] = d.inode[j]
  <2>1. g \in AnyImage /\ g.used = d.used /\ g.ind = d.ind /\ g.inode = [d.inode EXCEPT ![i] = m]
    BY ZenonT(40), IupdateIs
  <2>. QED BY ZenonT(40), <1>3, <2>1
<1>6. OwnedIn(g)
  <2>1. \A j \in Inums : g.inode[j].addrs = d.inode[j].addrs /\ g.inode[j].size = d.inode[j].size
    BY ZenonT(40), <1>5
  <2>2. \A j \in Inums, k \in Ks : Blk(g, g.inode[j], k) = Blk(d, d.inode[j], k)
    BY ZenonT(40), <1>5, <2>1 DEF Blk
  <2>3. SameBlocks(g, d)
    BY ZenonT(40), <1>5, <2>2 DEF SameBlocks
  <2>4. ASSUME NEW j \in Inums, NEW x \in 0 .. g.inode[j].size - 1
        PROVE  Blk(g, g.inode[j], Place(x)) # 0
    <3>1. Place(x) \in Ks
      <4>1. d.inode[j].size \in 0 .. NDIRECT + NINDIRECT
        BY ZenonT(40), <1>3, <1>s DEF AnyInode
      <4>. QED BY <1>s, <2>1, <2>4, <4>1 DEF Ks, Place
    <3>. QED BY SMTT(30), <2>1, <2>2, <2>4, <3>1 DEF OwnedIn
  <2>5. ASSUME NEW j \in Inums, g.inode[j].type = "none"
        PROVE  g.inode[j].addrs = NoInode.addrs /\ g.inode[j].size = 0
    BY ZenonT(40), <1>5, <2>5 DEF OwnedIn
  <2>. HIDE DEF g
  <2>. QED BY ZenonT(40), <2>3, <2>4, <2>5, SameOwned DEF Settled
<1>7. a \in 0 .. NBLOCKS /\ (a # 0 => a \in Blocks /\ a \in d.used)
  <2>1. a \in 0 .. NBLOCKS
    BY SMTT(30), <1>s DEF AnyInode
  <2>2. Blk(d, d.inode[i], NDIRECT) = a /\ NDIRECT \in Ks
    BY <1>s DEF Blk, Ks
  <2>3. a # 0 => a \in d.used
    BY <2>2 DEF OwnedIn
  <2>. QED BY ZenonT(40), <2>1, <2>3 DEF AnyImage
<1>d. b # 0 => balloc(d) \in AnyImage /\ balloc(d).inode = d.inode
  BY ZenonT(40), BallocIs
<1>8. b # 0 => /\ b \in Blocks \ d.used /\ b \in 0 .. NBLOCKS /\ balloc(d) \in AnyImage
               /\ balloc(d).used = d.used \cup {b} /\ balloc(d).ind = [d.ind EXCEPT ![b] = NoInd]
  BY ZenonT(40), FirstFreeIs, BallocIs
<1>. HIDE DEF r, a, b, c, w, z, e, g
<1>9. OwnedIn(e) /\ (r.addr # 0 => Blk(e, e.inode[i], Place(bn)) # 0)
  <2>1. CASE r.d = d /\ r.m = m /\ (r.addr # 0 => r.addr = Blk(d, m, Place(bn)))
    <3>1. e = g
      BY ZenonT(40), <2>1 DEF e, g
    <3>2. Blk(g, g.inode[i], Place(bn)) = Blk(d, m, Place(bn))
      BY ZenonT(40), <1>5 DEF Blk
    <3>. QED BY ZenonT(40), <1>6, <2>1, <3>1, <3>2
  <2>2. CASE /\ bn < NDIRECT /\ m.addrs[bn] = 0 /\ b # 0
             /\ r.d = balloc(d) /\ r.m = [m EXCEPT !.addrs[bn] = b] /\ r.addr = b
    <3>1. bn \in 0 .. NDIRECT /\ Place(bn) = bn
      BY <1>s, <2>2 DEF Place
    <3>2. \A l \in 0 .. NDIRECT : r.m.addrs[l] = IF l = bn THEN b ELSE m.addrs[l]
      BY <1>8, <2>2, <3>1, AddrIs
    <3>3. /\ e.used = g.used \cup {b} /\ e.ind[b] = NoInd
          /\ \A x \in Blocks : x # b => e.ind[x] = g.ind[x]
      BY <1>3, <1>4, <1>5, <1>8, <2>2
    <3>h. /\ g \in AnyImage /\ OwnedIn(g) /\ b \in Blocks \ g.used /\ g.inode[i].addrs[bn] = 0
          /\ g.inode[i].type # "none" /\ e \in AnyImage
          /\ e.inode[i].type = g.inode[i].type /\ e.inode[i].size = g.inode[i].size
          /\ \A j \in Inums : j # i => e.inode[j] = g.inode[j]
      BY <1>1, <1>4, <1>5, <1>6, <1>8, <2>2
    <3>a. \A l \in 0 .. NDIRECT : e.inode[i].addrs[l] = IF l = bn THEN b ELSE g.inode[i].addrs[l]
      BY ZenonT(40), <1>4, <1>5, <3>2
    <3>4. OwnedIn(e) /\ Blk(e, e.inode[i], bn) = b
      <4>1. GrowsRoot(g, i, bn, b, e)
        BY ZenonT(40), <3>3, <3>a, <3>h DEF GrowsRoot
      <4>. QED BY <3>1, <4>1, RootOwned
    <3>. QED BY ZenonT(40), <2>2, <3>1, <3>4
  <2>3. CASE /\ bn >= NDIRECT /\ a # 0 /\ d.ind[a][bn - NDIRECT] = 0 /\ b # 0
             /\ r.d = [balloc(d) EXCEPT !.ind[a][bn - NDIRECT] = b] /\ r.m = m /\ r.addr = b
    <3>. DEFINE x == bn - NDIRECT
    <3>1. x \in 0 .. NINDIRECT - 1 /\ Place(bn) = NDIRECT + 1 + x
      BY <1>s, <2>3 DEF Place
    <3>2. /\ a \in Blocks /\ a # b /\ b \in Blocks
          /\ \A y \in Blocks : y # b => balloc(d).ind[y] = d.ind[y]
      BY ZenonT(40), <1>3, <1>7, <1>8, <2>3
    <3>. HIDE DEF x
    <3>3. /\ r.d.used = balloc(d).used
          /\ \A y \in Blocks : y # a => r.d.ind[y] = balloc(d).ind[y]
          /\ \A y \in 0 .. NINDIRECT - 1 : r.d.ind[a][y] = IF y = x THEN b ELSE balloc(d).ind[a][y]
      BY <1>8, <2>3, <3>1, <3>2, IndIs DEF x, SetInd
    <3>4. /\ e.used = g.used \cup {b}
          /\ \A y \in Blocks : y # a /\ y # b => e.ind[y] = g.ind[y]
          /\ \A y \in 0 .. NINDIRECT - 1 : e.ind[a][y] = IF y = x THEN b ELSE g.ind[a][y]
      BY <1>4, <1>5, <1>8, <2>3, <3>2, <3>3
    <3>5. e.inode = g.inode
      <4>1. e.inode \in [Inums -> AnyInode] /\ g.inode \in [Inums -> AnyInode]
        BY ZenonT(40), <1>4, <1>5 DEF AnyImage
      <4>. QED BY <1>4, <1>5, <2>3, <4>1
    <3>6. a = g.inode[i].addrs[NDIRECT] /\ g.ind[a][x] = 0 /\ b \in Blocks \ g.used
      BY ZenonT(40), <1>5, <1>8, <2>3 DEF a, x
    <3>h. g \in AnyImage /\ OwnedIn(g) /\ a # 0 /\ e \in AnyImage
      BY ZenonT(40), <1>4, <1>5, <1>6, <2>3
    <3>7. OwnedIn(e) /\ Blk(e, e.inode[i], NDIRECT + 1 + x) = b
      <4>1. GrowsLeaf(g, i, x, b, a, e)
        BY ZenonT(40), <3>h, <3>4, <3>5, <3>6 DEF GrowsLeaf
      <4>. QED BY <3>1, <4>1, LeafOwned
    <3>. QED BY ZenonT(40), <2>3, <3>1, <3>7
  <2>4. CASE /\ bn >= NDIRECT /\ a = 0 /\ b # 0
             /\ r.d = balloc(d) /\ r.m = [m EXCEPT !.addrs[NDIRECT] = b] /\ r.addr = 0
    <3>1. NDIRECT \in 0 .. NDIRECT
      BY <1>s
    <3>2. \A l \in 0 .. NDIRECT : r.m.addrs[l] = IF l = NDIRECT THEN b ELSE m.addrs[l]
      BY <1>8, <2>4, <3>1, AddrIs
    <3>3. /\ e.used = g.used \cup {b} /\ e.ind[b] = NoInd
          /\ \A x \in Blocks : x # b => e.ind[x] = g.ind[x]
      BY <1>3, <1>4, <1>5, <1>8, <2>4
    <3>4. g.inode[i].addrs[NDIRECT] = 0
      BY ZenonT(40), <1>5, <2>4 DEF a
    <3>h. /\ g \in AnyImage /\ OwnedIn(g) /\ b \in Blocks \ g.used
          /\ g.inode[i].type # "none" /\ e \in AnyImage
          /\ e.inode[i].type = g.inode[i].type /\ e.inode[i].size = g.inode[i].size
          /\ \A j \in Inums : j # i => e.inode[j] = g.inode[j]
      BY <1>1, <1>4, <1>5, <1>6, <1>8, <2>4
    <3>a. \A l \in 0 .. NDIRECT : e.inode[i].addrs[l] = IF l = NDIRECT THEN b ELSE g.inode[i].addrs[l]
      BY ZenonT(40), <1>4, <1>5, <3>2
    <3>5. OwnedIn(e)
      <4>1. GrowsRoot(g, i, NDIRECT, b, e)
        BY ZenonT(40), <3>3, <3>4, <3>a, <3>h DEF GrowsRoot
      <4>. QED BY ZenonT(40), <3>1, <4>1, RootOwned
    <3>. QED BY ZenonT(40), <2>4, <3>5
  <2>5. CASE /\ bn >= NDIRECT /\ a = 0 /\ b # 0 /\ c # 0
             /\ r.d = [balloc(balloc(d)) EXCEPT !.ind[b][bn - NDIRECT] = c]
             /\ r.m = [m EXCEPT !.addrs[NDIRECT] = b] /\ r.addr = c
    <3>. DEFINE x == bn - NDIRECT
                h == iupdate(balloc(d), i, r.m)
    <3>1. /\ NDIRECT \in 0 .. NDIRECT /\ x \in 0 .. NINDIRECT - 1
          /\ Place(bn) = NDIRECT + 1 + x
      BY <1>s, <2>5 DEF Place
    <3>2. \A l \in 0 .. NDIRECT : r.m.addrs[l] = IF l = NDIRECT THEN b ELSE m.addrs[l]
      BY <1>8, <2>5, <3>1, AddrIs
    <3>3. /\ h \in AnyImage /\ h.used = balloc(d).used /\ h.ind = balloc(d).ind /\ h.inode[i] = r.m
          /\ \A j \in Inums : j # i => h.inode[j] = d.inode[j]
      <4>1. balloc(d) \in AnyImage /\ balloc(d).inode = d.inode
        BY ZenonT(40), <1>d, <2>5
      <4>2. r.m \in AnyInode
        BY ZenonT(40), <1>1
      <4>3. /\ h \in AnyImage /\ h.used = balloc(d).used /\ h.ind = balloc(d).ind
            /\ h.inode = [balloc(d).inode EXCEPT ![i] = r.m]
        BY ZenonT(40), <4>1, <4>2, IupdateIs
      <4>. HIDE DEF h
      <4>. QED BY ZenonT(40), <1>3, <4>1, <4>3
    <3>. HIDE DEF h, x
    <3>4. /\ h.used = g.used \cup {b} /\ h.ind[b] = NoInd
          /\ \A y \in Blocks : y # b => h.ind[y] = g.ind[y]
      BY <1>3, <1>5, <1>8, <2>5, <3>3
    <3>5. g.inode[i].addrs[NDIRECT] = 0
      BY ZenonT(40), <1>5, <2>5 DEF a
    <3>h. /\ g \in AnyImage /\ OwnedIn(g) /\ b \in Blocks \ g.used
          /\ g.inode[i].type # "none" /\ h \in AnyImage
          /\ h.inode[i].type = g.inode[i].type /\ h.inode[i].size = g.inode[i].size
          /\ \A j \in Inums : j # i => h.inode[j] = g.inode[j]
      BY <1>1, <1>5, <1>6, <1>8, <2>5, <3>3
    <3>a. \A l \in 0 .. NDIRECT : h.inode[i].addrs[l] = IF l = NDIRECT THEN b ELSE g.inode[i].addrs[l]
      BY ZenonT(40), <1>5, <3>2, <3>3
    <3>6. OwnedIn(h)
      <4>1. GrowsRoot(g, i, NDIRECT, b, h)
        BY ZenonT(40), <3>4, <3>5, <3>a, <3>h DEF GrowsRoot
      <4>. QED BY ZenonT(40), <3>1, <4>1, RootOwned
    <3>7. /\ c \in Blocks \ balloc(d).used
          /\ balloc(balloc(d)) \in AnyImage
          /\ balloc(balloc(d)).used = balloc(d).used \cup {c}
          /\ balloc(balloc(d)).ind = [balloc(d).ind EXCEPT ![c] = NoInd]
      BY ZenonT(40), <1>8, <2>5, FirstFreeIs, BallocIs DEF c
    <3>8. b \in Blocks /\ b # c /\ b \in balloc(d).used /\ b # 0
      BY ZenonT(40), <1>8, <2>5, <3>7
    <3>9. DOMAIN balloc(d).ind = Blocks
      BY ZenonT(40), <1>8, <2>5 DEF AnyImage
    <3>10. /\ r.d.used = balloc(balloc(d)).used
           /\ \A y \in Blocks : y # b => r.d.ind[y] = balloc(balloc(d)).ind[y]
           /\ \A y \in 0 .. NINDIRECT - 1 :
                r.d.ind[b][y] = IF y = x THEN c ELSE balloc(balloc(d)).ind[b][y]
      <4>1. c \in Blocks /\ r.d = [balloc(balloc(d)) EXCEPT !.ind[b][x] = c]
        BY ZenonT(40), <2>5, <3>7 DEF x
      <4>2. balloc(balloc(d)) \in AnyImage /\ b \in Blocks /\ x \in 0 .. NINDIRECT - 1
        BY ZenonT(40), <3>1, <3>7, <3>8
      <4>3. PICK v : v = balloc(balloc(d))
        BY ZenonT(40)
      <4>4. /\ v \in AnyImage /\ r.d = SetInd(v, b, x, c)
            /\ b \in Blocks /\ c \in Blocks /\ x \in 0 .. NINDIRECT - 1
        BY <4>1, <4>2, <4>3 DEF SetInd
      <4>5. /\ r.d.used = v.used /\ \A y \in Blocks : y # b => r.d.ind[y] = v.ind[y]
            /\ \A y \in 0 .. NINDIRECT - 1 : r.d.ind[b][y] = IF y = x THEN c ELSE v.ind[b][y]
        <5>1. IndSet(r.d, v, b, x, c)
          BY ZenonT(40), <4>4, IndSets
        <5>. QED BY ZenonT(40), <5>1 DEF IndSet
      <4>. QED BY ZenonT(40), <4>3, <4>5
    <3>11. \A y \in Blocks : y # c => balloc(balloc(d)).ind[y] = h.ind[y]
      BY ZenonT(40), <3>3, <3>7, <3>9
    <3>12. /\ e.used = h.used \cup {c}
           /\ \A y \in Blocks : y # b /\ y # c => e.ind[y] = h.ind[y]
           /\ \A y \in 0 .. NINDIRECT - 1 : e.ind[b][y] = IF y = x THEN c ELSE h.ind[b][y]
      BY SMTT(30), <1>4, <3>3, <3>7, <3>8, <3>10, <3>11
    <3>13. e.inode = h.inode
      <4>1. e.inode \in [Inums -> AnyInode] /\ h.inode \in [Inums -> AnyInode]
        BY ZenonT(40), <1>4, <3>3 DEF AnyImage
      <4>. QED BY <1>4, <3>3, <4>1
    <3>14. b = h.inode[i].addrs[NDIRECT] /\ h.ind[b][x] = 0 /\ c \in Blocks \ h.used
      BY ZenonT(40), <3>1, <3>2, <3>3, <3>4, <3>7 DEF NoInd
    <3>i. h \in AnyImage /\ e \in AnyImage /\ b # 0
      BY ZenonT(40), <1>4, <3>3, <3>8
    <3>15. OwnedIn(e) /\ Blk(e, e.inode[i], NDIRECT + 1 + x) = c
      <4>1. GrowsLeaf(h, i, x, c, b, e)
        BY ZenonT(40), <3>i, <3>6, <3>12, <3>13, <3>14 DEF GrowsLeaf
      <4>. QED BY <3>1, <4>1, LeafOwned
    <3>. QED BY ZenonT(40), <2>5, <3>1, <3>15
  <2>. QED BY ZenonT(40), <1>0, <2>1, <2>2, <2>3, <2>4, <2>5
<1>10. \A j \in Inums, k \in Ks : Blk(w, w.inode[j], k) = Blk(e, e.inode[j], k)
  <2>1. \A j \in Inums : w.inode[j].addrs = e.inode[j].addrs
    BY ZenonT(40), <1>2, <1>4
  <2>. QED BY ZenonT(40), <1>2, <1>4, <2>1 DEF Blk
<1>11. ASSUME NEW j \in Inums, NEW x \in 0 .. w.inode[j].size - 1
       PROVE  Blk(w, w.inode[j], Place(x)) # 0
  <2>1. w.inode[j].size \in 0 .. NDIRECT + NINDIRECT
    BY ZenonT(40), <1>2, <1>s DEF AnyImage, AnyInode
  <2>2. Place(x) \in Ks
    BY <1>s, <1>11, <2>1 DEF Ks, Place
  <2>3. x \in 0 .. e.inode[j].size - 1 \/ (j = i /\ x = bn /\ r.addr # 0)
    <3>1. CASE j # i
      BY ZenonT(40), <1>2, <1>4, <1>11, <3>1
    <3>2. CASE j = i
      <4>1. e.inode[i].size = m.size /\ m.size \in 0 .. NDIRECT + NINDIRECT
        BY ZenonT(40), <1>1, <1>4, <1>s DEF AnyInode
      <4>2. x \in 0 .. z - 1
        BY ZenonT(40), <1>2, <1>11, <3>2
      <4>. QED BY <1>s, <3>2, <4>1, <4>2 DEF z
    <3>. QED BY ZenonT(40), <3>1, <3>2
  <2>4. Blk(e, e.inode[j], Place(x)) # 0
    BY <1>9, <2>3 DEF OwnedIn
  <2>. QED BY ZenonT(40), <1>10, <2>2, <2>4
<1>12. ASSUME NEW j \in Inums, w.inode[j].type = "none"
       PROVE  w.inode[j].addrs = NoInode.addrs /\ w.inode[j].size = 0
  <2>1. j # i /\ w.inode[j] = d.inode[j]
    BY ZenonT(40), <1>2, <1>12
  <2>. QED BY ZenonT(40), <1>12, <2>1 DEF OwnedIn
<1>13. SameBlocks(w, e) /\ Settled(w)
  BY ZenonT(40), <1>2, <1>4, <1>10, <1>11, <1>12 DEF SameBlocks, Settled
<1>. QED BY ZenonT(40), <1>9, <1>13, SameOwned DEF w

\* itrunc() on an image (fs.c:409).
LEMMA SlotsAre ==
  ASSUME NEW d, NEW m \in AnyInode
  PROVE  /\ Slots(d, m) = {k \in Ks : Blk(d, m, k) # 0}
         /\ \A k \in Slots(d, m) : BlockAt(d, m, k) = Blk(d, m, k)
<1>1. NDIRECT \in Nat /\ NINDIRECT \in Nat
  BY ZenonT(40), Sizes
<1>2. \A k : k \in Ks <=> k \in 0 .. NDIRECT \/ k \in NDIRECT + 1 .. NDIRECT + NINDIRECT
  BY <1>1 DEF Ks
<1>3. \A k \in 0 .. NDIRECT : k <= NDIRECT
  BY <1>1
<1>4. \A k \in NDIRECT + 1 .. NDIRECT + NINDIRECT : ~(k <= NDIRECT)
  BY <1>1
<1>5. ASSUME NEW k \in Ks
      PROVE  (k \in Slots(d, m) <=> Blk(d, m, k) # 0)
             /\ (k \in Slots(d, m) => BlockAt(d, m, k) = Blk(d, m, k))
  BY ZenonT(40), <1>1, <1>2, <1>3, <1>4 DEF Slots, BlockAt, Blk
<1>6. Slots(d, m) \subseteq Ks
  BY ZenonT(40), <1>2 DEF Slots
<1>. QED BY ZenonT(40), <1>5, <1>6

\* itrunc() frees the blocks the inode names and clears its addrs (fs.c:409).
LEMMA ItruncIs ==
  ASSUME NEW d \in AnyImage, NEW i \in Inums, NEW m \in AnyInode
  PROVE  LET e == itrunc(d, i, m)
         IN  /\ e \in AnyImage /\ e.ind = d.ind
             /\ e.used = d.used \ {BlockAt(d, m, k) : k \in Slots(d, m)}
             /\ \A j \in Inums : j # i => e.inode[j] = d.inode[j]
             /\ e.inode[i].type = m.type
             /\ e.inode[i].size = 0 /\ e.inode[i].addrs = NoInode.addrs
<1>. DEFINE e == itrunc(d, i, m)
            u == d.used \ {BlockAt(d, m, k) : k \in Slots(d, m)}
            n == [m EXCEPT !.size = 0, !.addrs = NoInode.addrs]
            a == [d.inode EXCEPT ![i] = n]
            s == [d.ents EXCEPT ![i] = NoEnts]
<1>1. e = [d EXCEPT !.used = u, !.inode = a, !.ents = s]
  BY ZenonT(40) DEF itrunc, AnyImage
<1>2. n \in AnyInode /\ n.type = m.type /\ n.size = 0 /\ n.addrs = NoInode.addrs
  <2>1. NoInode.addrs \in [0 .. NDIRECT -> 0 .. NBLOCKS] /\ 0 \in 0 .. MAXFILE
    BY ZenonT(40), Sizes, NoInodeIs DEF AnyInode
  <2>. QED BY ZenonT(40), <2>1 DEF AnyInode
<1>. HIDE DEF n
<1>3. /\ d.inode \in [Inums -> AnyInode] /\ d.ents \in [Inums -> [Entries -> 0 .. NINODES]]
      /\ d.used \in SUBSET Blocks
  BY ZenonT(40) DEF AnyImage
<1>4. a \in [Inums -> AnyInode] /\ a[i] = n /\ \A j \in Inums : j # i => a[j] = d.inode[j]
  BY ZenonT(40), <1>2, <1>3
<1>5. s \in [Inums -> [Entries -> 0 .. NINODES]]
  <2>1. NoEnts \in [Entries -> 0 .. NINODES]
    BY Sizes DEF NoEnts
  <2>. QED BY ZenonT(40), <1>3, <2>1
<1>6. u \in SUBSET Blocks
  BY ZenonT(40), <1>3
<1>. HIDE DEF a, s, u, e
<1>7. e \in AnyImage /\ e.ind = d.ind /\ e.used = u /\ e.inode = a
  BY ZenonT(40), <1>1, <1>4, <1>5, <1>6 DEF AnyImage
<1>. QED BY ZenonT(40), <1>2, <1>4, <1>7 DEF e, u

\* itrunc() gives back the blocks of one inode and no other (fs.c:409).
LEMMA TruncOwned ==
  ASSUME NEW d \in AnyImage, OwnedIn(d), NEW i \in Inums, NEW e, Truncated(e, d, i)
  PROVE  OwnedIn(e)
<1>. DEFINE B(j, k) == Blk(d, d.inode[j], k)
            C(j, k) == Blk(e, e.inode[j], k)
<1>1. NDIRECT \in 0 .. NDIRECT /\ \A k \in Ks : k <= NDIRECT => k \in 0 .. NDIRECT
  BY Sizes DEF Ks
<1>2. \A k \in 0 .. NDIRECT : e.inode[i].addrs[k] = 0
  BY ZenonT(40), NoInodeIs DEF Truncated
<1>3. \A k \in Ks : C(i, k) = 0
  BY ZenonT(40), <1>1, <1>2 DEF Blk
<1>4. \A j \in Inums, k \in Ks : j # i => C(j, k) = B(j, k)
  BY ZenonT(40) DEF Blk, Truncated
<1>5. d.inode[i] \in AnyInode
  BY ZenonT(40) DEF AnyImage
<1>6. \A b : b \in e.used <=> b \in d.used /\ ~\E k \in Ks : B(i, k) # 0 /\ B(i, k) = b
  <2>1. /\ Slots(d, d.inode[i]) = {k \in Ks : B(i, k) # 0}
        /\ \A k \in Slots(d, d.inode[i]) : BlockAt(d, d.inode[i], k) = B(i, k)
    BY ZenonT(40), <1>5, SlotsAre
  <2>2. e.used = d.used \ {BlockAt(d, d.inode[i], k) : k \in Slots(d, d.inode[i])}
    BY ZenonT(40) DEF Truncated
  <2>. HIDE DEF B
  <2>. QED BY ZenonT(40), <2>1, <2>2
<1>7. /\ \A j \in Inums, k \in Ks : B(j, k) # 0 => B(j, k) \in d.used
      /\ \A b \in d.used : \E j \in Inums, k \in Ks : B(j, k) = b
      /\ \A j, h \in Inums, k, l \in Ks : B(j, k) # 0 /\ B(j, k) = B(h, l) => j = h /\ k = l
      /\ 0 \notin d.used
  BY DEF OwnedIn, AnyImage, Blocks
<1>8. Settled(e)
  <2>1. ASSUME NEW j \in Inums, NEW bn \in 0 .. e.inode[j].size - 1
        PROVE  C(j, Place(bn)) # 0
    <3>1. j # i
      BY <2>1 DEF Truncated
    <3>2. e.inode[j] = d.inode[j] /\ d.inode[j].size \in 0 .. NDIRECT + NINDIRECT
      BY ZenonT(40), <3>1, Sizes DEF Truncated, AnyImage, AnyInode
    <3>3. Place(bn) \in Ks
      BY <2>1, <3>2, Sizes DEF Place, Ks
    <3>4. B(j, Place(bn)) # 0
      BY ZenonT(40), <2>1, <3>2 DEF OwnedIn
    <3>. QED BY ZenonT(40), <1>4, <3>1, <3>3, <3>4
  <2>2. ASSUME NEW j \in Inums, e.inode[j].type = "none"
        PROVE  e.inode[j].addrs = NoInode.addrs /\ e.inode[j].size = 0
    BY ZenonT(40), <2>2 DEF OwnedIn, Truncated
  <2>. QED BY ZenonT(40), <2>1, <2>2 DEF Settled
<1>. HIDE DEF B, C
<1>9. \A j \in Inums, k \in Ks : C(j, k) # 0 => C(j, k) \in e.used
  BY <1>3, <1>4, <1>6, <1>7
<1>10. ASSUME NEW b \in e.used PROVE \E j \in Inums, k \in Ks : C(j, k) = b
  <2>1. PICK j \in Inums, k \in Ks : B(j, k) = b
    BY ZenonT(40), <1>6, <1>7
  <2>2. j # i
    BY <1>6, <1>7, <2>1
  <2>. QED BY ZenonT(40), <1>4, <2>1, <2>2
<1>11. \A j, h \in Inums, k, l \in Ks : C(j, k) # 0 /\ C(j, k) = C(h, l) => j = h /\ k = l
  BY <1>3, <1>4, <1>7
<1>. QED BY ZenonT(40), <1>8, <1>9, <1>10, <1>11 DEF OwnedIn, Settled, C

\* iput() frees an inode: its blocks, then its type (fs.c:313-315).
LEMMA FreedIs ==
  ASSUME NEW d \in AnyImage, OwnedIn(d), NEW i \in Inums
  PROVE  LET e == Freed(d, i, d.inode[i])
         IN  /\ e \in AnyImage /\ e.inode = [d.inode EXCEPT ![i] = NoInode]
             /\ OwnedIn(e)
<1>. DEFINE m == d.inode[i]
            t == itrunc(d, i, m)
            u == iupdate(t, i, NoInode)
            e == Freed(d, i, m)
<1>1. m \in AnyInode
  BY ZenonT(40) DEF AnyImage
<1>2. /\ t \in AnyImage /\ t.ind = d.ind
      /\ t.used = d.used \ {BlockAt(d, m, k) : k \in Slots(d, m)}
      /\ \A j \in Inums : j # i => t.inode[j] = d.inode[j]
  BY <1>1, ItruncIs
<1>e. e = [u EXCEPT !.adrift = u.adrift \ {i}]
  BY ZenonT(40) DEF Freed
<1>. HIDE DEF t
<1>3. /\ u \in AnyImage /\ u.inode = [t.inode EXCEPT ![i] = NoInode]
      /\ u.used = t.used /\ u.ind = t.ind
  BY <1>2, NoInodeIs, IupdateIs
<1>. HIDE DEF u, e
<1>4. u.adrift \ {i} \in SUBSET Inums
  BY ZenonT(40), <1>3 DEF AnyImage
<1>5. e \in AnyImage /\ e.inode = u.inode /\ e.used = u.used /\ e.ind = u.ind
  BY ZenonT(40), <1>3, <1>4, <1>e, EntsIs DEF SameInodes
<1>6. d.inode \in [Inums -> AnyInode]
  BY ZenonT(40) DEF AnyImage
<1>7. e.inode = [d.inode EXCEPT ![i] = NoInode]
  <2>1. t.inode \in [Inums -> AnyInode]
    BY ZenonT(40), <1>2 DEF AnyImage
  <2>. QED BY ZenonT(40), <1>2, <1>3, <1>5, <1>6, <2>1
<1>8. Truncated(e, d, i)
  <2>1. e.inode[i] = NoInode /\ \A j \in Inums : j # i => e.inode[j] = d.inode[j]
    BY ZenonT(40), <1>6, <1>7
  <2>. QED BY ZenonT(40), <1>2, <1>3, <1>5, <2>1, NoInodeIs DEF Truncated, m
<1>. QED BY ZenonT(40), <1>5, <1>7, <1>8, TruncOwned DEF e

\* Where a process is when its iput()s are done.
LEMMA At ==
  ASSUME IInv, NEW p \in Procs, NEW s, Runs(p, s)
  PROVE  /\ loc[p] \in Locs /\ RolesOf(loc[p]) /\ loc[p].pc = s /\ loc[p].puts = <<>>
         /\ loc[p].stage = "drop" /\ booted /\ cwd[p] \in 0 .. NINODES
         /\ cwd[p] = 0 => s \in {"idle", "end", "exit"}
BY ZenonT(40) DEF IInv, Shape, Roles, RolesOf, Runs

\* One or two iput()s to do.
LEMMA PutsIs ==
  /\ <<>> \in Seq(Inums) /\ Len(<<>>) = 0 /\ \A j : Puts(<<>>, j) = 0
  /\ \A i \in Inums : /\ <<i>> \in Seq(Inums) /\ Len(<<i>>) = 1 /\ <<i>> # <<>>
                      /\ \A j : Puts(<<i>>, j) = One(i = j)
  /\ \A i, k \in Inums : /\ <<i, k>> \in Seq(Inums) /\ Len(<<i, k>>) = 2 /\ <<i, k>> # <<>>
                         /\ \A j : Puts(<<i, k>>, j) = One(i = j) + One(k = j)
<1>1. <<>> \in Seq(Inums) /\ Len(<<>>) = 0 /\ \A j : Puts(<<>>, j) = 0
  BY DEF Puts, One
<1>2. ASSUME NEW i \in Inums
      PROVE  /\ <<i>> \in Seq(Inums) /\ Len(<<i>>) = 1 /\ <<i>> # <<>>
             /\ \A j : Puts(<<i>>, j) = One(i = j)
  BY DEF Puts, One
<1>3. ASSUME NEW i \in Inums, NEW k \in Inums
      PROVE  /\ <<i, k>> \in Seq(Inums) /\ Len(<<i, k>>) = 2 /\ <<i, k>> # <<>>
             /\ \A j : Puts(<<i, k>>, j) = One(i = j) + One(k = j)
  BY DEF Puts, One
<1>. QED BY ZenonT(40), <1>1, <1>2, <1>3

\* A step that changes neither the table nor any inode.
LEMMA ActsSame ==
  ASSUME IInv, NEW p \in Procs, SameDisk
  PROVE  /\ itable' = itable => Acts(p, 0, 0, 0)
         /\ \A s \in Inums : itable' = iget(itable, s) => Acts(p, s, 0, 0)
         /\ \A b \in Inums : itable' = iunlock(itable, b) /\ LockedAt(loc[p], b) => Acts(p, 0, 0, b)
<1>1. itable \in Tables /\ disk \in AnyImage /\ 0 \notin Inums
  BY DEF IInv, Shape, Inums
<1>i. /\ \A j \in Inums : itable[j].ref \in Int /\ j # 0
      /\ disk' \in AnyImage /\ disk'.inode = disk.inode
  BY ZenonT(40), <1>1 DEF Tables, SameDisk
<1>2. ASSUME itable' = itable PROVE Acts(p, 0, 0, 0)
  BY <1>1, <1>2, <1>i DEF Acts, Synced, One
<1>3. ASSUME NEW s \in Inums, itable' = iget(itable, s) PROVE Acts(p, s, 0, 0)
  <2>1. /\ itable' \in Tables
        /\ \A j \in Inums : /\ itable'[j].ref = itable[j].ref + One(j = s)
                            /\ itable'[j].valid = itable[j].valid
                            /\ itable'[j].lock = itable[j].lock
                            /\ itable'[j].mem = itable[j].mem
    BY SMTT(30), <1>1, <1>3, IgetIs
  <2>. QED BY ZenonT(40), <1>1, <1>i, <2>1 DEF Acts, Synced
<1>4. ASSUME NEW b \in Inums, itable' = iunlock(itable, b), LockedAt(loc[p], b)
      PROVE  Acts(p, 0, 0, b)
  <2>1. /\ itable' \in Tables
        /\ \A j \in Inums : /\ itable'[j].ref = itable[j].ref
                            /\ itable'[j].valid = itable[j].valid
                            /\ itable'[j].lock = IF j = b THEN {} ELSE itable[j].lock
                            /\ itable'[j].mem = itable[j].mem
    BY <1>1, <1>4, IunlockIs
  <2>. QED BY SMTT(30), <1>1, <1>i, <1>4, <2>1 DEF Acts, Synced, One
<1>. QED BY ZenonT(40), <1>2, <1>3, <1>4

-----------------------------------------------------------------------------
(* The steps.                                                              *)

\* A process outside a call holds no inode.
LEMMA IdleIs ==
  /\ NoCall \in Calls /\ Idle \in Locs /\ Idle.pc = "idle" /\ Idle.ip = 0 /\ Idle.dp = 0
  /\ Idle.old = 0 /\ Idle.rest = <<>> /\ Idle.puts = <<>> /\ Idle.stage = "drop"
  /\ Idle.call = NoCall /\ RolesOf(Idle)
<1>1. NoCall \in Calls
  <2>1. <<>> \in Seq(Entries)
    OBVIOUS
  <2>. QED BY ZenonT(40), <2>1 DEF NoCall, Calls
<1>2. /\ Idle.pc = "idle" /\ Idle.ip = 0 /\ Idle.dp = 0
      /\ Idle.old = 0 /\ Idle.rest = <<>> /\ Idle.puts = <<>> /\ Idle.stage = "drop"
      /\ Idle.call = NoCall
  BY ZenonT(40) DEF Idle
<1>3. Idle \in Locs
  <2>1. 0 \in 0 .. NINODES
    BY Sizes
  <2>. QED BY <1>1, <2>1 DEF Idle, Locs, Places, Stages
<1>4. RolesOf(Idle)
  BY <1>2 DEF RolesOf, ForParent
<1>. QED BY ZenonT(40), <1>1, <1>2, <1>3, <1>4

\* A call that ends with the iput()s in q, and unlocks b.
LEMMA EndsIs ==
  ASSUME IInv, NEW p \in Procs, loc[p].puts = <<>>, NEW q \in Seq(Inums), Len(q) <= 2, Ends(p, q)
  PROVE  \E m : /\ Is(m, loc[p], "end", 0, 0, 0, <<>>, q) /\ loc' = [loc EXCEPT ![p] = m]
                /\ RolesOf(m)
<1>. DEFINE l == loc[p]
            m == [l EXCEPT !.pc = "end", !.ip = 0, !.dp = 0, !.old = 0, !.rest = <<>>, !.puts = q]
<1>1. l \in Locs /\ RolesOf(l)
  BY ZenonT(40) DEF IInv, Shape, Roles
<1>2. Is(m, l, "end", 0, 0, 0, <<>>, q)
  <2>1. "end" \in Places /\ 0 \in 0 .. NINODES /\ <<>> \in Seq(Entries)
    BY Sizes DEF Places
  <2>. QED BY ZenonT(40), <1>1, <2>1 DEF Is, Locs
<1>3. loc' = [loc EXCEPT ![p] = m]
  BY ZenonT(40) DEF Ends, Goes
<1>4. l.stage = "drop"
  BY ZenonT(40), <1>1 DEF RolesOf
<1>. HIDE DEF m
<1>5. RolesOf(m)
  BY ZenonT(40), <1>2, <1>4 DEF RolesOf, Is, ForParent
<1>. QED BY ZenonT(40), <1>2, <1>3, <1>5

\* A call comes to its end and gives back what it holds.
LEMMA EndsTo ==
  ASSUME IInv, NEW p \in Procs, loc[p].puts = <<>>, NEW q \in Seq(Inums), Len(q) <= 2,
         Ends(p, q), NEW b \in 0 .. NINODES,
         \A j \in Inums : Atop(loc[p].pc, loc[p].ip, loc[p].dp, j) => j = b,
         \A j \in Inums : One(cwd[p] = j) + Puts(q, j)
                          = Count(loc[p].pc, cwd[p], loc[p].ip, loc[p].dp, loc[p].old, <<>>, j)
  PROVE  \E m : Advances(p, m, "end", 0, 0, 0, <<>>, q, 0, 0, b)
<1>. DEFINE l == loc[p]
<1>1. PICK m : /\ Is(m, l, "end", 0, 0, 0, <<>>, q) /\ loc' = [loc EXCEPT ![p] = m]
               /\ RolesOf(m)
  BY ZenonT(40), EndsIs
<1>6. \A j \in Inums : Atop("end", 0, 0, j) <=> j = 0 \/ (Atop(l.pc, l.ip, l.dp, j) /\ j # b)
  BY ZenonT(40) DEF Atop, Inums
<1>7. ASSUME NEW j \in Inums
      PROVE  Count("end", cwd[p], 0, 0, 0, q, j)
             = Count(l.pc, cwd[p], l.ip, l.dp, l.old, <<>>, j) + One(j = 0)
  <2>1. j # 0 /\ Puts(q, j) \in Nat /\ \A x : One(x) \in Nat
    BY DEF Inums, Puts, One
  <2>2. Count("end", cwd[p], 0, 0, 0, q, j) = One(cwd[p] = j) + Puts(q, j)
    BY <2>1 DEF Count, One
  <2>3. One(j = 0) = 0 /\ Count(l.pc, cwd[p], l.ip, l.dp, l.old, <<>>, j) \in Nat
    BY SMTT(30), <2>1, PutsIs DEF Count, One
  <2>. QED BY <2>2, <2>3
<1>8. Advances(p, m, "end", 0, 0, 0, <<>>, q, 0, 0, b)
  BY <1>1, <1>6, <1>7, Sizes DEF Advances
<1>. QED BY ZenonT(40), <1>8

\* Inode numbers held by a process.
LEMMA Holding ==
  ASSUME IInv, NEW p \in Procs
  PROVE  /\ loc[p].ip # 0 => loc[p].ip \in Inums
         /\ loc[p].dp # 0 => loc[p].dp \in Inums
         /\ loc[p].old # 0 => loc[p].old \in Inums
         /\ cwd[p] # 0 => cwd[p] \in Inums
         /\ 0 \notin Inums /\ 0 \in 0 .. NINODES
         /\ Inums \subseteq 0 .. NINODES
<1>1. /\ loc[p].ip \in 0 .. NINODES /\ loc[p].dp \in 0 .. NINODES /\ loc[p].old \in 0 .. NINODES
      /\ cwd[p] \in 0 .. NINODES
  BY ZenonT(40) DEF IInv, Shape, Locs
<1>2. /\ \A n \in 0 .. NINODES : n # 0 => n \in Inums
      /\ 0 \notin Inums /\ 0 \in 0 .. NINODES /\ Inums \subseteq 0 .. NINODES
  BY Sizes DEF Inums
<1>. QED BY ZenonT(40), <1>1, <1>2

\* The place of a call after its lookup.
LEMMA AtFound ==
  ASSUME IInv, NEW p \in Procs, NEW ops, Found(p, ops)
  PROVE  /\ loc[p] \in Locs /\ RolesOf(loc[p]) /\ loc[p].pc = "found" /\ loc[p].puts = <<>>
         /\ loc[p].stage = "drop" /\ booted /\ cwd[p] \in Inums /\ loc[p].call.op \in ops
         /\ loc[p].dp = 0 /\ loc[p].ip \in Inums /\ CanLock(loc[p].ip)
         /\ <<loc[p].ip>> \in Seq(Inums) /\ Len(<<loc[p].ip>>) = 1 /\ <<loc[p].ip>> # <<>>
<1>1. Runs(p, "found") /\ loc[p].call.op \in ops /\ CanLock(loc[p].ip)
  BY ZenonT(40) DEF Found
<1>2. /\ loc[p] \in Locs /\ RolesOf(loc[p]) /\ loc[p].pc = "found" /\ loc[p].puts = <<>>
      /\ loc[p].stage = "drop" /\ booted /\ cwd[p] # 0
  BY <1>1, At
<1>3. loc[p].dp = 0 /\ loc[p].ip # 0
  BY ZenonT(40), <1>2 DEF RolesOf
<1>4. loc[p].ip \in Inums /\ cwd[p] \in Inums
  BY ZenonT(40), <1>2, <1>3, Holding
<1>. QED BY ZenonT(40), <1>1, <1>2, <1>3, <1>4, PutsIs

-----------------------------------------------------------------------------
(* Steps that write an inode.                                              *)

\* An inode that a process has locked is in the table as it is on the disk.
LEMMA ReadsLocked ==
  ASSUME IInv, NEW p \in Procs, NEW i \in Inums, LockedAt(loc[p], i), loc[p].stage = "drop"
  PROVE  /\ itable[i].valid /\ itable[i].mem = disk.inode[i] /\ disk.inode[i].type # "none"
         /\ p \in itable[i].lock
<1>1. /\ p \in itable[i].lock
      /\ \A q \in Procs : q \in itable[i].lock => q = p
      /\ itable[i].valid
  BY ZenonT(40) DEF IInv, Locks
<1>2. \A q \in Procs : ~(loc[q].stage = "invalid" /\ Putting(loc[q], i))
  <2>. SUFFICES ASSUME NEW q \in Procs, loc[q].stage = "invalid", Putting(loc[q], i)
                PROVE  FALSE
    BY ZenonT(40)
  <2>1. q \in itable[i].lock
    BY ZenonT(40) DEF IInv, Locks, LockedAt
  <2>. QED BY ZenonT(40), <1>1, <2>1
<1>. QED BY ZenonT(40), <1>1, <1>2 DEF IInv, Coherent

\* A step that writes one inode, on disk and in the table (iupdate(), fs.c:191).
LEMMA ActsWrite ==
  ASSUME IInv, NEW p \in Procs, NEW i \in Inums, Wrote(i), NEW n, n = disk'.inode[i]
  PROVE  /\ CanLock(i) /\ itable' = InMemory(Loaded(itable, i), i, n) => Acts(p, 0, 0, 0)
         /\ \A s \in Inums : CanLock(i) /\ itable' = iget(InMemory(Loaded(itable, i), i, n), s)
                             => Acts(p, s, 0, 0)
         /\ LockedAt(loc[p], i) /\ loc[p].stage = "drop"
            /\ itable' = iunlock(InMemory(itable, i, n), i) => Acts(p, 0, 0, i)
<1>0. itable \in Tables /\ disk \in AnyImage /\ 0 \notin Inums
  BY DEF IInv, Shape, Inums
<1>. n \in AnyInode
  <2>1. disk'.inode \in [Inums -> AnyInode]
    BY ZenonT(40) DEF Wrote, AnyImage
  <2>. QED BY ZenonT(40), <2>1
<1>1. itable \in Tables /\ disk \in AnyImage /\ 0 \notin Inums /\ n \in AnyInode
  BY ZenonT(40), <1>0
<1>i. /\ \A j \in Inums : itable[j].ref \in Int /\ j # 0
      /\ disk' \in AnyImage /\ n.type # "none" /\ \A j \in Inums : j # i => disk'.inode[j] = disk.inode[j]
  BY ZenonT(40), <1>1 DEF Tables, Wrote
<1>. DEFINE t == Loaded(itable, i)
            u == InMemory(t, i, n)
<1>3. /\ t \in Tables
      /\ \A j \in Inums : /\ t[j].ref = itable[j].ref
                          /\ t[j].valid <=> itable[j].valid \/ j = i
                          /\ t[j].lock = itable[j].lock
                          /\ j # i => t[j].mem = itable[j].mem
  BY SMTT(30), <1>1, LoadedIs
<1>. HIDE DEF t
<1>4. /\ u \in Tables
      /\ \A j \in Inums : /\ u[j].ref = itable[j].ref
                          /\ u[j].valid <=> itable[j].valid \/ j = i
                          /\ u[j].lock = itable[j].lock
                          /\ j # i => u[j].mem = itable[j].mem
      /\ u[i].mem = n
  <2>1. /\ u \in Tables
        /\ \A j \in Inums : /\ u[j].ref = t[j].ref
                            /\ u[j].valid = t[j].valid
                            /\ u[j].lock = t[j].lock
                            /\ u[j].mem = IF j = i THEN n ELSE t[j].mem
    BY SMTT(30), <1>1, <1>3, InMemoryIs
  <2>. QED BY SMTT(30), <1>3, <2>1
<1>. HIDE DEF u
<1>5. ASSUME itable' = u PROVE Acts(p, 0, 0, 0)
  BY SMTT(30), <1>1, <1>4, <1>5, <1>i DEF Acts, Synced, One
<1>6. ASSUME NEW s \in Inums, itable' = iget(u, s) PROVE Acts(p, s, 0, 0)
  <2>1. /\ itable' \in Tables
        /\ \A j \in Inums : /\ itable'[j].ref = u[j].ref + One(j = s)
                            /\ itable'[j].valid = u[j].valid
                            /\ itable'[j].lock = u[j].lock
                            /\ itable'[j].mem = u[j].mem
    BY SMTT(30), <1>4, <1>6, IgetIs
  <2>. QED BY SMTT(30), <1>1, <1>4, <1>i, <2>1 DEF Acts, Synced
<1>7. ASSUME LockedAt(loc[p], i), loc[p].stage = "drop", itable' = iunlock(InMemory(itable, i, n), i)
      PROVE  Acts(p, 0, 0, i)
  <2>. DEFINE v == InMemory(itable, i, n)
  <2>1. /\ v \in Tables
        /\ \A j \in Inums : /\ v[j].ref = itable[j].ref
                            /\ v[j].valid = itable[j].valid
                            /\ v[j].lock = itable[j].lock
                            /\ v[j].mem = IF j = i THEN n ELSE itable[j].mem
    BY SMTT(30), <1>1, InMemoryIs
  <2>. HIDE DEF v
  <2>2. /\ itable' \in Tables
        /\ \A j \in Inums : /\ itable'[j].ref = v[j].ref
                            /\ itable'[j].valid = v[j].valid
                            /\ itable'[j].lock = IF j = i THEN {} ELSE v[j].lock
                            /\ itable'[j].mem = v[j].mem
    BY <1>7, <2>1, IunlockIs DEF v
  <2>3. /\ itable' \in Tables
        /\ \A j \in Inums : /\ itable'[j].ref = itable[j].ref
                            /\ itable'[j].valid = itable[j].valid
                            /\ j # i => itable'[j].lock = itable[j].lock
                            /\ j # i => itable'[j].mem = itable[j].mem
        /\ itable'[i].lock = {} /\ itable'[i].mem = n
    BY ZenonT(40), <2>1, <2>2
  <2>. QED BY SMTT(30), <1>1, <1>i, <1>7, <2>3 DEF Acts, Synced, One
<1>. QED BY ZenonT(40), <1>5, <1>6, <1>7 DEF t, u

\* An inode of the disk is an inode.
LEMMA InodeIs ==
  ASSUME IInv, NEW i \in Inums
  PROVE  disk.inode[i] \in AnyInode /\ disk.inode[i].nlink \in Int
BY ZenonT(40) DEF IInv, Shape, AnyImage, AnyInode

\* Every step of a system call that leaves the open files and the current
\* directories alone moves the references, locks and inodes of one process
\* together: namex(), link(), unlink(), create() and their error paths.
LEMMA CallsStep ==
  \A p \in Procs : WellOrdered /\ IInv /\ CallStep(p) /\ prog' = prog => Stepped(p)
\* ilock() gives the lock to p, and the inode is valid after it (fs.c:258).
<1>IlockIs. ASSUME NEW t \in Tables, NEW i \in Inums, NEW p \in Procs, disk \in AnyImage
            PROVE  /\ ilock(t, i, p) \in Tables
                   /\ \A j \in Inums : /\ ilock(t, i, p)[j].ref = t[j].ref
                                       /\ ilock(t, i, p)[j].valid <=> t[j].valid \/ j = i
                                       /\ j # i => ilock(t, i, p)[j].lock = t[j].lock
                                       /\ ilock(t, i, p)[j].mem = IF j = i /\ ~t[j].valid THEN disk.inode[j]
                                                                  ELSE t[j].mem
                   /\ ilock(t, i, p)[i].lock = {p}
  <2>. USE <1>IlockIs
  <2>. DEFINE u == Loaded(t, i)
  <2>1. u \in Tables
    BY ZenonT(40), LoadedIs
  <2>. HIDE DEF u
  <2>2. /\ [u EXCEPT ![i].lock = {p}] \in Tables
        /\ \A j \in Inums : /\ [u EXCEPT ![i].lock = {p}][j].ref = u[j].ref
                            /\ [u EXCEPT ![i].lock = {p}][j].valid = u[j].valid
                            /\ [u EXCEPT ![i].lock = {p}][j].lock = IF j = i THEN {p} ELSE u[j].lock
                            /\ [u EXCEPT ![i].lock = {p}][j].mem = u[j].mem
    BY ZenonT(40), <2>1 DEF Tables
  <2>3. ilock(t, i, p) = [u EXCEPT ![i].lock = {p}]
    BY ZenonT(40) DEF ilock, u
  <2>4. \A j \in Inums : /\ u[j].ref = t[j].ref
                         /\ u[j].valid <=> t[j].valid \/ j = i
                         /\ u[j].lock = t[j].lock
                         /\ u[j].mem = IF j = i /\ ~t[j].valid THEN disk.inode[j] ELSE t[j].mem
    BY ZenonT(40), LoadedIs DEF u
  <2>. QED BY <2>2, <2>3, <2>4
\* An image with the same blocks in the same places.
<1>UpdateOwned. ASSUME NEW d \in AnyImage, OwnedIn(d), NEW e, e.used = d.used, e.ind = d.ind,
                       \A j \in Inums : /\ e.inode[j].addrs = d.inode[j].addrs /\ e.inode[j].size = d.inode[j].size
                                        /\ e.inode[j].type = "none" => d.inode[j].type = "none"
                PROVE  OwnedIn(e)
  <2>. USE <1>UpdateOwned
  <2>1. \A j \in Inums, k \in Ks : Blk(e, e.inode[j], k) = Blk(d, d.inode[j], k)
    BY ZenonT(40) DEF Blk
  <2>2. SameBlocks(e, d)
    BY ZenonT(40), <2>1 DEF SameBlocks
  <2>3. ASSUME NEW j \in Inums, NEW bn \in 0 .. e.inode[j].size - 1
        PROVE  Blk(e, e.inode[j], Place(bn)) # 0
    <3>1. d.inode[j].size \in 0 .. NDIRECT + NINDIRECT
      BY ZenonT(40), Sizes DEF AnyImage, AnyInode
    <3>2. Place(bn) \in Ks
      BY <2>3, <3>1, Sizes DEF Place, Ks
    <3>. QED BY <2>1, <2>3, <3>2 DEF OwnedIn
  <2>4. ASSUME NEW j \in Inums, e.inode[j].type = "none"
        PROVE  e.inode[j].addrs = NoInode.addrs /\ e.inode[j].size = 0
    BY ZenonT(40), <2>4 DEF OwnedIn
  <2>5. Settled(e)
    BY ZenonT(40), <2>3, <2>4 DEF Settled
  <2>. QED BY ZenonT(40), <2>2, <2>5, SameOwned
<1>StepIs. ASSUME NEW p, NEW m, NEW pc, NEW ip, NEW dp, NEW old, NEW rest, NEW puts,
                  NEW s, NEW a, NEW b, Advances(p, m, pc, ip, dp, old, rest, puts, s, a, b),
                  Acts(p, s, a, b), Still, OwnedIn(disk')
           PROVE  Stepped(p)
  BY ZenonT(40), <1>StepIs DEF Stepped
\* A step that loads an inode into the table.
<1>ActsLoad. ASSUME IInv, NEW p \in Procs, SameDisk, NEW i \in Inums, CanLock(i)
             PROVE  /\ itable' = Loaded(itable, i) => Acts(p, 0, 0, 0)
                    /\ \A s \in Inums : itable' = iget(Loaded(itable, i), s) => Acts(p, s, 0, 0)
                    /\ itable' = ilock(itable, i, p) => Acts(p, 0, i, 0)
                    /\ \A s \in Inums : itable' = iget(ilock(itable, i, p), s) => Acts(p, s, i, 0)
  <2>. USE <1>ActsLoad
  <2>1. itable \in Tables /\ disk \in AnyImage /\ 0 \notin Inums
    BY DEF IInv, Shape, Inums
  <2>i. /\ \A j \in Inums : itable[j].ref \in Int /\ j # 0
        /\ disk' \in AnyImage /\ disk'.inode = disk.inode
    BY ZenonT(40), <2>1 DEF Tables, SameDisk
  <2>2. /\ itable[i].lock = {} /\ disk.inode[i].type # "none"
        /\ itable[i].valid => itable[i].mem = disk.inode[i]
    BY ZenonT(40), Reads
  <2>. DEFINE t == Loaded(itable, i)
              u == ilock(itable, i, p)
  <2>3. /\ t \in Tables
        /\ \A j \in Inums : /\ t[j].ref = itable[j].ref
                            /\ t[j].valid <=> itable[j].valid \/ j = i
                            /\ t[j].lock = itable[j].lock
                            /\ t[j].mem = IF j = i /\ ~itable[j].valid THEN disk.inode[j]
                                          ELSE itable[j].mem
    BY ZenonT(40), <2>1, LoadedIs
  <2>4. /\ u \in Tables
        /\ \A j \in Inums : /\ u[j].ref = itable[j].ref
                            /\ u[j].valid <=> itable[j].valid \/ j = i
                            /\ j # i => u[j].lock = itable[j].lock
                            /\ u[j].mem = IF j = i /\ ~itable[j].valid THEN disk.inode[j]
                                          ELSE itable[j].mem
        /\ u[i].lock = {p}
    BY SMTT(30), <2>1, <1>IlockIs
  <2>. HIDE DEF t, u
  <2>5. ASSUME itable' = t PROVE Acts(p, 0, 0, 0)
    BY SMTT(30), <2>1, <2>2, <2>3, <2>5, <2>i DEF Acts, Synced, One
  <2>6. ASSUME itable' = u PROVE Acts(p, 0, i, 0)
    BY SMTT(30), <2>1, <2>2, <2>4, <2>6, <2>i DEF Acts, Synced, One
  <2>7. ASSUME NEW s \in Inums, itable' = iget(t, s) PROVE Acts(p, s, 0, 0)
    <3>1. /\ itable' \in Tables
          /\ \A j \in Inums : /\ itable'[j].ref = t[j].ref + One(j = s)
                              /\ itable'[j].valid = t[j].valid
                              /\ itable'[j].lock = t[j].lock
                              /\ itable'[j].mem = t[j].mem
      BY SMTT(30), <2>3, <2>7, IgetIs
    <3>. QED BY SMTT(30), <2>1, <2>2, <2>3, <2>i, <3>1 DEF Acts, Synced
  <2>8. ASSUME NEW s \in Inums, itable' = iget(u, s) PROVE Acts(p, s, i, 0)
    <3>1. /\ itable' \in Tables
          /\ \A j \in Inums : /\ itable'[j].ref = u[j].ref + One(j = s)
                              /\ itable'[j].valid = u[j].valid
                              /\ itable'[j].lock = u[j].lock
                              /\ itable'[j].mem = u[j].mem
      BY SMTT(30), <2>4, <2>8, IgetIs
    <3>. QED BY SMTT(30), <2>1, <2>2, <2>4, <2>i, <3>1 DEF Acts, Synced
  <2>. QED BY ZenonT(40), <2>5, <2>6, <2>7, <2>8 DEF t, u
\* end_op(): the transaction is committed, or left to those still in one.
<1>EndOpKept. ASSUME IInv, NEW p \in Procs, EndOp(p), prog' = prog
              PROVE  Stepped(p)
  <2>. USE <1>EndOpKept
  <2>. DEFINE l == loc[p]
              m == IF l.call.op = "exit" THEN [Idle EXCEPT !.pc = "exit", !.call = l.call] ELSE Idle
              pc == IF l.call.op = "exit" THEN "exit" ELSE "idle"
  <2>1. /\ l \in Locs /\ RolesOf(l) /\ l.pc = "end" /\ l.puts = <<>> /\ l.stage = "drop"
        /\ booted /\ cwd[p] \in 0 .. NINODES
    BY ZenonT(40), At DEF EndOp
  <2>2. l.ip = 0 /\ l.dp = 0 /\ l.old = 0
    BY ZenonT(40), <2>1 DEF RolesOf
  <2>3. Is(m, l, pc, 0, 0, 0, <<>>, <<>>)
    <3>1. l.call \in Calls /\ "exit" \in Places
      BY ZenonT(40), <2>1 DEF Locs, Places
    <3>2. CASE l.call.op = "exit"
      BY ZenonT(40), <2>1, <3>1, <3>2, IdleIs DEF Is, Locs
    <3>3. CASE l.call.op # "exit"
      BY ZenonT(40), <2>1, <3>3, IdleIs DEF Is
    <3>. QED BY ZenonT(40), <3>2, <3>3
  <2>4. loc' = [loc EXCEPT ![p] = m] /\ disk' = disk /\ itable' = itable /\ Still
    BY ZenonT(40), <2>1 DEF EndOp, Commit, Goes, Still, Stays
  <2>. HIDE DEF m
  <2>5. RolesOf(m)
    BY ZenonT(40), <2>3, <2>1 DEF Is, RolesOf, ForParent
  <2>6. Acts(p, 0, 0, 0) /\ OwnedIn(disk')
    BY ZenonT(40), <2>4, ActsSame DEF IInv, Owned, SameDisk
  <2>7. \A j \in Inums : Atop(pc, 0, 0, j) <=> j = 0 \/ (Atop(l.pc, l.ip, l.dp, j) /\ j # 0)
    BY ZenonT(40), <2>1, <2>2 DEF Atop, Inums
  <2>8. \A j \in Inums : Count(pc, cwd[p], 0, 0, 0, <<>>, j)
                         = Count(l.pc, cwd[p], l.ip, l.dp, l.old, <<>>, j) + One(j = 0)
    BY <2>1, <2>2, PutsIs DEF Count, One, Inums
  <2>9. 0 \in 0 .. NINODES /\ pc \in {"idle", "end", "exit"}
    BY Sizes
  <2>. HIDE DEF pc
  <2>10. Advances(p, m, pc, 0, 0, 0, <<>>, <<>>, 0, 0, 0)
    BY ZenonT(40), <2>1, <2>3, <2>4, <2>5, <2>7, <2>8, <2>9 DEF Advances
  <2>. QED BY ZenonT(40), <2>4, <2>6, <2>10, <1>StepIs
\* begin_op(), and namex() takes the root or the current directory (fs.c:628).
<1>BeginKept. ASSUME IInv, NEW p \in Procs, NEW c \in prog.calls[p], Begin(p, c), prog' = prog
              PROVE  Stepped(p)
  <2>. USE <1>BeginKept
  <2>. DEFINE l == loc[p]
              s == IF c.abs THEN ROOTINO ELSE cwd[p]
              m == [Idle EXCEPT !.pc = "walk", !.call = c, !.ip = s, !.rest = c.path]
  <2>1. /\ l \in Locs /\ RolesOf(l) /\ l.pc = "idle" /\ l.puts = <<>> /\ l.stage = "drop"
        /\ booted /\ cwd[p] \in 0 .. NINODES
    BY ZenonT(40), At DEF Begin
  <2>2. l.ip = 0 /\ l.dp = 0 /\ l.old = 0
    BY ZenonT(40), <2>1 DEF RolesOf
  <2>s. s \in Inums /\ s \in 0 .. NINODES /\ 0 \in 0 .. NINODES /\ cwd[p] # 0 /\ s # 0
    BY <2>1, Sizes DEF Begin, Inums
  <2>c. c \in Calls /\ c.path \in Seq(Entries)
    <3>1. c \in [op : {"open", "create", "link", "unlink", "mkdir", "mknod", "chdir"}, abs : BOOLEAN,
                 path : Seq(Entries), newabs : BOOLEAN, new : Seq(Entries),
                 mode : {"read", "write", "trunc"}]
      BY ZenonT(40), FsAssumption DEF FsAssumption, IInv, Shape, Entries
    <3>. QED BY ZenonT(40), <3>1 DEF Calls
  <2>4. loc' = [loc EXCEPT ![p] = m] /\ disk' = disk /\ itable' = iget(itable, s) /\ Still
    BY ZenonT(40), <2>1 DEF Begin, Goes, Still, Stays
  <2>. HIDE DEF s
  <2>3. Is(m, l, "walk", s, 0, 0, c.path, <<>>) /\ m.call = c
    <3>1. "walk" \in Places
      BY ZenonT(40) DEF Places
    <3>. QED BY ZenonT(40), <2>1, <2>s, <2>c, <3>1, IdleIs DEF Is, Locs
  <2>. HIDE DEF m
  <2>5. RolesOf(m)
    BY ZenonT(40), <2>1, <2>3, <2>s DEF Is, RolesOf, ForParent
  <2>6. Acts(p, s, 0, 0) /\ OwnedIn(disk')
    BY ZenonT(40), <2>4, <2>s, ActsSame DEF IInv, Owned, SameDisk
  <2>7. \A j \in Inums : Atop("walk", s, 0, j) <=> j = 0 \/ (Atop(l.pc, l.ip, l.dp, j) /\ j # 0)
    BY ZenonT(40), <2>1, <2>2 DEF Atop, Inums
  <2>8. \A j \in Inums : Count("walk", cwd[p], s, 0, 0, <<>>, j)
                         = Count(l.pc, cwd[p], l.ip, l.dp, l.old, <<>>, j) + One(j = s)
    BY <2>1, <2>2, <2>s, PutsIs DEF Count, One, Inums
  <2>9. Advances(p, m, "walk", s, 0, 0, c.path, <<>>, s, 0, 0)
    BY ZenonT(40), <2>1, <2>3, <2>4, <2>5, <2>7, <2>8, <2>s DEF Advances
  <2>. QED BY ZenonT(40), <2>4, <2>6, <2>9, <1>StepIs
\* A directory entry is 0 or the number of an inode.
<1>EntryIs. ASSUME IInv, NEW i \in Inums, NEW n \in Entries
            PROVE  disk.ents[i][n] \in 0 .. NINODES /\ (disk.ents[i][n] # 0 => disk.ents[i][n] \in Inums)
  <2>. USE <1>EntryIs
  <2>1. disk.ents \in [Inums -> [Entries -> 0 .. NINODES]]
    BY ZenonT(40) DEF IInv, Shape, AnyImage
  <2>2. disk.ents[i][n] \in 0 .. NINODES
    BY ZenonT(40), <2>1
  <2>. QED BY <2>2, Sizes DEF Inums
\* iunlockput(dp) of a failed unlink() (sysfile.c:239).
<1>UnlockParentKept. ASSUME IInv, NEW p \in Procs, UnlockParent(p), prog' = prog
                     PROVE  Stepped(p)
  <2>. USE <1>UnlockParentKept
  <2>. DEFINE l == loc[p]
              d == l.dp
  <2>1. /\ RolesOf(l) /\ l.pc = "bad" /\ l.puts = <<>> /\ booted
    BY ZenonT(40), At DEF UnlockParent
  <2>2. l.ip = 0 /\ d # 0 /\ l.old = 0
    BY ZenonT(40), <2>1 DEF RolesOf
  <2>3. d \in Inums /\ d \in 0 .. NINODES
    BY ZenonT(40), <2>2, Holding
  <2>4. disk' = disk /\ itable' = iunlock(itable, d) /\ Still /\ Ends(p, <<d>>)
    BY ZenonT(40), <2>1 DEF UnlockParent, Still, Stays
  <2>5. \A j \in Inums : One(cwd[p] = j) + Puts(<<d>>, j)
                         = Count(l.pc, cwd[p], l.ip, l.dp, l.old, <<>>, j)
    BY <2>1, <2>2, <2>3, PutsIs DEF Count, One, Inums
  <2>6. \A j \in Inums : Atop(l.pc, l.ip, l.dp, j) => j = d
    BY ZenonT(40), <2>1 DEF Atop
  <2>7. PICK m : Advances(p, m, "end", 0, 0, 0, <<>>, <<d>>, 0, 0, d)
    <3>1. <<d>> \in Seq(Inums) /\ Len(<<d>>) <= 2
      BY <2>3, PutsIs
    <3>. QED BY ZenonT(40), <2>1, <2>3, <2>4, <2>5, <2>6, <3>1, EndsTo
  <2>8. LockedAt(loc[p], d)
    BY ZenonT(40) DEF LockedAt
  <2>9. Acts(p, 0, 0, d) /\ OwnedIn(disk')
    BY ZenonT(40), <2>3, <2>4, <2>8, ActsSame DEF IInv, Owned, SameDisk
  <2>. QED BY ZenonT(40), <2>4, <2>7, <2>9, <1>StepIs
\* create() returns to sys_mkdir() or sys_mknod(), which iunlockput() it.
<1>MkdirDoneKept. ASSUME IInv, NEW p \in Procs, MkdirDone(p), prog' = prog
                  PROVE  Stepped(p)
  <2>. USE <1>MkdirDoneKept
  <2>. DEFINE l == loc[p]
              d == l.ip
  <2>1. /\ RolesOf(l) /\ l.pc = "created" /\ l.puts = <<>> /\ booted
    BY ZenonT(40), At DEF MkdirDone
  <2>2. l.dp = 0 /\ d # 0 /\ l.old = 0
    BY ZenonT(40), <2>1 DEF RolesOf
  <2>3. d \in Inums /\ d \in 0 .. NINODES /\ <<d>> \in Seq(Inums) /\ Len(<<d>>) <= 2
    BY <2>2, Holding, PutsIs
  <2>4. disk' = disk /\ itable' = iunlock(itable, d) /\ Still /\ Ends(p, <<d>>)
    BY ZenonT(40), <2>1 DEF MkdirDone, Still, Stays
  <2>5. \A j \in Inums : One(cwd[p] = j) + Puts(<<d>>, j)
                         = Count(l.pc, cwd[p], l.ip, l.dp, l.old, <<>>, j)
    BY SMTT(30), <2>1, <2>2, <2>3, PutsIs DEF Count, One, Inums
  <2>6. \A j \in Inums : Atop(l.pc, l.ip, l.dp, j) => j = d
    BY ZenonT(40), <2>2, Holding DEF Atop
  <2>7. PICK m : Advances(p, m, "end", 0, 0, 0, <<>>, <<d>>, 0, 0, d)
    BY ZenonT(40), <2>1, <2>3, <2>4, <2>5, <2>6, EndsTo
  <2>8. LockedAt(loc[p], d)
    BY ZenonT(40), <2>1 DEF LockedAt
  <2>9. Acts(p, 0, 0, d) /\ OwnedIn(disk')
    BY ZenonT(40), <2>3, <2>4, <2>8, ActsSame DEF IInv, Owned, SameDisk
  <2>. QED BY ZenonT(40), <2>4, <2>7, <2>9, <1>StepIs
\* ialloc() takes a free inode and iget()s it, or fails (fs.c:164).
<1>IallocKept. ASSUME IInv, NEW p \in Procs, ialloc(p), prog' = prog
               PROVE  Stepped(p)
  <2>. USE <1>IallocKept
  <2>. DEFINE l == loc[p]
              m == [l EXCEPT !.pc = "create"]
  <2>1. /\ l \in Locs /\ RolesOf(l) /\ l.pc = "iget" /\ l.puts = <<>> /\ l.stage = "drop"
        /\ booted /\ cwd[p] # 0
    BY At DEF ialloc
  <2>2. l.ip # 0 /\ l.dp # 0 /\ l.old = 0 /\ l.rest # <<>>
    BY ZenonT(40), <2>1 DEF RolesOf
  <2>3. l.ip \in Inums /\ l.ip \in 0 .. NINODES /\ 0 \in 0 .. NINODES
    BY ZenonT(40), <2>2, Holding
  <2>4. loc' = [loc EXCEPT ![p] = m] /\ disk' = disk /\ itable' = iget(itable, l.ip) /\ Still
    BY ZenonT(40), <2>1 DEF ialloc, Goes, Still, Stays
  <2>5. Is(m, l, "create", l.ip, l.dp, l.old, l.rest, <<>>)
    <3>1. "create" \in Places
      BY ZenonT(40) DEF Places
    <3>. QED BY ZenonT(40), <2>1, <3>1 DEF Is, Locs
  <2>. HIDE DEF m
  <2>6. RolesOf(m)
    BY ZenonT(40), <2>1, <2>2, <2>5 DEF RolesOf, Is
  <2>7. \A j \in Inums : Atop("create", l.ip, l.dp, j) <=> j = 0 \/ (Atop(l.pc, l.ip, l.dp, j) /\ j # 0)
    BY ZenonT(40), <2>1, Holding DEF Atop
  <2>8. \A j \in Inums : Count("create", cwd[p], l.ip, l.dp, l.old, <<>>, j)
                         = Count(l.pc, cwd[p], l.ip, l.dp, l.old, <<>>, j) + One(j = l.ip)
    BY <2>1, <2>2, <2>3, PutsIs DEF Count, One, Inums
  <2>9. Advances(p, m, "create", l.ip, l.dp, l.old, l.rest, <<>>, l.ip, 0, 0)
    BY ZenonT(40), <2>1, <2>3, <2>4, <2>5, <2>6, <2>7, <2>8 DEF Advances
  <2>10. Acts(p, l.ip, 0, 0) /\ OwnedIn(disk')
    BY ZenonT(40), <2>3, <2>4, ActsSame DEF IInv, Owned, SameDisk
  <2>. QED BY ZenonT(40), <2>4, <2>9, <2>10, <1>StepIs
\* A lookup that fails drops the directory it is in.
<1>Fails. ASSUME IInv, NEW p \in Procs, Runs(p, "walk"),
                 loc' = [loc EXCEPT ![p] = [loc[p] EXCEPT !.pc = IF loc[p].old # 0 THEN "undo" ELSE "end",
                                                          !.ip = 0, !.puts = <<loc[p].ip>>]]
          PROVE  \E m, pc, old, rest, puts : Advances(p, m, pc, 0, 0, old, rest, puts, 0, 0, 0)
  <2>. USE <1>Fails
  <2>. DEFINE l == loc[p]
              i == l.ip
              pc == IF l.old # 0 THEN "undo" ELSE "end"
              m == [l EXCEPT !.pc = pc, !.ip = 0, !.puts = <<i>>]
  <2>1. /\ l \in Locs /\ RolesOf(l) /\ l.pc = "walk" /\ l.puts = <<>> /\ l.stage = "drop"
        /\ cwd[p] # 0
    BY At
  <2>2. i # 0 /\ l.dp = 0
    BY ZenonT(40), <2>1 DEF RolesOf
  <2>3. i \in Inums /\ 0 \in 0 .. NINODES /\ <<i>> \in Seq(Inums) /\ Len(<<i>>) = 1 /\ <<i>> # <<>>
    BY ZenonT(40), <2>2, Holding, PutsIs
  <2>4. loc' = [loc EXCEPT ![p] = m]
    BY ZenonT(40)
  <2>p. pc \in Places /\ (l.old # 0 => pc = "undo") /\ (l.old = 0 => pc = "end")
    BY ZenonT(40) DEF Places
  <2>. HIDE DEF pc
  <2>5. Is(m, l, pc, 0, l.dp, l.old, l.rest, <<i>>) /\ m.call = l.call
    BY ZenonT(40), <2>1, <2>3, <2>p DEF Is, Locs
  <2>. HIDE DEF m
  <2>6. RolesOf(m)
    BY SMTT(30), <2>1, <2>2, <2>3, <2>5, <2>p DEF RolesOf, Is, ForParent
  <2>7. \A j \in Inums : Atop(pc, 0, l.dp, j) <=> j = 0 \/ (Atop(l.pc, l.ip, l.dp, j) /\ j # 0)
    BY ZenonT(40), <2>1, <2>2, <2>p, Holding DEF Atop
  <2>8. \A j \in Inums : Count(pc, cwd[p], 0, l.dp, l.old, <<i>>, j)
                         = Count(l.pc, cwd[p], l.ip, l.dp, l.old, <<>>, j) + One(j = 0)
    BY SMTT(30), <2>1, <2>2, <2>3, <2>p, PutsIs DEF Count, One, Inums
  <2>9. Advances(p, m, pc, 0, 0, l.old, l.rest, <<i>>, 0, 0, 0)
    BY ZenonT(40), <2>1, <2>2, <2>3, <2>4, <2>5, <2>6, <2>7, <2>8 DEF Advances
  <2>. QED BY ZenonT(40), <2>9
\* One that has come to its end keeps it.
<1>Finds. ASSUME IInv, NEW p \in Procs, Runs(p, "walk"), ForParent(loc[p]) => loc[p].rest # <<>>,
                 loc' = [loc EXCEPT ![p] = [loc[p] EXCEPT !.pc = "found"]]
          PROVE  \E m : Advances(p, m, "found", loc[p].ip, loc[p].dp, loc[p].old, loc[p].rest, <<>>, 0, 0, 0)
  <2>. USE <1>Finds
  <2>. DEFINE l == loc[p]
              m == [l EXCEPT !.pc = "found"]
  <2>1. /\ l \in Locs /\ RolesOf(l) /\ l.pc = "walk" /\ l.puts = <<>> /\ l.stage = "drop"
        /\ cwd[p] # 0
    BY At
  <2>2. l.ip # 0 /\ l.dp = 0
    BY ZenonT(40), <2>1 DEF RolesOf
  <2>3. 0 \in 0 .. NINODES /\ loc' = [loc EXCEPT ![p] = m]
    BY ZenonT(40), Holding
  <2>5. Is(m, l, "found", l.ip, l.dp, l.old, l.rest, <<>>) /\ m.call = l.call
    <3>1. "found" \in Places
      BY ZenonT(40) DEF Places
    <3>. QED BY ZenonT(40), <2>1, <3>1 DEF Is, Locs
  <2>. HIDE DEF m
  <2>6. RolesOf(m)
    BY ZenonT(40), <2>1, <2>2, <2>5 DEF RolesOf, Is, ForParent
  <2>7. \A j \in Inums : Atop("found", l.ip, l.dp, j) <=> j = 0 \/ (Atop(l.pc, l.ip, l.dp, j) /\ j # 0)
    BY ZenonT(40), <2>1, <2>2, Holding DEF Atop
  <2>8. \A j \in Inums : Count("found", cwd[p], l.ip, l.dp, l.old, <<>>, j)
                         = Count(l.pc, cwd[p], l.ip, l.dp, l.old, <<>>, j) + One(j = 0)
    BY <2>1, PutsIs DEF Count, One, Inums
  <2>9. Advances(p, m, "found", l.ip, l.dp, l.old, l.rest, <<>>, 0, 0, 0)
    BY ZenonT(40), <2>1, <2>3, <2>5, <2>6, <2>7, <2>8 DEF Advances
  <2>. QED BY ZenonT(40), <2>9
\* The head and the tail of a path.
<1>HeadTail. ASSUME NEW S, NEW q \in Seq(S), q # <<>>
             PROVE  Head(q) \in S /\ Tail(q) \in Seq(S)
  BY <1>HeadTail
\* namex() goes from a directory to its entry, or fails (fs.c:628).
<1>NamexKept. ASSUME IInv, NEW p \in Procs, namex(p), prog' = prog
              PROVE  Stepped(p)
  <2>. USE <1>NamexKept
  <2>. DEFINE l == loc[p]
              i == l.ip
              fails == [l EXCEPT !.pc = IF l.old # 0 THEN "undo" ELSE "end", !.ip = 0, !.puts = <<i>>]
              next == disk.ents[i][Head(l.rest)]
              goes == [l EXCEPT !.ip = next, !.rest = Tail(@), !.puts = <<i>>]
  <2>1. /\ l \in Locs /\ RolesOf(l) /\ l.pc = "walk" /\ l.puts = <<>> /\ l.stage = "drop"
        /\ booted /\ cwd[p] # 0 /\ Runs(p, "walk")
    <3>1. Runs(p, "walk")
      BY ZenonT(40) DEF namex
    <3>2. "walk" \notin {"idle", "end", "exit"}
      BY ZenonT(40)
    <3>. QED BY ZenonT(40), <3>1, <3>2, At
  <2>2. i # 0 /\ l.dp = 0
    BY ZenonT(40), <2>1 DEF RolesOf
  <2>3. i \in Inums /\ 0 \in 0 .. NINODES /\ <<i>> \in Seq(Inums) /\ Len(<<i>>) = 1 /\ <<i>> # <<>>
    BY ZenonT(40), <2>2, Holding, PutsIs
  <2>4. disk' = disk /\ Still
    BY ZenonT(40), <2>1 DEF namex, Still, Stays
  <2>5. OwnedIn(disk')
    BY ZenonT(40), <2>4 DEF IInv, Owned
  <2>6. \/ /\ loc' = [loc EXCEPT ![p] = fails]
           /\ itable' = itable \/ (CanLock(i) /\ itable' = Loaded(itable, i))
        \/ /\ loc' = [loc EXCEPT ![p] = [l EXCEPT !.pc = "found"]] /\ (ForParent(l) => l.rest # <<>>)
           /\ itable' = itable \/ (CanLock(i) /\ itable' = Loaded(itable, i))
        \/ /\ loc' = [loc EXCEPT ![p] = goes] /\ next # 0 /\ l.rest # <<>>
           /\ CanLock(i) /\ itable' = iget(Loaded(itable, i), next)
    BY ZenonT(40) DEF namex, Goes
  <2>7. itable' = itable \/ (CanLock(i) /\ itable' = Loaded(itable, i)) => Acts(p, 0, 0, 0)
    BY ZenonT(40), <2>3, <2>4, ActsSame, <1>ActsLoad DEF SameDisk
  <2>8. CASE loc' = [loc EXCEPT ![p] = fails] /\ Acts(p, 0, 0, 0)
    <3>1. PICK m, pc, old, rest, puts : Advances(p, m, pc, 0, 0, old, rest, puts, 0, 0, 0)
      BY ZenonT(40), <2>1, <2>8, <1>Fails
    <3>. QED BY ZenonT(40), <2>4, <2>5, <2>8, <3>1, <1>StepIs
  <2>9. CASE loc' = [loc EXCEPT ![p] = [l EXCEPT !.pc = "found"]] /\ (ForParent(l) => l.rest # <<>>)
             /\ Acts(p, 0, 0, 0)
    <3>1. PICK m : Advances(p, m, "found", l.ip, l.dp, l.old, l.rest, <<>>, 0, 0, 0)
      BY ZenonT(40), <2>1, <2>9, <1>Finds
    <3>. QED BY ZenonT(40), <2>4, <2>5, <2>9, <3>1, <1>StepIs
  <2>10. CASE /\ loc' = [loc EXCEPT ![p] = goes] /\ next # 0 /\ l.rest # <<>>
              /\ CanLock(i) /\ itable' = iget(Loaded(itable, i), next)
    <3>1. l.rest \in Seq(Entries)
      BY ZenonT(40), <2>1 DEF Locs
    <3>2. Head(l.rest) \in Entries /\ Tail(l.rest) \in Seq(Entries)
      BY ZenonT(40), <2>10, <3>1, <1>HeadTail
    <3>3. next \in 0 .. NINODES /\ next \in Inums
      BY ZenonT(40), <2>3, <2>10, <3>2, <1>EntryIs
    <3>. HIDE DEF next
    <3>4. Is(goes, l, "walk", next, l.dp, l.old, Tail(l.rest), <<i>>) /\ goes.call = l.call
      BY ZenonT(40), <2>1, <2>3, <3>2, <3>3 DEF Is, Locs
    <3>l. loc' = [loc EXCEPT ![p] = goes]
      BY ZenonT(40), <2>10
    <3>. HIDE DEF goes
    <3>5. RolesOf(goes)
      BY SMTT(30), <2>1, <2>2, <2>3, <3>3, <3>4, Holding DEF RolesOf, Is, ForParent
    <3>6. \A j \in Inums : Atop("walk", next, l.dp, j) <=> j = 0 \/ (Atop(l.pc, l.ip, l.dp, j) /\ j # 0)
      BY ZenonT(40), <2>1, <2>2, Holding DEF Atop
    <3>7. \A j \in Inums : Count("walk", cwd[p], next, l.dp, l.old, <<i>>, j)
                           = Count(l.pc, cwd[p], l.ip, l.dp, l.old, <<>>, j) + One(j = next)
      BY SMTT(30), <2>1, <2>2, <2>3, PutsIs DEF Count, One, Inums
    <3>8. Advances(p, goes, "walk", next, l.dp, l.old, Tail(l.rest), <<i>>, next, 0, 0)
      BY ZenonT(40), <2>1, <2>3, <3>l, <3>3, <3>4, <3>5, <3>6, <3>7 DEF Advances
    <3>9. Acts(p, next, 0, 0)
      BY ZenonT(40), <2>3, <2>4, <2>10, <3>3, <1>ActsLoad DEF SameDisk
    <3>. QED BY ZenonT(40), <2>4, <2>5, <3>8, <3>9, <1>StepIs
  <2>. HIDE DEF fails, next, goes
  <2>. QED BY ZenonT(40), <2>6, <2>7, <2>8, <2>9, <2>10
\* A call that gives up after its lookup.
<1>GivesUp. ASSUME IInv, NEW p \in Procs, NEW ops, Found(p, ops), loc[p].old = 0, Ends(p, <<loc[p].ip>>)
            PROVE  \E m : Advances(p, m, "end", 0, 0, 0, <<>>, <<loc[p].ip>>, 0, 0, 0)
  <2>. USE <1>GivesUp
  <2>. DEFINE l == loc[p]
  <2>1. /\ l.pc = "found" /\ l.puts = <<>> /\ l.dp = 0 /\ l.ip \in Inums
        /\ <<l.ip>> \in Seq(Inums) /\ Len(<<l.ip>>) = 1
    BY ZenonT(40), AtFound
  <2>2. \A j \in Inums : One(cwd[p] = j) + Puts(<<l.ip>>, j)
                         = Count(l.pc, cwd[p], l.ip, l.dp, l.old, <<>>, j)
    BY <2>1, PutsIs DEF Count, One, Inums
  <2>3. \A j \in Inums : Atop(l.pc, l.ip, l.dp, j) => j = 0
    BY ZenonT(40), <2>1, Holding DEF Atop
  <2>4. 0 \in 0 .. NINODES /\ Len(<<l.ip>>) <= 2
    BY <2>1, Holding
  <2>. QED BY ZenonT(40), <2>1, <2>2, <2>3, <2>4, EndsTo
\* sys_chdir() finds its directory and iput()s the old one (sysfile.c:410).
<1>ChdirKept. ASSUME IInv, NEW p \in Procs, Chdir(p), prog' = prog
              PROVE  Stepped(p)
  <2>. USE <1>ChdirKept
  <2>. DEFINE l == loc[p]
              c == cwd[p]
              m == [l EXCEPT !.pc = "chdir", !.puts = <<c>>]
  <2>1. Found(p, {"chdir"})
    BY ZenonT(40) DEF Chdir
  <2>2. /\ l \in Locs /\ RolesOf(l) /\ l.pc = "found" /\ l.puts = <<>> /\ l.stage = "drop"
        /\ booted /\ c \in Inums /\ l.call.op = "chdir" /\ l.dp = 0 /\ l.ip \in Inums
        /\ CanLock(l.ip)
    BY <2>1, AtFound
  <2>3. l.old = 0
    BY ZenonT(40), <2>2 DEF RolesOf
  <2>4. disk' = disk /\ Still /\ itable' = Loaded(itable, l.ip)
    BY ZenonT(40), <2>2 DEF Chdir, Still, Stays
  <2>5. Acts(p, 0, 0, 0) /\ OwnedIn(disk')
    BY ZenonT(40), <2>2, <2>4, <1>ActsLoad DEF IInv, Owned, SameDisk
  <2>6. Ends(p, <<l.ip>>) \/ loc' = [loc EXCEPT ![p] = m]
    BY ZenonT(40) DEF Chdir, Goes
  <2>7. CASE Ends(p, <<l.ip>>)
    <3>1. PICK n : Advances(p, n, "end", 0, 0, 0, <<>>, <<l.ip>>, 0, 0, 0)
      BY ZenonT(40), <2>1, <2>3, <2>7, <1>GivesUp
    <3>. QED BY ZenonT(40), <2>4, <2>5, <3>1, <1>StepIs
  <2>8. CASE loc' = [loc EXCEPT ![p] = m]
    <3>1. <<c>> \in Seq(Inums) /\ Len(<<c>>) = 1 /\ <<c>> # <<>> /\ 0 \in 0 .. NINODES /\ c # 0
          /\ l.ip # 0
      BY ZenonT(40), <2>2, PutsIs, Holding
    <3>2. "chdir" \in Places
      BY ZenonT(40) DEF Places
    <3>3. Is(m, l, "chdir", l.ip, l.dp, l.old, l.rest, <<c>>)
      BY ZenonT(40), <2>2, <3>1, <3>2 DEF Is, Locs
    <3>. HIDE DEF m
    <3>4. RolesOf(m)
      BY <2>2, <2>3, <3>1, <3>3 DEF RolesOf, Is, ForParent
    <3>5. \A j \in Inums : Atop("chdir", l.ip, l.dp, j) <=> j = 0 \/ (Atop(l.pc, l.ip, l.dp, j) /\ j # 0)
      BY ZenonT(40), <2>2, Holding DEF Atop
    <3>6. \A j \in Inums : Count("chdir", c, l.ip, l.dp, l.old, <<c>>, j)
                           = Count(l.pc, c, l.ip, l.dp, l.old, <<>>, j) + One(j = 0)
      BY <2>2, <2>3, PutsIs DEF Count, One, Inums
    <3>7. Advances(p, m, "chdir", l.ip, l.dp, l.old, l.rest, <<c>>, 0, 0, 0)
      BY ZenonT(40), <2>2, <2>8, <3>1, <3>3, <3>4, <3>5, <3>6 DEF Advances
    <3>. QED BY ZenonT(40), <2>4, <2>5, <3>7, <1>StepIs
  <2>. QED BY ZenonT(40), <2>6, <2>7, <2>8
\* create() of a name that exists returns the inode or fails (sysfile.c:246).
<1>CreateExistsKept. ASSUME IInv, NEW p \in Procs, CreateExists(p), prog' = prog
                     PROVE  Stepped(p)
  <2>. USE <1>CreateExistsKept
  <2>. DEFINE l == loc[p]
              d == l.ip
              m == [l EXCEPT !.pc = "created"]
  <2>1. /\ l \in Locs /\ RolesOf(l) /\ l.pc = "exists" /\ l.puts = <<>> /\ l.stage = "drop"
        /\ booted /\ cwd[p] # 0 /\ CanLock(d)
    BY At DEF CreateExists
  <2>2. l.dp = 0 /\ d # 0 /\ l.old = 0
    BY ZenonT(40), <2>1 DEF RolesOf
  <2>3. d \in Inums /\ d \in 0 .. NINODES /\ <<d>> \in Seq(Inums) /\ Len(<<d>>) <= 2 /\ 0 \in 0 .. NINODES
    BY <2>2, Holding, PutsIs
  <2>4. disk' = disk /\ Still /\ OwnedIn(disk')
    BY ZenonT(40), <2>1 DEF CreateExists, Still, Stays, IInv, Owned
  <2>5. \/ Ends(p, <<d>>) /\ itable' = Loaded(itable, d)
        \/ loc' = [loc EXCEPT ![p] = m] /\ itable' = ilock(itable, d, p)
    BY ZenonT(40) DEF CreateExists, Goes
  <2>6. CASE Ends(p, <<d>>) /\ itable' = Loaded(itable, d)
    <3>1. \A j \in Inums : One(cwd[p] = j) + Puts(<<d>>, j)
                           = Count(l.pc, cwd[p], l.ip, l.dp, l.old, <<>>, j)
      BY <2>1, <2>2, <2>3, PutsIs DEF Count, One, Inums
    <3>2. \A j \in Inums : Atop(l.pc, l.ip, l.dp, j) => j = 0
      BY ZenonT(40), <2>1, <2>2, Holding DEF Atop
    <3>3. PICK n : Advances(p, n, "end", 0, 0, 0, <<>>, <<d>>, 0, 0, 0)
      BY ZenonT(40), <2>1, <2>3, <2>6, <3>1, <3>2, EndsTo
    <3>4. Acts(p, 0, 0, 0)
      BY ZenonT(40), <2>1, <2>3, <2>4, <2>6, <1>ActsLoad DEF SameDisk
    <3>. QED BY ZenonT(40), <2>4, <3>3, <3>4, <1>StepIs
  <2>7. CASE loc' = [loc EXCEPT ![p] = m] /\ itable' = ilock(itable, d, p)
    <3>1. "created" \in Places
      BY ZenonT(40) DEF Places
    <3>2. Is(m, l, "created", d, l.dp, l.old, l.rest, <<>>)
      BY ZenonT(40), <2>1, <3>1 DEF Is, Locs
    <3>l. loc' = [loc EXCEPT ![p] = m]
      BY ZenonT(40), <2>7
    <3>. HIDE DEF m
    <3>3. RolesOf(m)
      BY ZenonT(40), <2>1, <2>2, <3>2 DEF RolesOf, Is, ForParent
    <3>4. \A j \in Inums : Atop("created", d, l.dp, j) <=> j = d \/ (Atop(l.pc, l.ip, l.dp, j) /\ j # 0)
      BY ZenonT(40), <2>1, <2>2, Holding DEF Atop
    <3>5. \A j \in Inums : Count("created", cwd[p], d, l.dp, l.old, <<>>, j)
                           = Count(l.pc, cwd[p], l.ip, l.dp, l.old, <<>>, j) + One(j = 0)
      BY <2>1, PutsIs DEF Count, One, Inums
    <3>6. Advances(p, m, "created", d, l.dp, l.old, l.rest, <<>>, 0, d, 0)
      BY ZenonT(40), <2>1, <2>3, <3>l, <3>2, <3>3, <3>4, <3>5 DEF Advances
    <3>7. Acts(p, 0, d, 0)
      BY ZenonT(40), <2>1, <2>3, <2>4, <2>7, <1>ActsLoad DEF SameDisk
    <3>. QED BY ZenonT(40), <2>4, <3>6, <3>7, <1>StepIs
  <2>. QED BY ZenonT(40), <2>5, <2>6, <2>7
\* sys_unlink() locks the parent and looks up the name (sysfile.c:189).
<1>UnlinkParentKept. ASSUME IInv, NEW p \in Procs, UnlinkParent(p), prog' = prog
                     PROVE  Stepped(p)
  <2>. USE <1>UnlinkParentKept
  <2>. DEFINE l == loc[p]
              d == l.ip
              i == disk.ents[d][Head(l.rest)]
              m == [l EXCEPT !.pc = "unlink", !.dp = d, !.ip = i]
  <2>1. Found(p, {"unlink"})
    BY ZenonT(40) DEF UnlinkParent
  <2>2. /\ l \in Locs /\ RolesOf(l) /\ l.pc = "found" /\ l.puts = <<>> /\ l.stage = "drop"
        /\ booted /\ cwd[p] \in Inums /\ l.call.op = "unlink" /\ l.dp = 0 /\ d \in Inums
        /\ CanLock(d)
    BY <2>1, AtFound
  <2>3. l.old = 0 /\ l.rest # <<>>
    BY ZenonT(40), <2>2 DEF RolesOf, ForParent
  <2>4. disk' = disk /\ Still /\ OwnedIn(disk')
    BY ZenonT(40), <2>2 DEF UnlinkParent, Still, Stays, IInv, Owned
  <2>5. \/ Ends(p, <<d>>) /\ itable' = Loaded(itable, d)
        \/ i # 0 /\ loc' = [loc EXCEPT ![p] = m] /\ itable' = iget(ilock(itable, d, p), i)
    BY DEF UnlinkParent, Goes
  <2>6. CASE Ends(p, <<d>>) /\ itable' = Loaded(itable, d)
    <3>1. PICK n : Advances(p, n, "end", 0, 0, 0, <<>>, <<d>>, 0, 0, 0)
      BY ZenonT(40), <2>1, <2>3, <2>6, <1>GivesUp
    <3>2. Acts(p, 0, 0, 0)
      BY ZenonT(40), <2>2, <2>4, <2>6, <1>ActsLoad DEF SameDisk
    <3>. QED BY ZenonT(40), <2>4, <3>1, <3>2, <1>StepIs
  <2>7. CASE i # 0 /\ loc' = [loc EXCEPT ![p] = m] /\ itable' = iget(ilock(itable, d, p), i)
    <3>1. l.rest \in Seq(Entries) /\ "unlink" \in Places
      BY ZenonT(40), <2>2 DEF Locs, Places
    <3>2. Head(l.rest) \in Entries
      BY ZenonT(40), <2>3, <3>1, <1>HeadTail
    <3>3. i \in Inums /\ i \in 0 .. NINODES
      BY ZenonT(40), <2>2, <2>7, <3>2, <1>EntryIs
    <3>4. d # 0 /\ d \in 0 .. NINODES /\ 0 \in 0 .. NINODES /\ i # 0 /\ cwd[p] # 0
      BY ZenonT(40), <2>2, <2>7, Holding
    <3>. HIDE DEF i
    <3>5. Is(m, l, "unlink", i, d, l.old, l.rest, <<>>)
      BY ZenonT(40), <2>2, <3>1, <3>3, <3>4 DEF Is, Locs
    <3>l. loc' = [loc EXCEPT ![p] = m]
      BY ZenonT(40), <2>7
    <3>. HIDE DEF m
    <3>6. RolesOf(m)
      BY ZenonT(40), <2>2, <2>3, <3>4, <3>5 DEF RolesOf, Is
    <3>7. \A j \in Inums : Atop("unlink", i, d, j) <=> j = d \/ (Atop(l.pc, l.ip, l.dp, j) /\ j # 0)
      BY ZenonT(40), <2>2, Holding DEF Atop
    <3>8. \A j \in Inums : Count("unlink", cwd[p], i, d, l.old, <<>>, j)
                           = Count(l.pc, cwd[p], l.ip, l.dp, l.old, <<>>, j) + One(j = i)
      BY <2>2, <2>3, PutsIs DEF Count, One, Inums
    <3>9. Advances(p, m, "unlink", i, d, l.old, l.rest, <<>>, i, d, 0)
      BY ZenonT(40), <2>2, <3>3, <3>4, <3>l, <3>5, <3>6, <3>7, <3>8 DEF Advances
    <3>10. Acts(p, i, d, 0)
      BY ZenonT(40), <2>2, <2>4, <2>7, <3>3, <1>ActsLoad DEF SameDisk
    <3>. QED BY ZenonT(40), <2>4, <3>9, <3>10, <1>StepIs
  <2>. QED BY ZenonT(40), <2>5, <2>6, <2>7
<1>UpdatesTo. ASSUME NEW e, NEW i \in Inums, NEW n, NEW f, Updated(f, e, i, n)
              PROVE  UpdatedOne(f, e, i, n)
  <2>. USE <1>UpdatesTo
  <2>. SUFFICES ASSUME e \in AnyImage, OwnedIn(e), n \in AnyInode, SameInodes(f, iupdate(e, i, n)),
                       n.type = e.inode[i].type, n.size = e.inode[i].size, n.addrs = e.inode[i].addrs
                PROVE  UpdatedOne(f, e, i, n)
    BY ZenonT(40) DEF Updated
  <2>1. /\ f \in AnyImage /\ f.inode = [e.inode EXCEPT ![i] = n]
        /\ f.used = e.used /\ f.ind = e.ind
    BY IupdateIs DEF SameInodes
  <2>2. e.inode \in [Inums -> AnyInode]
    BY ZenonT(40) DEF AnyImage
  <2>3. f.inode[i] = n /\ \A j \in Inums : j # i => f.inode[j] = e.inode[j]
    BY ZenonT(40), <2>1, <2>2
  <2>4. \A j \in Inums : /\ f.inode[j].addrs = e.inode[j].addrs
                         /\ f.inode[j].size = e.inode[j].size
                         /\ f.inode[j].type = "none" => e.inode[j].type = "none"
    BY ZenonT(40), <2>3
  <2>5. OwnedIn(f)
    BY ZenonT(40), <2>1, <2>4, <1>UpdateOwned
  <2>. QED BY ZenonT(40), <2>1, <2>3, <2>5 DEF UpdatedOne
\* A directory entry is written with the inode of its directory.
<1>WroteEnts. ASSUME IInv, NEW i \in Inums, NEW n \in AnyInode, n.type = disk.inode[i].type, n.type # "none",
                     n.size = disk.inode[i].size, n.addrs = disk.inode[i].addrs,
                     SameInodes(disk', iupdate(disk, i, n))
              PROVE  Wrote(i) /\ disk'.inode[i] = n /\ OwnedIn(disk')
  <2>. USE <1>WroteEnts
  <2>1. disk \in AnyImage /\ OwnedIn(disk)
    BY ZenonT(40) DEF IInv, Shape, Owned
  <2>2. Updated(disk', disk, i, n)
    BY ZenonT(40), <2>1 DEF Updated
  <2>3. UpdatedOne(disk', disk, i, n)
    BY ZenonT(40), <2>2, <1>UpdatesTo
  <2>. QED BY ZenonT(40), <2>3 DEF Wrote, UpdatedOne
\* The inode is written, on disk and in the table.
<1>WroteIs. ASSUME IInv, NEW i \in Inums, NEW n \in AnyInode, n.type = disk.inode[i].type, n.type # "none",
                   n.size = disk.inode[i].size, n.addrs = disk.inode[i].addrs,
                   disk' = iupdate(disk, i, n)
            PROVE  Wrote(i) /\ disk'.inode[i] = n /\ OwnedIn(disk')
  <2>. USE <1>WroteIs
  <2>1. disk \in AnyImage
    BY ZenonT(40) DEF IInv, Shape
  <2>2. SameInodes(disk', iupdate(disk, i, n))
    BY ZenonT(40), <2>1, IupdateIs DEF SameInodes
  <2>. QED BY ZenonT(40), <2>2, <1>WroteEnts
\* A change of nlink leaves the blocks of an inode.
<1>NlinkIs. ASSUME NEW m \in AnyInode, NEW x \in Int
            PROVE  LET n == [m EXCEPT !.nlink = x]
                   IN  n \in AnyInode /\ n.type = m.type /\ n.size = m.size /\ n.addrs = m.addrs
  BY ZenonT(40), <1>NlinkIs DEF AnyInode
\* sys_link() takes back nlink++ on its error path (sysfile.c:163).
<1>LinkUndoKept. ASSUME IInv, NEW p \in Procs, LinkUndo(p), prog' = prog
                 PROVE  Stepped(p)
  <2>. USE <1>LinkUndoKept
  <2>. DEFINE l == loc[p]
              i == l.old
              n == [Loaded(itable, i)[i].mem EXCEPT !.nlink = @ - 1]
  <2>1. /\ l \in Locs /\ RolesOf(l) /\ l.pc = "undo" /\ l.puts = <<>> /\ l.stage = "drop"
        /\ booted /\ cwd[p] # 0 /\ CanLock(i)
    BY At DEF LinkUndo
  <2>2. l.dp = 0 /\ l.ip = 0 /\ i # 0
    BY ZenonT(40), <2>1 DEF RolesOf
  <2>3. i \in Inums /\ i \in 0 .. NINODES /\ <<i>> \in Seq(Inums) /\ Len(<<i>>) <= 2 /\ 0 \in 0 .. NINODES
    BY <2>2, Holding, PutsIs
  <2>4. /\ Still /\ Ends(p, <<i>>) /\ disk' = iupdate(disk, i, n)
        /\ itable' = InMemory(Loaded(itable, i), i, n)
    BY ZenonT(40), <2>1 DEF LinkUndo, Still, Stays
  <2>5. Loaded(itable, i)[i].mem = disk.inode[i] /\ disk.inode[i].type # "none"
    BY ZenonT(40), <2>1, <2>3, Reads
  <2>6. disk.inode[i] \in AnyInode /\ disk.inode[i].nlink - 1 \in Int
    BY SMTT(30), <2>3, InodeIs
  <2>7. n \in AnyInode /\ n.type = disk.inode[i].type /\ n.size = disk.inode[i].size
        /\ n.addrs = disk.inode[i].addrs
    BY <2>5, <2>6, <1>NlinkIs
  <2>. HIDE DEF n
  <2>8. Wrote(i) /\ disk'.inode[i] = n /\ OwnedIn(disk')
    BY ZenonT(40), <2>3, <2>4, <2>5, <2>7, <1>WroteIs
  <2>9. Acts(p, 0, 0, 0)
    BY ZenonT(40), <2>1, <2>3, <2>4, <2>8, ActsWrite
  <2>10. \A j \in Inums : One(cwd[p] = j) + Puts(<<i>>, j)
                          = Count(l.pc, cwd[p], l.ip, l.dp, l.old, <<>>, j)
    BY SMTT(30), <2>1, <2>2, <2>3, PutsIs DEF Count, One, Inums
  <2>11. \A j \in Inums : Atop(l.pc, l.ip, l.dp, j) => j = 0
    BY ZenonT(40), <2>1, <2>2, Holding DEF Atop
  <2>12. PICK m : Advances(p, m, "end", 0, 0, 0, <<>>, <<i>>, 0, 0, 0)
    BY ZenonT(40), <2>1, <2>3, <2>4, <2>10, <2>11, EndsTo
  <2>. QED BY ZenonT(40), <2>4, <2>8, <2>9, <2>12, <1>StepIs
\* sys_unlink() has removed the entry, and unlinks the inode (sysfile.c:189).
<1>UnlinkDoneKept. ASSUME IInv, NEW p \in Procs, UnlinkDone(p), prog' = prog
                   PROVE  Stepped(p)
  <2>. USE <1>UnlinkDoneKept
  <2>. DEFINE l == loc[p]
              i == l.ip
              n == [itable[i].mem EXCEPT !.nlink = @ - 1]
  <2>1. /\ l \in Locs /\ RolesOf(l) /\ l.pc = "unlinked" /\ l.puts = <<>> /\ l.stage = "drop"
        /\ booted /\ cwd[p] # 0
    BY At DEF UnlinkDone
  <2>2. l.dp = 0 /\ i # 0 /\ l.old = 0 /\ LockedAt(l, i)
    BY ZenonT(40), <2>1 DEF RolesOf, LockedAt
  <2>3. i \in Inums /\ i \in 0 .. NINODES /\ <<i>> \in Seq(Inums) /\ Len(<<i>>) <= 2 /\ 0 \in 0 .. NINODES
    BY SMTT(30), <2>2, Holding, PutsIs
  <2>4. /\ Still /\ Ends(p, <<i>>) /\ disk' = iupdate(disk, i, n)
        /\ itable' = iunlock(InMemory(itable, i, n), i)
    BY ZenonT(40), <2>1 DEF UnlinkDone, Still, Stays
  <2>5. itable[i].mem = disk.inode[i] /\ disk.inode[i].type # "none"
    BY ZenonT(40), <2>1, <2>2, <2>3, ReadsLocked
  <2>6. disk.inode[i] \in AnyInode /\ disk.inode[i].nlink - 1 \in Int
    BY SMTT(30), <2>3, InodeIs
  <2>7. n \in AnyInode /\ n.type = disk.inode[i].type /\ n.size = disk.inode[i].size
        /\ n.addrs = disk.inode[i].addrs
    BY SMTT(30), <2>5, <2>6, <1>NlinkIs
  <2>. HIDE DEF n
  <2>8. Wrote(i) /\ disk'.inode[i] = n /\ OwnedIn(disk')
    BY ZenonT(40), <2>3, <2>4, <2>5, <2>7, <1>WroteIs
  <2>9. Acts(p, 0, 0, i)
    BY ZenonT(40), <2>1, <2>2, <2>3, <2>4, <2>8, ActsWrite
  <2>10. \A j \in Inums : One(cwd[p] = j) + Puts(<<i>>, j)
                          = Count(l.pc, cwd[p], l.ip, l.dp, l.old, <<>>, j)
    BY SMTT(30), <2>1, <2>2, <2>3, PutsIs DEF Count, One, Inums
  <2>11. \A j \in Inums : Atop(l.pc, l.ip, l.dp, j) => j = i
    BY ZenonT(40), <2>1, <2>2, Holding DEF Atop
  <2>12. PICK m : Advances(p, m, "end", 0, 0, 0, <<>>, <<i>>, 0, 0, i)
    BY ZenonT(40), <2>1, <2>3, <2>4, <2>10, <2>11, EndsTo
  <2>. QED BY ZenonT(40), <2>4, <2>8, <2>9, <2>12, <1>StepIs
\* sys_link() counts the new link before it is made (sysfile.c:124).
<1>LinkIncKept. ASSUME IInv, NEW p \in Procs, LinkInc(p), prog' = prog
                PROVE  Stepped(p)
  <2>. USE <1>LinkIncKept
  <2>. DEFINE l == loc[p]
              i == l.ip
              r == IF l.call.newabs THEN ROOTINO ELSE cwd[p]
              n == [Loaded(itable, i)[i].mem EXCEPT !.nlink = @ + 1]
              m == [l EXCEPT !.pc = "walk", !.old = i, !.ip = r, !.rest = l.call.new]
  <2>1. Found(p, {"link"}) /\ l.old = 0
    BY ZenonT(40) DEF LinkInc
  <2>2. /\ l \in Locs /\ RolesOf(l) /\ l.pc = "found" /\ l.puts = <<>> /\ l.stage = "drop"
        /\ booted /\ cwd[p] \in Inums /\ l.call.op = "link" /\ l.dp = 0 /\ i \in Inums
        /\ CanLock(i)
    BY SMTT(30), <2>1, AtFound
  <2>3. Still
    BY ZenonT(40), <2>2 DEF LinkInc, Still, Stays
  <2>4. \/ Ends(p, <<i>>) /\ itable' = Loaded(itable, i) /\ disk' = disk
        \/ disk' = iupdate(disk, i, n) /\ itable' = iget(InMemory(Loaded(itable, i), i, n), r)
           /\ loc' = [loc EXCEPT ![p] = m]
    BY ZenonT(40) DEF LinkInc, Goes
  <2>5. CASE Ends(p, <<i>>) /\ itable' = Loaded(itable, i) /\ disk' = disk
    <3>1. PICK k : Advances(p, k, "end", 0, 0, 0, <<>>, <<i>>, 0, 0, 0)
      BY ZenonT(40), <2>1, <2>5, <1>GivesUp
    <3>2. Acts(p, 0, 0, 0) /\ OwnedIn(disk')
      BY ZenonT(40), <2>2, <2>5, <1>ActsLoad DEF SameDisk, IInv, Owned
    <3>. QED BY ZenonT(40), <2>3, <3>1, <3>2, <1>StepIs
  <2>6. CASE disk' = iupdate(disk, i, n) /\ itable' = iget(InMemory(Loaded(itable, i), i, n), r)
             /\ loc' = [loc EXCEPT ![p] = m]
    <3>1. l.call.new \in Seq(Entries) /\ "walk" \in Places
      BY ZenonT(40), <2>2 DEF Locs, Places, Calls
    <3>2. r \in Inums /\ r \in 0 .. NINODES /\ r # 0 /\ i # 0 /\ cwd[p] # 0 /\ i \in 0 .. NINODES
          /\ 0 \in 0 .. NINODES
      BY ZenonT(40), <2>2, Holding, Sizes DEF Inums, ROOTINO
    <3>. HIDE DEF r
    <3>3. Loaded(itable, i)[i].mem = disk.inode[i] /\ disk.inode[i].type # "none"
      BY ZenonT(40), <2>2, Reads
    <3>4. disk.inode[i] \in AnyInode /\ disk.inode[i].nlink + 1 \in Int
      BY SMTT(30), <2>2, InodeIs
    <3>5. n \in AnyInode /\ n.type = disk.inode[i].type /\ n.size = disk.inode[i].size
          /\ n.addrs = disk.inode[i].addrs
      BY <3>3, <3>4, <1>NlinkIs
    <3>. HIDE DEF n
    <3>6. Wrote(i) /\ disk'.inode[i] = n /\ OwnedIn(disk')
      BY ZenonT(40), <2>2, <2>6, <3>3, <3>5, <1>WroteIs
    <3>7. Acts(p, r, 0, 0)
      BY ZenonT(40), <2>2, <2>6, <3>2, <3>6, ActsWrite
    <3>8. Is(m, l, "walk", r, l.dp, i, l.call.new, <<>>) /\ m.call = l.call
      BY ZenonT(40), <2>2, <3>1, <3>2 DEF Is, Locs
    <3>l. loc' = [loc EXCEPT ![p] = m]
      BY ZenonT(40), <2>6
    <3>. HIDE DEF m
    <3>9. RolesOf(m)
      BY ZenonT(40), <2>2, <3>2, <3>8, PutsIs DEF RolesOf, Is, ForParent
    <3>10. \A j \in Inums : Atop("walk", r, l.dp, j) <=> j = 0 \/ (Atop(l.pc, l.ip, l.dp, j) /\ j # 0)
      BY ZenonT(40), <2>2, Holding DEF Atop
    <3>11. \A j \in Inums : Count("walk", cwd[p], r, l.dp, i, <<>>, j)
                            = Count(l.pc, cwd[p], l.ip, l.dp, l.old, <<>>, j) + One(j = r)
      BY SMTT(30), <2>1, <2>2, <3>2, PutsIs DEF Count, One, Inums
    <3>12. Advances(p, m, "walk", r, l.dp, i, l.call.new, <<>>, r, 0, 0)
      BY ZenonT(40), <2>2, <3>2, <3>l, <3>8, <3>9, <3>10, <3>11 DEF Advances
    <3>. QED BY ZenonT(40), <2>3, <3>6, <3>7, <3>12, <1>StepIs
  <2>. QED BY ZenonT(40), <2>4, <2>5, <2>6
\* A change of entries only.
<1>EntsOwned. ASSUME IInv, SameInodes(disk', disk)
              PROVE  SameDisk /\ OwnedIn(disk')
  <2>. USE <1>EntsOwned
  <2>1. disk \in AnyImage /\ OwnedIn(disk)
    BY ZenonT(40) DEF IInv, Shape, Owned
  <2>2. disk' \in AnyImage /\ disk'.inode = disk.inode /\ disk'.used = disk.used /\ disk'.ind = disk.ind
    BY ZenonT(40) DEF SameInodes
  <2>3. OwnedIn(disk')
    BY ZenonT(40), <2>1, <2>2, <1>UpdateOwned
  <2>. QED BY ZenonT(40), <2>2, <2>3 DEF SameDisk
\* sys_link() enters the new name, or fails (sysfile.c:124).
<1>LinkEnterKept. ASSUME IInv, NEW p \in Procs, LinkEnter(p), prog' = prog
                  PROVE  Stepped(p)
  <2>. USE <1>LinkEnterKept
  <2>. DEFINE l == loc[p]
              i == l.ip
              o == l.old
              n == Head(l.rest)
              m == [l EXCEPT !.pc = "undo", !.ip = 0, !.rest = <<>>, !.puts = <<i>>]
              e == [disk EXCEPT !.ents[i][n] = o]
              f == Astray(e, Loaded(itable, i)[i].mem, {o})
  <2>1. Found(p, {"link"}) /\ o # 0
    BY ZenonT(40) DEF LinkEnter
  <2>2. /\ l \in Locs /\ RolesOf(l) /\ l.pc = "found" /\ l.puts = <<>> /\ l.stage = "drop"
        /\ booted /\ cwd[p] \in Inums /\ l.call.op = "link" /\ l.dp = 0 /\ i \in Inums
        /\ CanLock(i)
    BY <2>1, AtFound
  <2>3. Still /\ itable' = Loaded(itable, i)
    BY ZenonT(40), <2>2 DEF LinkEnter, Still, Stays
  <2>4. /\ o \in Inums /\ i # 0 /\ cwd[p] # 0 /\ 0 \in 0 .. NINODES /\ o \in 0 .. NINODES
        /\ <<i>> \in Seq(Inums) /\ Len(<<i>>) <= 2 /\ <<i>> # <<>>
        /\ <<i, o>> \in Seq(Inums) /\ Len(<<i, o>>) <= 2
    <3>1. o \in Inums /\ i # 0 /\ cwd[p] # 0 /\ 0 \in 0 .. NINODES /\ o \in 0 .. NINODES
      BY ZenonT(40), <2>1, <2>2, Holding
    <3>. QED BY <2>2, <3>1, PutsIs
  <2>5. \/ loc' = [loc EXCEPT ![p] = m] /\ disk' = disk
        \/ disk' = f /\ Ends(p, <<i, o>>)
    BY ZenonT(40) DEF LinkEnter, Goes
  <2>6. CASE loc' = [loc EXCEPT ![p] = m] /\ disk' = disk
    <3>1. "undo" \in Places /\ <<>> \in Seq(Entries) /\ l.call \in Calls
      BY <2>2 DEF Places, Locs
    <3>2. Is(m, l, "undo", 0, l.dp, o, <<>>, <<i>>) /\ m.call = l.call
      BY ZenonT(40), <2>2, <2>4, <3>1 DEF Is, Locs
    <3>l. loc' = [loc EXCEPT ![p] = m]
      BY ZenonT(40), <2>6
    <3>. HIDE DEF m
    <3>3. RolesOf(m)
      BY ZenonT(40), <2>1, <2>2, <2>4, <3>2 DEF RolesOf, Is, ForParent
    <3>4. \A j \in Inums : Atop("undo", 0, l.dp, j) <=> j = 0 \/ (Atop(l.pc, l.ip, l.dp, j) /\ j # 0)
      BY ZenonT(40), <2>2, Holding DEF Atop
    <3>5. \A j \in Inums : Count("undo", cwd[p], 0, l.dp, o, <<i>>, j)
                           = Count(l.pc, cwd[p], l.ip, l.dp, l.old, <<>>, j) + One(j = 0)
      BY <2>2, <2>4, PutsIs DEF Count, One, Inums
    <3>6. Advances(p, m, "undo", 0, l.dp, o, <<>>, <<i>>, 0, 0, 0)
      BY ZenonT(40), <2>2, <2>4, <3>l, <3>2, <3>3, <3>4, <3>5 DEF Advances
    <3>7. Acts(p, 0, 0, 0) /\ OwnedIn(disk')
      BY ZenonT(40), <2>2, <2>3, <2>6, <1>ActsLoad DEF SameDisk, IInv, Owned
    <3>. QED BY ZenonT(40), <2>3, <3>6, <3>7, <1>StepIs
  <2>7. CASE disk' = f /\ Ends(p, <<i, o>>)
    <3>1. l.rest \in Seq(Entries) /\ l.rest # <<>> /\ disk \in AnyImage
      BY ZenonT(40), <2>1, <2>2 DEF Locs, RolesOf, ForParent, IInv, Shape
    <3>2. n \in Entries
      BY ZenonT(40), <3>1, <1>HeadTail
    <3>. HIDE DEF n
    <3>3. SameInodes(e, disk)
      BY ZenonT(40), <2>2, <2>4, <3>1, <3>2, EntsIs
    <3>4. e \in AnyImage /\ {o} \subseteq Inums
      BY ZenonT(40), <2>4, <3>3 DEF SameInodes
    <3>. HIDE DEF e
    <3>5. SameInodes(f, e)
      BY ZenonT(40), <2>2, <3>4, EntsIs
    <3>6. SameInodes(disk', disk)
      BY ZenonT(40), <2>7, <3>3, <3>5 DEF SameInodes
    <3>7. Acts(p, 0, 0, 0) /\ OwnedIn(disk')
      BY ZenonT(40), <2>2, <2>3, <3>6, <1>EntsOwned, <1>ActsLoad
    <3>8. \A j \in Inums : One(cwd[p] = j) + Puts(<<i, o>>, j)
                           = Count(l.pc, cwd[p], l.ip, l.dp, l.old, <<>>, j)
      <4>. TAKE j \in Inums
      <4>1. i \in Inums /\ o \in Inums /\ l.pc = "found" /\ l.dp = 0 /\ l.ip = i /\ l.old = o
        BY ZenonT(40), <2>2, <2>4
      <4>2. 0 # j
        BY SMTT(30) DEF Inums
      <4>. HIDE DEF i, o
      <4>3. Puts(<<i, o>>, j) = One(i = j) + One(o = j) /\ Puts(<<>>, j) = 0
        BY <4>1, PutsIs
      <4>. QED BY SMTT(30), <4>1, <4>2, <4>3 DEF Count, One
    <3>9. \A j \in Inums : Atop(l.pc, l.ip, l.dp, j) => j = 0
      BY ZenonT(40), <2>2, Holding DEF Atop
    <3>10. PICK k : Advances(p, k, "end", 0, 0, 0, <<>>, <<i, o>>, 0, 0, 0)
      BY ZenonT(40), <2>2, <2>4, <2>7, <3>8, <3>9, EndsTo
    <3>. QED BY ZenonT(40), <2>3, <3>7, <3>10, <1>StepIs
  <2>. QED BY ZenonT(40), <2>5, <2>6, <2>7
<1>LockedIs. ASSUME IInv, NEW p \in Procs, NEW i \in Inums, CanLock(i)
             PROVE  /\ disk'.inode[i] = disk.inode[i] => HasLocked(ilock(itable, i, p), i, p)
                    /\ disk'.inode[i] \in AnyInode
                       => HasLocked(InMemory(ilock(itable, i, p), i, disk'.inode[i]), i, p)
  <2>. USE <1>LockedIs
  <2>. DEFINE t == ilock(itable, i, p)
              v == InMemory(t, i, disk'.inode[i])
  <2>1. itable \in Tables /\ disk \in AnyImage
    BY ZenonT(40) DEF IInv, Shape
  <2>2. itable[i].valid => itable[i].mem = disk.inode[i]
    BY ZenonT(40), Reads
  <2>3. /\ t \in Tables
        /\ \A j \in Inums : /\ t[j].ref = itable[j].ref
                            /\ t[j].valid <=> itable[j].valid \/ j = i
                            /\ j # i => t[j].lock = itable[j].lock
                            /\ t[j].mem = IF j = i /\ ~itable[j].valid THEN disk.inode[j]
                                                                       ELSE itable[j].mem
        /\ t[i].lock = {p}
    BY <2>1, <1>IlockIs
  <2>. HIDE DEF t
  <2>4. disk'.inode[i] = disk.inode[i] => HasLocked(t, i, p)
    BY ZenonT(40), <2>2, <2>3 DEF HasLocked
  <2>5. ASSUME disk'.inode[i] \in AnyInode PROVE HasLocked(v, i, p)
    <3>1. /\ v \in Tables
          /\ \A j \in Inums : /\ v[j].ref = t[j].ref
                              /\ v[j].valid = t[j].valid
                              /\ v[j].lock = t[j].lock
                              /\ v[j].mem = IF j = i THEN disk'.inode[i] ELSE t[j].mem
      BY <2>3, <2>5, InMemoryIs
    <3>. HIDE DEF v
    <3>. QED BY ZenonT(40), <2>3, <3>1 DEF HasLocked
  <2>. QED BY ZenonT(40), <2>4, <2>5 DEF t
\* It is unlocked again; or another, already locked, is written and unlocked.
<1>ActsLocked. ASSUME IInv, NEW p \in Procs, NEW i \in Inums, CanLock(i), Wrote(i), NEW u, HasLocked(u, i, p),
                      itable' = iunlock(u, i)
               PROVE  Acts(p, 0, 0, 0)
  <2>. USE <1>ActsLocked
  <2>1. itable \in Tables /\ disk \in AnyImage /\ 0 \notin Inums /\ itable[i].lock = {}
    <3>1. itable \in Tables /\ disk \in AnyImage /\ itable[i].lock = {}
      BY ZenonT(40), Reads DEF IInv, Shape
    <3>2. 0 \notin Inums
      BY DEF Inums
    <3>. QED BY ZenonT(40), <3>1, <3>2
  <2>2. /\ \A j \in Inums : itable[j].ref \in Int /\ j # 0
        /\ disk' \in AnyImage /\ disk'.inode[i].type # "none"
        /\ \A j \in Inums : j # i => disk'.inode[j] = disk.inode[j]
    BY ZenonT(40), <2>1 DEF Tables, Wrote
  <2>3. /\ u \in Tables /\ u[i].mem = disk'.inode[i]
        /\ \A j \in Inums : /\ u[j].ref = itable[j].ref
                            /\ u[j].valid <=> itable[j].valid \/ j = i
                            /\ j # i => u[j].lock = itable[j].lock
                            /\ j # i => u[j].mem = itable[j].mem
    BY ZenonT(40) DEF HasLocked
  <2>4. /\ itable' \in Tables
        /\ \A j \in Inums : /\ itable'[j].ref = u[j].ref
                            /\ itable'[j].valid = u[j].valid
                            /\ itable'[j].lock = IF j = i THEN {} ELSE u[j].lock
                            /\ itable'[j].mem = u[j].mem
    BY <2>3, IunlockIs
  <2>5. /\ \A j \in Inums : /\ itable'[j].ref = itable[j].ref
                            /\ itable'[j].valid <=> itable[j].valid \/ j = i
                            /\ itable'[j].lock = itable[j].lock
                            /\ j # i => itable'[j].mem = itable[j].mem
        /\ itable'[i].mem = disk'.inode[i]
    BY ZenonT(40), <2>1, <2>3, <2>4
  <2>6. \A j \in Inums : itable'[j].valid => Synced(j)
    BY ZenonT(40), <2>2, <2>5 DEF Synced
  <2>7. \A j \in Inums : itable'[j].ref = itable[j].ref + One(j = 0)
    BY <2>2, <2>5 DEF One
  <2>. QED BY ZenonT(40), <2>2, <2>4, <2>5, <2>6, <2>7 DEF Acts
<1>ActsBoth. ASSUME IInv, NEW p \in Procs, NEW i \in Inums, NEW d \in Inums, CanLock(i), WroteBoth(i, d),
                    LockedAt(loc[p], d), loc[p].stage = "drop", i # d, NEW u, HasLocked(u, i, p),
                    itable' = iunlock(InMemory(u, d, disk'.inode[d]), d)
             PROVE  Acts(p, 0, i, d)
  <2>. USE <1>ActsBoth
  <2>. DEFINE v == InMemory(u, d, disk'.inode[d])
  <2>1. itable \in Tables /\ disk \in AnyImage /\ 0 \notin Inums /\ itable[i].lock = {}
    <3>1. itable \in Tables /\ disk \in AnyImage /\ itable[i].lock = {}
      BY ZenonT(40), Reads DEF IInv, Shape
    <3>2. 0 \notin Inums
      BY DEF Inums
    <3>. QED BY ZenonT(40), <3>1, <3>2
  <2>2. /\ \A j \in Inums : itable[j].ref \in Int /\ j # 0
        /\ disk' \in AnyImage /\ disk'.inode[i].type # "none" /\ disk'.inode[d].type # "none"
        /\ \A j \in Inums : j # i /\ j # d => disk'.inode[j] = disk.inode[j]
    BY ZenonT(40), <2>1 DEF Tables, WroteBoth
  <2>3. /\ u \in Tables /\ u[i].mem = disk'.inode[i] /\ u[i].lock = {p}
        /\ \A j \in Inums : /\ u[j].ref = itable[j].ref
                            /\ u[j].valid <=> itable[j].valid \/ j = i
                            /\ j # i => u[j].lock = itable[j].lock
                            /\ j # i => u[j].mem = itable[j].mem
    BY ZenonT(40) DEF HasLocked
  <2>m. disk'.inode[d] \in AnyInode
    <3>1. disk'.inode \in [Inums -> AnyInode]
      BY ZenonT(40), <2>2 DEF AnyImage
    <3>. QED BY ZenonT(40), <3>1
  <2>4. /\ v \in Tables
        /\ \A j \in Inums : /\ v[j].ref = u[j].ref
                            /\ v[j].valid = u[j].valid
                            /\ v[j].lock = u[j].lock
                            /\ v[j].mem = IF j = d THEN disk'.inode[d] ELSE u[j].mem
    BY <2>3, <2>m, InMemoryIs
  <2>5. itable' = iunlock(v, d)
    BY ZenonT(40)
  <2>. HIDE DEF v
  <2>6. /\ itable' \in Tables
        /\ \A j \in Inums : /\ itable'[j].ref = v[j].ref
                            /\ itable'[j].valid = v[j].valid
                            /\ itable'[j].lock = IF j = d THEN {} ELSE v[j].lock
                            /\ itable'[j].mem = v[j].mem
    BY SMTT(30), <2>4, <2>5, IunlockIs
  <2>7. \A j \in Inums : /\ itable'[j].ref = itable[j].ref
                         /\ itable'[j].valid <=> itable[j].valid \/ j = i
    BY ZenonT(90), <2>3, <2>4, <2>6
  <2>8. \A j \in Inums : j # i /\ j # d => /\ itable'[j].lock = itable[j].lock
                                          /\ itable'[j].mem = itable[j].mem
    BY ZenonT(90), <2>3, <2>4, <2>6
  <2>9. /\ itable'[i].mem = disk'.inode[i] /\ itable'[d].mem = disk'.inode[d]
        /\ itable'[i].lock = {p} /\ itable'[d].lock = {}
    BY ZenonT(40), <2>3, <2>4, <2>6
  <2>10. \A j \in Inums : itable'[j].valid => Synced(j)
    BY ZenonT(40), <2>2, <2>7, <2>8, <2>9 DEF Synced
  <2>11. \A j \in Inums : itable'[j].ref = itable[j].ref + One(j = 0)
    BY <2>2, <2>7 DEF One
  <2>. QED BY ZenonT(40), <2>1, <2>2, <2>6, <2>7, <2>8, <2>9, <2>10, <2>11 DEF Acts
\* A directory without an entry it had.
<1>UnlinkedIs. ASSUME NEW m \in AnyInode, NEW t
               PROVE  LET n == Unlinked(m, t)
                      IN  n \in AnyInode /\ n.type = m.type /\ n.size = m.size /\ n.addrs = m.addrs
  <2>. USE <1>UnlinkedIs
  <2>1. (IF t = "dir" THEN m.nlink - 1 ELSE m.nlink) \in Int
    BY DEF AnyInode
  <2>. QED BY ZenonT(40), <2>1, <1>NlinkIs DEF Unlinked
\* sys_unlink() locks the inode, checks it and clears its entry (sysfile.c:189).
<1>UnlinkEntryKept. ASSUME IInv, NEW p \in Procs, UnlinkEntry(p), prog' = prog
                    PROVE  Stepped(p)
  <2>. USE <1>UnlinkEntryKept
  <2>. DEFINE l == loc[p]
              i == l.ip
              d == l.dp
              t == ilock(itable, i, p)
              n == Unlinked(t[d].mem, t[i].mem.type)
              m == [l EXCEPT !.pc = "bad", !.ip = 0, !.puts = <<i>>]
              k == [l EXCEPT !.pc = "unlinked", !.dp = 0, !.puts = <<d>>]
              e == iupdate(disk, d, n)
  <2>1. /\ l \in Locs /\ RolesOf(l) /\ l.pc = "unlink" /\ l.puts = <<>> /\ l.stage = "drop"
        /\ booted /\ cwd[p] # 0 /\ CanLock(i)
    BY ZenonT(40), At DEF UnlinkEntry
  <2>2. d # 0 /\ i # 0 /\ l.old = 0 /\ LockedAt(l, d) /\ l.rest # <<>>
    BY ZenonT(40), <2>1 DEF RolesOf, LockedAt
  <2>3. /\ i \in Inums /\ d \in Inums /\ i \in 0 .. NINODES /\ d \in 0 .. NINODES /\ 0 \in 0 .. NINODES
        /\ <<i>> \in Seq(Inums) /\ Len(<<i>>) <= 2 /\ <<i>> # <<>>
        /\ <<d>> \in Seq(Inums) /\ Len(<<d>>) <= 2 /\ <<d>> # <<>>
    <3>1. i \in Inums /\ d \in Inums /\ i \in 0 .. NINODES /\ d \in 0 .. NINODES /\ 0 \in 0 .. NINODES
      BY ZenonT(40), <2>2, Holding
    <3>. QED BY <3>1, PutsIs
  <2>4. Still
    BY ZenonT(40), <2>1 DEF UnlinkEntry, Still, Stays
  <2>5. \/ itable' = iunlock(t, i) /\ loc' = [loc EXCEPT ![p] = m] /\ disk' = disk
        \/ /\ disk' = [e EXCEPT !.ents[d][Head(l.rest)] = 0]
           /\ itable' = iunlock(InMemory(t, d, n), d) /\ loc' = [loc EXCEPT ![p] = k]
    BY ZenonT(40) DEF UnlinkEntry, Goes
  <2>6. /\ itable[i].lock = {} /\ disk.inode[i].type # "none"
        /\ itable[d].mem = disk.inode[d] /\ disk.inode[d].type # "none" /\ p \in itable[d].lock
    BY SMTT(30), <2>1, <2>2, <2>3, Reads, ReadsLocked
  <2>7. i # d
    BY ZenonT(40), <2>6
  <2>8. disk \in AnyImage /\ OwnedIn(disk)
    BY ZenonT(40) DEF IInv, Shape, Owned
  <2>9. CASE itable' = iunlock(t, i) /\ loc' = [loc EXCEPT ![p] = m] /\ disk' = disk
    <3>1. HasLocked(t, i, p)
      BY ZenonT(40), <2>1, <2>3, <2>9, <1>LockedIs
    <3>. HIDE DEF t
    <3>2. Wrote(i)
      BY ZenonT(40), <2>6, <2>8, <2>9 DEF Wrote
    <3>3. Acts(p, 0, 0, 0) /\ OwnedIn(disk')
      BY ZenonT(40), <2>1, <2>3, <2>8, <2>9, <3>1, <3>2, <1>ActsLocked
    <3>4. "bad" \in Places
      BY ZenonT(40) DEF Places
    <3>5. Is(m, l, "bad", 0, d, l.old, l.rest, <<i>>)
      BY ZenonT(40), <2>1, <2>3, <3>4 DEF Is, Locs
    <3>l. loc' = [loc EXCEPT ![p] = m]
      BY ZenonT(40), <2>9
    <3>. HIDE DEF m
    <3>6. RolesOf(m)
      BY ZenonT(40), <2>1, <2>2, <2>3, <3>5 DEF RolesOf, Is, ForParent
    <3>7. \A j \in Inums : Atop("bad", 0, d, j) <=> j = 0 \/ (Atop(l.pc, i, d, j) /\ j # 0)
      BY ZenonT(40), <2>1, Holding DEF Atop
    <3>8. \A j \in Inums : Count("bad", cwd[p], 0, d, l.old, <<i>>, j)
                           = Count(l.pc, cwd[p], i, d, l.old, <<>>, j) + One(j = 0)
      BY SMTT(30), <2>1, <2>2, <2>3, PutsIs DEF Count, One, Inums
    <3>9. Advances(p, m, "bad", 0, d, l.old, l.rest, <<i>>, 0, 0, 0)
      BY ZenonT(40), <2>1, <2>3, <3>l, <3>5, <3>6, <3>7, <3>8 DEF Advances
    <3>. QED BY ZenonT(40), <2>4, <3>3, <3>9, <1>StepIs
  <2>10. CASE /\ disk' = [e EXCEPT !.ents[d][Head(l.rest)] = 0]
              /\ itable' = iunlock(InMemory(t, d, n), d) /\ loc' = [loc EXCEPT ![p] = k]
    <3>1. l.rest \in Seq(Entries) /\ "unlinked" \in Places
      BY ZenonT(40), <2>1 DEF Locs, Places
    <3>2. Head(l.rest) \in Entries
      BY ZenonT(40), <2>2, <3>1, <1>HeadTail
    <3>3. t[d].mem = disk.inode[d]
      <4>1. itable \in Tables
        BY ZenonT(40) DEF IInv, Shape
      <4>2. t[d].mem = IF d = i /\ ~itable[d].valid THEN disk.inode[d] ELSE itable[d].mem
        BY SMTT(30), <2>3, <2>8, <4>1, <1>IlockIs
      <4>. HIDE DEF t
      <4>. QED BY ZenonT(40), <2>6, <2>7, <4>2
    <3>4. disk.inode[d] \in AnyInode
      BY ZenonT(40), <2>3, InodeIs
    <3>5. n \in AnyInode /\ n.type = disk.inode[d].type /\ n.size = disk.inode[d].size
          /\ n.addrs = disk.inode[d].addrs
      <4>. DEFINE y == t[i].mem.type
      <4>1. n = Unlinked(disk.inode[d], y)
        BY ZenonT(40), <3>3
      <4>. HIDE DEF n, y
      <4>. QED BY ZenonT(40), <3>4, <4>1, <1>UnlinkedIs
    <3>. HIDE DEF n
    <3>6. e \in AnyImage
      BY ZenonT(40), <2>3, <2>8, <3>5, IupdateIs
    <3>7. SameInodes(disk', e)
      <4>. HIDE DEF e
      <4>. QED BY ZenonT(40), <2>3, <2>10, <3>2, <3>6, EntsIs
    <3>8. Wrote(d) /\ disk'.inode[d] = n /\ OwnedIn(disk')
      BY ZenonT(40), <2>3, <2>6, <3>5, <3>7, <1>WroteEnts
    <3>9. disk'.inode[i] = disk.inode[i] /\ WroteBoth(i, d)
      BY SMTT(30), <2>3, <2>6, <2>7, <3>8 DEF Wrote, WroteBoth
    <3>10. HasLocked(t, i, p)
      BY ZenonT(40), <2>1, <2>3, <3>9, <1>LockedIs
    <3>. HIDE DEF t
    <3>11. Acts(p, 0, i, d)
      BY ZenonT(40), <2>1, <2>2, <2>3, <2>7, <2>10, <3>8, <3>9, <3>10, <1>ActsBoth
    <3>12. Is(k, l, "unlinked", i, 0, l.old, l.rest, <<d>>)
      BY ZenonT(40), <2>1, <2>3, <3>1 DEF Is, Locs
    <3>l. loc' = [loc EXCEPT ![p] = k]
      BY ZenonT(40), <2>10
    <3>. HIDE DEF k
    <3>13. RolesOf(k)
      BY ZenonT(40), <2>1, <2>2, <2>3, <3>12 DEF RolesOf, Is, ForParent
    <3>14. \A j \in Inums : Atop("unlinked", i, 0, j) <=> j = i \/ (Atop(l.pc, i, d, j) /\ j # d)
      BY ZenonT(40), <2>1, Holding DEF Atop
    <3>15. \A j \in Inums : Count("unlinked", cwd[p], i, 0, l.old, <<d>>, j)
                            = Count(l.pc, cwd[p], i, d, l.old, <<>>, j) + One(j = 0)
      BY SMTT(30), <2>1, <2>2, <2>3, PutsIs DEF Count, One, Inums
    <3>16. Advances(p, k, "unlinked", i, 0, l.old, l.rest, <<d>>, 0, i, d)
      BY ZenonT(40), <2>1, <2>3, <3>l, <3>12, <3>13, <3>14, <3>15 DEF Advances
    <3>. QED BY ZenonT(40), <2>4, <3>8, <3>11, <3>16, <1>StepIs
  <2>. QED BY ZenonT(40), <2>5, <2>9, <2>10
\* create() locks the parent and looks up the name (sysfile.c:246).
<1>CreateParentKept. ASSUME WellOrdered, IInv, NEW p \in Procs, CreateParent(p), prog' = prog
                     PROVE  Stepped(p)
  <2>. USE <1>CreateParentKept
  <2>. DEFINE l == loc[p]
              d == l.ip
              o == disk.ents[d][Head(l.rest)]
              i == Min(FreeInums)
              n == [NoInode EXCEPT !.type = TypeFor(l.call.op)]
              m == [l EXCEPT !.pc = "exists", !.ip = o, !.rest = <<>>, !.puts = <<d>>]
              k == [l EXCEPT !.pc = "iget", !.dp = d, !.ip = i]
  <2>1. Found(p, Creating)
    BY ZenonT(40) DEF CreateParent
  <2>2. /\ l \in Locs /\ RolesOf(l) /\ l.pc = "found" /\ l.puts = <<>> /\ l.stage = "drop"
        /\ booted /\ cwd[p] \in Inums /\ l.call.op \in Creating /\ l.dp = 0 /\ d \in Inums
        /\ CanLock(d) /\ <<d>> \in Seq(Inums) /\ Len(<<d>>) = 1 /\ <<d>> # <<>>
    BY ZenonT(40), <2>1, AtFound
  <2>3. l.old = 0 /\ l.rest # <<>>
    BY ZenonT(40), <2>2 DEF RolesOf, ForParent, Creating
  <2>4. Still
    BY ZenonT(40), <2>2 DEF CreateParent, Still, Stays
  <2>5. \/ /\ o # 0 /\ itable' = iget(Loaded(itable, d), o) /\ loc' = [loc EXCEPT ![p] = m]
           /\ disk' = disk
        \/ Ends(p, <<d>>) /\ itable' = Loaded(itable, d) /\ disk' = disk
        \/ /\ FreeInums # {} /\ disk' = iupdate(disk, i, n) /\ itable' = ilock(itable, d, p)
           /\ loc' = [loc EXCEPT ![p] = k]
    BY ZenonT(40) DEF CreateParent, Goes
  <2>6. d # 0 /\ d \in 0 .. NINODES /\ 0 \in 0 .. NINODES /\ cwd[p] # 0
    BY ZenonT(40), <2>2, Holding
  <2>7. CASE Ends(p, <<d>>) /\ itable' = Loaded(itable, d) /\ disk' = disk
    <3>1. PICK x : Advances(p, x, "end", 0, 0, 0, <<>>, <<d>>, 0, 0, 0)
      BY ZenonT(40), <2>1, <2>3, <2>7, <1>GivesUp
    <3>2. Acts(p, 0, 0, 0) /\ OwnedIn(disk')
      BY ZenonT(40), <2>2, <2>7, <1>ActsLoad DEF SameDisk, IInv, Owned
    <3>. QED BY ZenonT(40), <2>4, <3>1, <3>2, <1>StepIs
  <2>8. CASE /\ o # 0 /\ itable' = iget(Loaded(itable, d), o) /\ loc' = [loc EXCEPT ![p] = m]
             /\ disk' = disk
    <3>1. l.rest \in Seq(Entries) /\ "exists" \in Places /\ <<>> \in Seq(Entries)
      BY <2>2 DEF Locs, Places
    <3>2. Head(l.rest) \in Entries
      BY ZenonT(40), <2>3, <3>1, <1>HeadTail
    <3>3. o \in Inums /\ o \in 0 .. NINODES /\ o # 0
      BY ZenonT(40), <2>2, <2>8, <3>2, <1>EntryIs
    <3>. HIDE DEF o
    <3>4. Is(m, l, "exists", o, l.dp, l.old, <<>>, <<d>>)
      BY ZenonT(40), <2>2, <3>1, <3>3 DEF Is, Locs
    <3>l. loc' = [loc EXCEPT ![p] = m]
      BY ZenonT(40), <2>8
    <3>. HIDE DEF m
    <3>5. RolesOf(m)
      BY SMTT(30), <2>2, <2>3, <3>3, <3>4 DEF RolesOf, Is, ForParent
    <3>6. \A j \in Inums : Atop("exists", o, l.dp, j) <=> j = 0 \/ (Atop(l.pc, l.ip, l.dp, j) /\ j # 0)
      BY ZenonT(40), <2>2, Holding DEF Atop
    <3>7. \A j \in Inums : Count("exists", cwd[p], o, l.dp, l.old, <<d>>, j)
                           = Count(l.pc, cwd[p], l.ip, l.dp, l.old, <<>>, j) + One(j = o)
      BY SMTT(30), <2>2, <2>3, <3>3, PutsIs DEF Count, One, Inums
    <3>8. Advances(p, m, "exists", o, l.dp, l.old, <<>>, <<d>>, o, 0, 0)
      BY ZenonT(40), <2>2, <2>6, <3>3, <3>l, <3>4, <3>5, <3>6, <3>7 DEF Advances
    <3>9. Acts(p, o, 0, 0) /\ OwnedIn(disk')
      BY ZenonT(40), <2>2, <2>8, <3>3, <1>ActsLoad DEF SameDisk, IInv, Owned
    <3>. QED BY ZenonT(40), <2>4, <3>8, <3>9, <1>StepIs
  <2>9. CASE /\ FreeInums # {} /\ disk' = iupdate(disk, i, n) /\ itable' = ilock(itable, d, p)
             /\ loc' = [loc EXCEPT ![p] = k]
    <3>1. i \in Inums /\ disk.inode[i].type = "none"
      <4>1. FreeInums \subseteq Nat
        BY DEF FreeInums, Inums
      <4>2. i \in FreeInums
        BY ZenonT(40), <2>9, <4>1 DEF WellOrdered
      <4>. HIDE DEF i
      <4>. QED BY ZenonT(40), <4>2 DEF FreeInums
    <3>. HIDE DEF i
    <3>2. /\ n \in AnyInode /\ n.type # "none" /\ n.size = 0 /\ n.addrs = NoInode.addrs
      <4>1. TypeFor(l.call.op) \in {"dir", "dev", "file"}
        BY ZenonT(40) DEF TypeFor
      <4>. HIDE DEF TypeFor
      <4>. QED BY ZenonT(40), <4>1, NoInodeIs DEF AnyInode
    <3>. HIDE DEF n
    <3>3. disk \in AnyImage /\ OwnedIn(disk) /\ itable \in Tables
      BY ZenonT(40) DEF IInv, Shape, Owned
    <3>4. /\ disk' \in AnyImage /\ disk'.inode = [disk.inode EXCEPT ![i] = n]
          /\ disk'.used = disk.used /\ disk'.ind = disk.ind
      BY ZenonT(40), <2>9, <3>1, <3>2, <3>3, IupdateIs
    <3>5. disk'.inode[i] = n /\ \A j \in Inums : j # i => disk'.inode[j] = disk.inode[j]
      <4>1. disk.inode \in [Inums -> AnyInode]
        BY ZenonT(40), <3>3 DEF AnyImage
      <4>. QED BY ZenonT(40), <3>1, <3>4, <4>1
    <3>6. disk.inode[i].addrs = NoInode.addrs /\ disk.inode[i].size = 0
      BY ZenonT(40), <3>1, <3>3 DEF OwnedIn
    <3>7. OwnedIn(disk')
      <4>1. \A j \in Inums : /\ disk'.inode[j].addrs = disk.inode[j].addrs
                             /\ disk'.inode[j].size = disk.inode[j].size
                             /\ disk'.inode[j].type = "none" => disk.inode[j].type = "none"
        BY ZenonT(40), <3>2, <3>5, <3>6
      <4>. QED BY ZenonT(40), <3>3, <3>4, <4>1, <1>UpdateOwned
    <3>8. disk'.inode[d] = disk.inode[d] /\ disk.inode[d].type # "none" /\ itable[d].lock = {}
      BY ZenonT(40), <2>2, <3>1, <3>5, Reads
    <3>9. HasLocked(itable', d, p)
      BY ZenonT(40), <2>2, <2>9, <3>8, <1>LockedIs
    <3>10. Acts(p, 0, d, 0)
      <4>1. \A j \in Inums : itable[j].ref \in Int /\ j # 0
        BY <3>3 DEF Tables, Inums
      <4>2. /\ itable' \in Tables /\ itable'[d].lock = {p} /\ itable'[d].mem = disk'.inode[d]
            /\ \A j \in Inums : /\ itable'[j].ref = itable[j].ref
                                /\ itable'[j].valid <=> itable[j].valid \/ j = d
                                /\ j # d => itable'[j].lock = itable[j].lock
                                /\ j # d => itable'[j].mem = itable[j].mem
        BY ZenonT(40), <3>9 DEF HasLocked
      <4>. QED BY SMTT(30), <2>2, <3>1, <3>4, <3>5, <3>8, <4>1, <4>2 DEF Acts, Synced, One
    <3>11. "iget" \in Places /\ i # 0 /\ i \in 0 .. NINODES
      BY ZenonT(40), <3>1, Holding DEF Places
    <3>12. Is(k, l, "iget", i, d, l.old, l.rest, <<>>)
      BY ZenonT(40), <2>2, <2>6, <3>11 DEF Is, Locs
    <3>l. loc' = [loc EXCEPT ![p] = k]
      BY ZenonT(40), <2>9
    <3>. HIDE DEF k
    <3>13. RolesOf(k)
      BY ZenonT(40), <2>2, <2>3, <2>6, <3>11, <3>12 DEF RolesOf, Is, ForParent
    <3>14. \A j \in Inums : Atop("iget", i, d, j) <=> j = d \/ (Atop(l.pc, l.ip, l.dp, j) /\ j # 0)
      BY SMTT(30), <2>2, Holding DEF Atop
    <3>15. \A j \in Inums : Count("iget", cwd[p], i, d, l.old, <<>>, j)
                            = Count(l.pc, cwd[p], l.ip, l.dp, l.old, <<>>, j) + One(j = 0)
      BY SMTT(30), <2>2, <2>3, PutsIs DEF Count, One, Inums
    <3>16. Advances(p, k, "iget", i, d, l.old, l.rest, <<>>, 0, d, 0)
      BY ZenonT(40), <2>2, <2>6, <3>11, <3>l, <3>12, <3>13, <3>14, <3>15 DEF Advances
    <3>. QED BY ZenonT(40), <2>4, <3>7, <3>10, <3>16, <1>StepIs
  <2>. QED BY ZenonT(40), <2>5, <2>7, <2>8, <2>9
\* The two entries create() makes.
<1>EnteredIs. ASSUME NEW e \in AnyImage, NEW i \in Inums, NEW d \in Inums, NEW x \in Entries,
                     NEW g \in [Entries -> 0 .. NINODES]
              PROVE  SameInodes([e EXCEPT !.ents[d][x] = i, !.ents[i] = g], e)
  <2>. USE <1>EnteredIs
  <2>. Inums \subseteq 0 .. NINODES
    BY Sizes DEF Inums
  <2>. QED BY ZenonT(40) DEF SameInodes, AnyImage
\* The inode create() has given a link, and a block if it is a directory.
<1>MadeIs. ASSUME WellOrdered, IInv, NEW i \in Inums, disk.inode[i].type # "none", NEW e, NEW m \in AnyInode,
                  m.type = disk.inode[i].type, m.size = disk.inode[i].size, m.addrs = disk.inode[i].addrs,
                  e = writei(disk, i, m, 0, TRUE) \/ e = iupdate(disk, i, m)
           PROVE  /\ e \in AnyImage /\ OwnedIn(e) /\ e.inode[i].type # "none" /\ e.inode[i] \in AnyInode
                  /\ \A j \in Inums : j # i => e.inode[j] = disk.inode[j]
  <2>. USE <1>MadeIs
  <2>1. disk \in AnyImage /\ OwnedIn(disk)
    BY ZenonT(40) DEF IInv, Shape, Owned
  <2>3. CASE e = iupdate(disk, i, m)
    <3>1. SameInodes(e, iupdate(disk, i, m))
      BY ZenonT(40), <2>1, <2>3, IupdateIs DEF SameInodes
    <3>2. Updated(e, disk, i, m)
      BY ZenonT(40), <2>1, <3>1 DEF Updated
    <3>3. UpdatedOne(e, disk, i, m)
      BY ZenonT(40), <3>2, <1>UpdatesTo
    <3>. QED BY ZenonT(40), <3>3 DEF UpdatedOne
  <2>4. CASE e = writei(disk, i, m, 0, TRUE)
    <3>1. 0 \in 0 .. MAXFILE - 1
      BY SMTT(30), Sizes
    <3>2. /\ e \in AnyImage /\ \A j \in Inums : j # i => e.inode[j] = disk.inode[j]
          /\ e.inode[i].type = m.type
      BY ZenonT(40), <2>1, <2>4, <3>1, WriteiKeeps
    <3>3. 0 <= m.size
      BY DEF AnyInode
    <3>4. OwnedIn(e)
      BY ZenonT(40), <2>1, <2>4, <3>1, <3>3, WriteiOwned
    <3>5. e.inode[i] \in AnyInode
      BY ZenonT(40), <3>2 DEF AnyImage
    <3>. QED BY ZenonT(40), <3>2, <3>4, <3>5
  <2>. QED BY ZenonT(40), <2>3, <2>4
\* create() whose dirlink() fails frees the inode again (sysfile.c:246).
<1>CreateFails. ASSUME IInv, NEW p \in Procs, Runs(p, "create"), CanLock(loc[p].ip), Still, NEW e \in AnyImage,
                       OwnedIn(e), e.inode[loc[p].ip].type # "none",
                       \A j \in Inums : j # loc[p].ip => e.inode[j] = disk.inode[j], NEW n,
                       n = [e.inode[loc[p].ip] EXCEPT !.nlink = 0], disk' = iupdate(e, loc[p].ip, n),
                       itable' = iunlock(InMemory(ilock(itable, loc[p].ip, p), loc[p].ip, n), loc[p].ip),
                       Goes(p, [loc[p] EXCEPT !.pc = "bad", !.ip = 0, !.puts = <<loc[p].ip>>])
                PROVE  Stepped(p)
  <2>. USE <1>CreateFails
  <2>. DEFINE l == loc[p]
              i == l.ip
              d == l.dp
              m == [l EXCEPT !.pc = "bad", !.ip = 0, !.puts = <<i>>]
              u == InMemory(ilock(itable, i, p), i, n)
  <2>1. /\ l \in Locs /\ RolesOf(l) /\ l.pc = "create" /\ l.puts = <<>> /\ l.stage = "drop"
        /\ booted /\ cwd[p] # 0
    BY At
  <2>2. d # 0 /\ i # 0 /\ l.old = 0
    BY ZenonT(40), <2>1 DEF RolesOf
  <2>3. /\ i \in Inums /\ 0 \in 0 .. NINODES /\ d \in Inums
        /\ <<i>> \in Seq(Inums) /\ Len(<<i>>) <= 2 /\ <<i>> # <<>>
    <3>1. i \in Inums /\ 0 \in 0 .. NINODES /\ d \in Inums
      BY ZenonT(40), <2>2, Holding
    <3>. QED BY <3>1, PutsIs
  <2>4. e.inode[i] \in AnyInode
    BY ZenonT(40), <2>3 DEF AnyImage
  <2>5. /\ n \in AnyInode /\ n.type = e.inode[i].type /\ n.size = e.inode[i].size
        /\ n.addrs = e.inode[i].addrs
    BY <2>4, <1>NlinkIs
  <2>6. SameInodes(disk', iupdate(e, i, n))
    BY ZenonT(40), <2>3, <2>5, IupdateIs DEF SameInodes
  <2>u. Updated(disk', e, i, n)
    BY ZenonT(40), <2>5, <2>6 DEF Updated
  <2>v. UpdatedOne(disk', e, i, n)
    BY ZenonT(40), <2>3, <2>u, <1>UpdatesTo
  <2>7. /\ disk' \in AnyImage /\ OwnedIn(disk') /\ disk'.inode[i] = n
        /\ \A j \in Inums : j # i => disk'.inode[j] = e.inode[j]
    BY ZenonT(40), <2>v DEF UpdatedOne
  <2>8. Wrote(i)
    BY ZenonT(40), <2>5, <2>7 DEF Wrote
  <2>9. HasLocked(u, i, p)
    BY ZenonT(40), <2>3, <2>5, <2>7, <1>LockedIs
  <2>10. Acts(p, 0, 0, 0)
    <3>. HIDE DEF u
    <3>1. itable' = iunlock(u, i)
      BY ZenonT(40) DEF u
    <3>. QED BY ZenonT(40), <2>3, <2>8, <2>9, <3>1, <1>ActsLocked
  <2>11. "bad" \in Places /\ loc' = [loc EXCEPT ![p] = m]
    BY ZenonT(40) DEF Places, Goes
  <2>12. Is(m, l, "bad", 0, d, l.old, l.rest, <<i>>)
    BY ZenonT(40), <2>1, <2>3, <2>11 DEF Is, Locs
  <2>. HIDE DEF m
  <2>13. RolesOf(m)
    BY ZenonT(40), <2>1, <2>2, <2>3, <2>12 DEF RolesOf, Is, ForParent
  <2>14. \A j \in Inums : Atop("bad", 0, d, j) <=> j = 0 \/ (Atop(l.pc, i, d, j) /\ j # 0)
    BY ZenonT(40), <2>1, Holding DEF Atop
  <2>15. \A j \in Inums : Count("bad", cwd[p], 0, d, l.old, <<i>>, j)
                          = Count(l.pc, cwd[p], i, d, l.old, <<>>, j) + One(j = 0)
    BY SMTT(30), <2>1, <2>2, <2>3, PutsIs DEF Count, One, Inums
  <2>16. Advances(p, m, "bad", 0, d, l.old, l.rest, <<i>>, 0, 0, 0)
    BY ZenonT(40), <2>1, <2>3, <2>11, <2>12, <2>13, <2>14, <2>15 DEF Advances
  <2>. QED BY ZenonT(40), <2>7, <2>10, <2>16, <1>StepIs
\* create() enters the new inode, and "." and ".." in a new directory.
<1>CreateMakes. ASSUME WellOrdered, IInv, NEW p \in Procs, Runs(p, "create"), CanLock(loc[p].ip), Still, NEW e \in AnyImage,
                       OwnedIn(e), e.inode[loc[p].ip].type # "none",
                       \A j \in Inums : j # loc[p].ip => e.inode[j] = disk.inode[j], NEW n \in AnyInode,
                       n.type = disk.inode[loc[p].dp].type, n.size = disk.inode[loc[p].dp].size,
                       n.addrs = disk.inode[loc[p].dp].addrs, SameInodes(disk', iupdate(e, loc[p].dp, n)),
                       itable' = iunlock(InMemory(InMemory(ilock(itable, loc[p].ip, p), loc[p].ip,
                                                           e.inode[loc[p].ip]), loc[p].dp, n), loc[p].dp),
                       Goes(p, [loc[p] EXCEPT !.pc = "created", !.dp = 0, !.rest = <<>>, !.puts = <<loc[p].dp>>])
                PROVE  Stepped(p)
  <2>. USE <1>CreateMakes
  <2>. DEFINE l == loc[p]
              i == l.ip
              d == l.dp
              m == [l EXCEPT !.pc = "created", !.dp = 0, !.rest = <<>>, !.puts = <<d>>]
              u == InMemory(ilock(itable, i, p), i, e.inode[i])
  <2>1. /\ l \in Locs /\ RolesOf(l) /\ l.pc = "create" /\ l.puts = <<>> /\ l.stage = "drop"
        /\ booted /\ cwd[p] # 0
    BY At
  <2>2. d # 0 /\ i # 0 /\ l.old = 0 /\ LockedAt(l, d)
    BY ZenonT(40), <2>1 DEF RolesOf, LockedAt
  <2>3. /\ i \in Inums /\ 0 \in 0 .. NINODES /\ d \in Inums /\ i \in 0 .. NINODES /\ d \in 0 .. NINODES
        /\ <<d>> \in Seq(Inums) /\ Len(<<d>>) <= 2 /\ <<d>> # <<>>
    <3>1. i \in Inums /\ 0 \in 0 .. NINODES /\ d \in Inums /\ i \in 0 .. NINODES /\ d \in 0 .. NINODES
      BY ZenonT(40), <2>2, Holding
    <3>. QED BY <3>1, PutsIs
  <2>4. /\ itable[i].lock = {} /\ disk.inode[d].type # "none" /\ p \in itable[d].lock
    BY SMTT(30), <2>1, <2>2, <2>3, Reads, ReadsLocked
  <2>5. i # d /\ e.inode[d] = disk.inode[d]
    <3>1. i # d
      BY ZenonT(40), <2>4
    <3>. QED BY ZenonT(40), <2>3, <3>1
  <2>6. Updated(disk', e, d, n)
    BY ZenonT(40), <2>5 DEF Updated
  <2>7. UpdatedOne(disk', e, d, n)
    BY ZenonT(40), <2>3, <2>6, <1>UpdatesTo
  <2>8. /\ disk' \in AnyImage /\ OwnedIn(disk') /\ disk'.inode[d] = n
        /\ \A j \in Inums : j # d => disk'.inode[j] = e.inode[j]
    BY ZenonT(40), <2>7 DEF UpdatedOne
  <2>9. disk'.inode[i] = e.inode[i] /\ e.inode[i] \in AnyInode
    BY ZenonT(40), <2>3, <2>5, <2>8 DEF AnyImage
  <2>10. WroteBoth(i, d)
    BY ZenonT(40), <2>3, <2>4, <2>8, <2>9 DEF WroteBoth
  <2>11. HasLocked(u, i, p)
    BY ZenonT(40), <2>3, <2>9, <1>LockedIs
  <2>12. Acts(p, 0, i, d)
    <3>. HIDE DEF u
    <3>1. itable' = iunlock(InMemory(u, d, disk'.inode[d]), d)
      BY ZenonT(40), <2>8 DEF u
    <3>. QED BY ZenonT(40), <2>1, <2>2, <2>3, <2>5, <2>10, <2>11, <3>1, <1>ActsBoth
  <2>13. "created" \in Places /\ <<>> \in Seq(Entries) /\ loc' = [loc EXCEPT ![p] = m]
    BY DEF Places, Goes
  <2>14. Is(m, l, "created", i, 0, l.old, <<>>, <<d>>)
    BY ZenonT(40), <2>1, <2>3, <2>13 DEF Is, Locs
  <2>. HIDE DEF m
  <2>15. RolesOf(m)
    BY ZenonT(40), <2>1, <2>2, <2>3, <2>14 DEF RolesOf, Is, ForParent
  <2>16. \A j \in Inums : Atop("created", i, 0, j) <=> j = i \/ (Atop(l.pc, i, d, j) /\ j # d)
    BY ZenonT(40), <2>1, Holding DEF Atop
  <2>17. \A j \in Inums : Count("created", cwd[p], i, 0, l.old, <<d>>, j)
                          = Count(l.pc, cwd[p], i, d, l.old, <<>>, j) + One(j = 0)
    BY SMTT(30), <2>1, <2>2, <2>3, PutsIs DEF Count, One, Inums
  <2>18. Advances(p, m, "created", i, 0, l.old, <<>>, <<d>>, 0, i, d)
    BY ZenonT(40), <2>1, <2>3, <2>13, <2>14, <2>15, <2>16, <2>17 DEF Advances
  <2>. QED BY ZenonT(40), <2>8, <2>12, <2>18, <1>StepIs
\* create() once it has an inode: it is made, or freed again.
<1>CreateKept. ASSUME WellOrdered, IInv, NEW p \in Procs, create(p), prog' = prog
               PROVE  Stepped(p)
  <2>. USE <1>CreateKept
  <2>. DEFINE l == loc[p]
              i == l.ip
              d == l.dp
              dir == l.call.op = "mkdir"
              t == ilock(itable, i, p)
              m == [t[i].mem EXCEPT !.nlink = 1]
              e == IF dir THEN writei(disk, i, m, 0, TRUE) ELSE iupdate(disk, i, m)
              g == IF dir THEN [NoEnts EXCEPT !["."] = i, ![".."] = d] ELSE NoEnts
              n == [t[d].mem EXCEPT !.nlink = IF dir THEN @ + 1 ELSE @]
              w == {i} \cup (IF dir THEN {d} ELSE {})
              k == [e.inode[i] EXCEPT !.nlink = 0]
              f == [iupdate(e, d, n) EXCEPT !.ents[d][Head(l.rest)] = i, !.ents[i] = g]
  <2>1. Runs(p, "create") /\ CanLock(i)
    BY ZenonT(40) DEF create
  <2>2. /\ l \in Locs /\ RolesOf(l) /\ l.pc = "create" /\ l.stage = "drop" /\ booted
    BY ZenonT(40), <2>1, At
  <2>3. d # 0 /\ i # 0 /\ LockedAt(l, d) /\ l.rest # <<>>
    BY ZenonT(40), <2>2 DEF RolesOf, LockedAt
  <2>4. i \in Inums /\ d \in Inums /\ Inums \subseteq 0 .. NINODES /\ 0 \in 0 .. NINODES
    BY ZenonT(40), <2>3, Holding
  <2>5. Still
    BY ZenonT(40), <2>2 DEF create, Still, Stays
  <2>6. \/ /\ disk' = iupdate(e, i, k) /\ itable' = iunlock(InMemory(t, i, k), i)
           /\ Goes(p, [l EXCEPT !.pc = "bad", !.ip = 0, !.puts = <<i>>])
        \/ /\ disk' = Astray(f, t[d].mem, w)
           /\ itable' = iunlock(InMemory(InMemory(t, i, e.inode[i]), d, n), d)
           /\ Goes(p, [l EXCEPT !.pc = "created", !.dp = 0, !.rest = <<>>, !.puts = <<d>>])
    BY ZenonT(40) DEF create
  <2>7. /\ itable[i].lock = {} /\ disk.inode[i].type # "none" /\ (itable[i].valid => itable[i].mem = disk.inode[i])
        /\ itable[d].mem = disk.inode[d] /\ disk.inode[d].type # "none" /\ p \in itable[d].lock
    <3>1. /\ itable[i].lock = {} /\ disk.inode[i].type # "none"
          /\ (itable[i].valid => itable[i].mem = disk.inode[i])
      BY ZenonT(40), <2>1, <2>4, Reads
    <3>2. itable[d].mem = disk.inode[d] /\ disk.inode[d].type # "none" /\ p \in itable[d].lock
      BY ZenonT(40), <2>2, <2>3, <2>4, ReadsLocked
    <3>. QED BY ZenonT(40), <3>1, <3>2
  <2>8. t[i].mem = disk.inode[i] /\ t[d].mem = disk.inode[d]
    <3>1. itable \in Tables /\ disk \in AnyImage
      BY ZenonT(40) DEF IInv, Shape
    <3>2. \A j \in Inums : t[j].mem = IF j = i /\ ~itable[j].valid THEN disk.inode[j] ELSE itable[j].mem
      BY SMTT(30), <2>4, <3>1, <1>IlockIs
    <3>. HIDE DEF t
    <3>. QED BY ZenonT(40), <2>4, <2>7, <3>2
  <2>9. /\ m \in AnyInode /\ m.type = disk.inode[i].type /\ m.size = disk.inode[i].size
        /\ m.addrs = disk.inode[i].addrs
    <3>1. m = [disk.inode[i] EXCEPT !.nlink = 1]
      BY ZenonT(40), <2>8
    <3>. HIDE DEF m
    <3>2. disk.inode[i] \in AnyInode
      BY ZenonT(40), <2>4, InodeIs
    <3>3. 1 \in Int
      OBVIOUS
    <3>. QED BY ZenonT(40), <3>1, <3>2, <3>3, <1>NlinkIs
  <2>10. /\ n \in AnyInode /\ n.type = disk.inode[d].type /\ n.size = disk.inode[d].size
         /\ n.addrs = disk.inode[d].addrs
    <3>. DEFINE x == IF dir THEN disk.inode[d].nlink + 1 ELSE disk.inode[d].nlink
    <3>1. n = [disk.inode[d] EXCEPT !.nlink = x]
      BY ZenonT(40), <2>8
    <3>2. disk.inode[d] \in AnyInode /\ disk.inode[d].nlink \in Int
      BY ZenonT(40), <2>4, InodeIs
    <3>3. x \in Int
      BY <3>2
    <3>. HIDE DEF n, x
    <3>. QED BY ZenonT(40), <3>1, <3>2, <3>3, <1>NlinkIs
  <2>. HIDE DEF m, n
  <2>11. e = writei(disk, i, m, 0, TRUE) \/ e = iupdate(disk, i, m)
    BY ZenonT(40)
  <2>. HIDE DEF e
  <2>12. /\ e \in AnyImage /\ OwnedIn(e) /\ e.inode[i].type # "none" /\ e.inode[i] \in AnyInode
         /\ \A j \in Inums : j # i => e.inode[j] = disk.inode[j]
    BY ZenonT(40), <2>4, <2>7, <2>9, <2>11, <1>MadeIs
  <2>13. CASE /\ disk' = iupdate(e, i, k) /\ itable' = iunlock(InMemory(t, i, k), i)
              /\ Goes(p, [l EXCEPT !.pc = "bad", !.ip = 0, !.puts = <<i>>])
    BY ZenonT(40), <2>1, <2>5, <2>12, <2>13, <1>CreateFails
  <2>14. CASE /\ disk' = Astray(f, t[d].mem, w)
              /\ itable' = iunlock(InMemory(InMemory(t, i, e.inode[i]), d, n), d)
              /\ Goes(p, [l EXCEPT !.pc = "created", !.dp = 0, !.rest = <<>>, !.puts = <<d>>])
    <3>1. l.rest \in Seq(Entries)
      BY ZenonT(40), <2>2 DEF Locs
    <3>2. Head(l.rest) \in Entries /\ w \subseteq Inums
      BY ZenonT(40), <2>3, <2>4, <3>1, <1>HeadTail
    <3>3. g \in [Entries -> 0 .. NINODES]
      BY ZenonT(40), <2>4 DEF NoEnts, Entries
    <3>. HIDE DEF g, w
    <3>4. iupdate(e, d, n) \in AnyImage
      BY ZenonT(40), <2>4, <2>10, <2>12, IupdateIs
    <3>5. SameInodes(f, iupdate(e, d, n))
      BY ZenonT(40), <2>4, <3>2, <3>3, <3>4, <1>EnteredIs
    <3>6. f \in AnyImage
      BY ZenonT(40), <3>5 DEF SameInodes
    <3>. HIDE DEF f
    <3>7. SameInodes(disk', f)
      BY ZenonT(40), <2>4, <2>14, <3>2, <3>6, EntsIs
    <3>8. SameInodes(disk', iupdate(e, d, n))
      BY ZenonT(40), <3>5, <3>7 DEF SameInodes
    <3>. QED BY ZenonT(40), <2>1, <2>5, <2>10, <2>12, <2>14, <3>8, <1>CreateMakes
  <2>. QED BY ZenonT(40), <2>6, <2>13, <2>14
<1>. SUFFICES ASSUME NEW p \in Procs, WellOrdered, IInv, CallStep(p), prog' = prog
              PROVE  Stepped(p)
  BY Zenon
<1>1. CASE EndOp(p) BY ZenonT(40), <1>1, <1>EndOpKept
<1>2. CASE namex(p) BY ZenonT(40), <1>2, <1>NamexKept
<1>3. CASE \E c \in prog.calls[p] : Begin(p, c) BY ZenonT(40), <1>3, <1>BeginKept
<1>4. CASE LinkInc(p) BY ZenonT(40), <1>4, <1>LinkIncKept
<1>5. CASE LinkEnter(p) BY ZenonT(40), <1>5, <1>LinkEnterKept
<1>6. CASE LinkUndo(p) BY ZenonT(40), <1>6, <1>LinkUndoKept
<1>7. CASE UnlinkParent(p) BY ZenonT(40), <1>7, <1>UnlinkParentKept
<1>8. CASE UnlinkEntry(p) BY ZenonT(40), <1>8, <1>UnlinkEntryKept
<1>9. CASE UnlinkDone(p) BY ZenonT(40), <1>9, <1>UnlinkDoneKept
<1>10. CASE UnlockParent(p) BY ZenonT(40), <1>10, <1>UnlockParentKept
<1>11. CASE CreateParent(p) BY ZenonT(40), <1>11, <1>CreateParentKept
<1>12. CASE ialloc(p) BY ZenonT(40), <1>12, <1>IallocKept
<1>13. CASE create(p) BY ZenonT(40), <1>13, <1>CreateKept
<1>14. CASE CreateExists(p) BY ZenonT(40), <1>14, <1>CreateExistsKept
<1>15. CASE MkdirDone(p) BY ZenonT(40), <1>15, <1>MkdirDoneKept
<1>16. CASE Chdir(p) BY ZenonT(40), <1>16, <1>ChdirKept
<1>. QED BY ZenonT(40), <1>1, <1>2, <1>3, <1>4, <1>5, <1>6, <1>7, <1>8, <1>9, <1>10, <1>11, <1>12, <1>13, <1>14, <1>15, <1>16 DEF CallStep

=============================================================================
