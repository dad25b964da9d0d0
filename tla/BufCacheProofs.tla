--------------------------- MODULE BufCacheProofs ---------------------------
(* Proofs about the buffer cache over the disk driver (BufCache.tla): the    *)
(* inductive invariant, what a step can be, that each part of the invariant  *)
(* is kept, and the implementation of BlockStore.                            *)
EXTENDS BufCache, FiniteSetTheorems, WellFoundedInduction, TLAPS

-----------------------------------------------------------------------------
(* The inductive invariant.                                                *)

Locking == {"read", "reading", "use", "writing"}

\* Who holds a buffer's sleep lock, and what a process knows of its buffer at
\* each place of bread(), bwrite() and brelse().
Holding ==
  /\ \A p \in Procs : cur[p] = None <=> pc[p] = "idle"
  /\ \A p \in Procs : pc[p] \in Locking => locked[cur[p]] = p
  /\ \A p \in Procs, b \in Bufs : locked[b] = p => cur[p] = b /\ pc[p] \in Locking
  /\ \A p \in Procs : pc[p] \in {"use", "writing"} => cur[p] \in valid
  /\ \A p \in Procs : pc[p] \in {"read", "reading"} => cur[p] \notin valid

\* A buffer somebody uses, that was read or that is pinned caches a block.
Assigned ==
  /\ \A p \in Procs : cur[p] # None => blockno[cur[p]] # None
  /\ \A b \in valid : blockno[b] # None
  /\ pinned \subseteq valid /\ dirty \subseteq valid

\* The request of a transfer: a chain of three descriptors.
Second(h) == desc[h].next
Third(h) == desc[Second(h)].next
Request(p) ==
  LET h == head[p]
  IN  /\ desc[h].more /\ desc[Second(h)].more /\ ~desc[Third(h)].more
      /\ h # Second(h) /\ h # Third(h) /\ Second(h) # Third(h)
      /\ info[h].b = cur[p] /\ (info[h].write <=> pc[p] = "writing")
Requests == \A p \in InFlight : Request(p)
Owned ==
  /\ \A p, q \in InFlight : p # q => Chain(head[p]) \cap Chain(head[q]) = {}
  /\ \A d \in Descs : d \in free <=> \A p \in InFlight : d \notin Chain(head[p])

\* A request the device has, or has served, is that of a transfer; a buffer is
\* busy until the interrupt takes its request off the used ring.
Posted == {used[i] : i \in DOMAIN used}
Rings ==
  /\ \A h \in avail \cup Posted : \E p \in InFlight : head[p] = h
  /\ \A h \in avail : h \notin Posted
  /\ \A i, j \in DOMAIN used : i # j => used[i] # used[j]
  /\ \A p \in InFlight : cur[p] \in busy <=> head[p] \in avail \cup Posted

\* Where a sleeper is, and why it sleeps.
Causes ==
  /\ \A p \in Procs : chan[p] # Awake =>
       \/ chan[p] = <<cur[p], "lock">> /\ pc[p] = "lock" /\ locked[cur[p]] # None
       \/ chan[p] = <<cur[p], "disk">> /\ p \in InFlight /\ cur[p] \in busy
       \/ chan[p] = FreeDescs /\ pc[p] \in {"read", "use"} /\ Cardinality(free) < 3
  /\ used # << >> => irq \/ intr

\* What is on disk: a valid buffer differs from its block only if it is pinned
\* or has a change nobody kept; a transfer that was served has moved its block.
Coherent ==
  /\ \A b \in valid : \/ b \in pinned
                      \/ b \in dirty
                      \/ data[b] = platter[blockno[b]]
  /\ \A p \in InFlight : head[p] \notin avail => data[cur[p]] = platter[blockno[cur[p]]]

IInv ==
  /\ TypeOK /\ Holding /\ Assigned /\ RefsCounted /\ OneBufferPerBlock
  /\ Requests /\ Owned /\ Rings /\ Causes /\ Coherent

-----------------------------------------------------------------------------
(* Facts about the descriptors.                                            *)

\* A set of natural numbers has a least element (virtio_disk.c:157).
LEMMA Least ==
  ASSUME NEW T, T \subseteq Nat, T # {}
  PROVE  Lowest(T) \in T
<1>. DEFINE R == {ss \in Nat \X Nat : ss[1] < ss[2]}
<1>1. IsWellFoundedOn(R, Nat)
  BY ZenonT(40), NatLessThanWellFounded DEF OpToRel
<1>2. \A x, y \in Nat : x < y => <<x, y>> \in R
  BY ZenonT(40)
<1>. HIDE DEF R
<1>3. PICK x \in T : \A y \in T : ~ (<<y, x>> \in R)
  BY ZenonT(40), <1>1, WFMin
<1>4. \A y \in T : x <= y
  <2>. TAKE y \in T
  <2>1. ~ (y < x)
    BY ZenonT(40), <1>2, <1>3, Zenon
  <2>. QED BY <2>1
<1>. QED BY ZenonT(40), <1>4 DEF Lowest

\* alloc3_desc() takes three different free descriptors (virtio_disk.c:202).
LEMMA Alloc3 ==
  ASSUME free \subseteq Descs, Cardinality(free) >= 3
  PROVE  \E i, j, k \in free : i # j /\ i # k /\ j # k /\ alloc3_desc = <<i, j, k>>
<1>. DEFINE i == Lowest(free)
            j == Lowest(free \ {i})
            k == Lowest(free \ {i, j})
<1>1. free \subseteq Nat /\ IsFiniteSet(free)
  <2>1. IsFiniteSet(Descs)
    BY DiskAssumption, FS_Interval DEF Descs
  <2>2. IsFiniteSet(free)
    BY ZenonT(40), <2>1, FS_Subset
  <2>. QED BY <2>2, DiskAssumption DEF Descs
<1>2. i \in free
  <2>1. free # {}
    BY FS_EmptySet
  <2>. QED BY ZenonT(40), <1>1, <2>1, Least
<1>3. /\ free \ {i} # {} /\ IsFiniteSet(free \ {i}) /\ Cardinality(free \ {i}) >= 2
  <2>1. IsFiniteSet(free \ {i}) /\ Cardinality(free \ {i}) = Cardinality(free) - 1
    BY ZenonT(40), <1>1, <1>2, FS_RemoveElement
  <2>2. Cardinality(free) \in Nat
    BY ZenonT(40), <1>1, FS_CardinalityType
  <2>. QED BY <2>1, <2>2, FS_EmptySet
<1>4. j \in free \ {i}
  <2>. HIDE DEF i
  <2>. QED BY ZenonT(40), <1>1, <1>3, Least
<1>5. free \ {i, j} # {}
  <2>. HIDE DEF i, j
  <2>1. Cardinality((free \ {i}) \ {j}) = Cardinality(free \ {i}) - 1
    BY ZenonT(40), <1>3, <1>4, FS_RemoveElement
  <2>2. Cardinality(free \ {i}) \in Nat
    BY ZenonT(40), <1>3, FS_CardinalityType
  <2>3. (free \ {i}) \ {j} # {}
    BY <1>3, <2>1, <2>2, FS_EmptySet
  <2>. QED BY ZenonT(40), <2>3
<1>6. k \in free \ {i, j}
  <2>. HIDE DEF i, j
  <2>. QED BY ZenonT(40), <1>1, <1>5, Least
<1>7. alloc3_desc = <<i, j, k>>
  BY ZenonT(40) DEF alloc3_desc
<1>. HIDE DEF i, j, k
<1>. QED BY ZenonT(40), <1>2, <1>4, <1>6, <1>7

\* Along the next fields of a request lie its three descriptors.
LEMMA ChainOf ==
  ASSUME NEW p, Request(p)
  PROVE  Chain(head[p]) = {head[p], Second(head[p]), Third(head[p])}
  BY ZenonT(40) DEF Request, Chain, Second, Third

-----------------------------------------------------------------------------
(* virtio_disk_rw() gets three descriptors and starts a transfer, or sleeps  *)
(* until some are freed.                                                   *)

Starts(p, w, i, j, k) ==
  /\ pc[p] = (IF w THEN "use" ELSE "read") /\ chan[p] = Awake /\ ~intr
  /\ pc' = [pc EXCEPT ![p] = IF w THEN "writing" ELSE "reading"]
  /\ {i, j, k} \subseteq free /\ i # j /\ i # k /\ j # k /\ Cardinality(free) >= 3
  /\ Submit(cur[p], w, <<i, j, k>>)
  /\ head' = [head EXCEPT ![p] = i]
  /\ chan' = [chan EXCEPT ![p] = <<cur[p], "disk">>]
  /\ UNCHANGED <<blockno, data, cacheVars, locked, cur, dirty, panicked>>

NoDescs(p) ==
  /\ pc[p] \in {"read", "use"} /\ chan[p] = Awake
  /\ Cardinality(free) < 3
  /\ chan' = [q \in Procs |-> IF q = p THEN FreeDescs
                              ELSE IF chan[q] = FreeDescs /\ free # {} THEN Awake ELSE chan[q]]
  /\ UNCHANGED <<diskVars, blockno, data, cacheVars, locked, pc, cur, head, dirty, panicked>>

\* virtio_disk_rw() waits for descriptors, or posts its request in three of them.
LEMMA RwCases ==
  ASSUME TypeOK, NEW p \in Procs, NEW w \in BOOLEAN,
         StartRw(p, IF w THEN "use" ELSE "read", w, IF w THEN "writing" ELSE "reading")
  PROVE  NoDescs(p) \/ \E i, j, k \in Descs : Starts(p, w, i, j, k)
<1>1. free \subseteq Descs /\ Cardinality(free) \in Nat
  <2>1. IsFiniteSet(Descs)
    BY DiskAssumption, FS_Interval DEF Descs
  <2>2. free \subseteq Descs
    BY ZenonT(40) DEF TypeOK, DiskTypeOK
  <2>3. IsFiniteSet(free)
    BY ZenonT(40), <2>1, <2>2, FS_Subset
  <2>. QED BY ZenonT(40), <2>2, <2>3, FS_CardinalityType
<1>2. CASE Cardinality(free) >= 3
  <2>1. PICK i, j, k \in free : i # j /\ i # k /\ j # k /\ alloc3_desc = <<i, j, k>>
    BY ZenonT(40), <1>1, <1>2, Alloc3
  <2>2. /\ Submit(cur[p], w, <<i, j, k>>) /\ head' = [head EXCEPT ![p] = i]
        /\ chan' = [chan EXCEPT ![p] = <<cur[p], "disk">>]
        /\ pc' = [pc EXCEPT ![p] = IF w THEN "writing" ELSE "reading"]
    BY ZenonT(40), <1>2, <2>1 DEF StartRw, Goto
  <2>3. Starts(p, w, i, j, k)
    BY ZenonT(40), <1>2, <2>1, <2>2 DEF Starts, StartRw, At
  <2>. QED BY ZenonT(40), <1>1, <2>3
<1>3. CASE ~(Cardinality(free) >= 3)
  <2>1. Cardinality(free) < 3
    BY <1>1, <1>3
  <2>. QED BY ZenonT(40), <1>3, <2>1 DEF StartRw, NoDescs, At, Goto
<1>. QED BY ZenonT(40), <1>2, <1>3

\* Between bget() and brelse() a process has a buffer, which caches a block.
LEMMA HasBuffer ==
  ASSUME TypeOK, Holding, Assigned, NEW p \in Procs, pc[p] # "idle"
  PROVE  cur[p] \in Bufs /\ blockno[cur[p]] \in Blocks
  BY CacheAssumption DEF TypeOK, Holding, Assigned

\* The device serves the request of p; the interrupt takes it off the ring.
Serves(p) ==
  /\ p \in InFlight /\ head[p] \in avail
  /\ IF pc[p] = "writing"
       THEN platter' = [platter EXCEPT ![blockno[cur[p]]] = data[cur[p]]] /\ data' = data
       ELSE data' = [data EXCEPT ![cur[p]] = platter[blockno[cur[p]]]] /\ platter' = platter
  /\ avail' = avail \ {head[p]}
  /\ used' = Append(used, head[p])
  /\ irq' = TRUE
  /\ UNCHANGED <<free, desc, info, intr, busy, blockno, cacheVars, locked, pc, cur, head, chan,
                 dirty, panicked>>

Takes(p) ==
  /\ p \in InFlight /\ intr /\ used # << >> /\ head[p] = Head(used)
  /\ busy' = busy \ {cur[p]}
  /\ used' = Tail(used)
  /\ chan' = Woken(<<cur[p], "disk">>)
  /\ UNCHANGED <<free, desc, info, avail, irq, intr, platter, blockno, data, cacheVars, locked,
                 pc, cur, head, dirty, panicked>>

Acks ==
  /\ IntrAck \/ IntrDone
  /\ UNCHANGED <<blockno, data, cacheVars, locked, pc, cur, head, chan, dirty, panicked>>

\* The device serves the request of some transfer.
LEMMA DeviceCases ==
  ASSUME Requests, Rings, Device
  PROVE  \E p \in Procs : Serves(p)
<1>. USE DEF Device, DeviceServes
<1>1. PICK h \in avail :
        /\ IF info[h].write
             THEN /\ platter' = [platter EXCEPT ![blockno[info[h].b]] = data[info[h].b]]
                  /\ data' = data
             ELSE /\ data' = [data EXCEPT ![info[h].b] = platter[blockno[info[h].b]]]
                  /\ platter' = platter
        /\ avail' = avail \ {h} /\ used' = Append(used, h) /\ irq' = TRUE
        /\ UNCHANGED <<free, desc, info, intr, blockno, busy>>
  BY Zenon
<1>2. PICK p \in InFlight : head[p] = h
  BY ZenonT(40), <1>1, Zenon DEF Rings
<1>3. info[h].b = cur[p] /\ (info[h].write <=> pc[p] = "writing")
  BY ZenonT(40), <1>2, Zenon DEF Requests, Request
<1>4. IF pc[p] = "writing"
        THEN platter' = [platter EXCEPT ![blockno[cur[p]]] = data[cur[p]]] /\ data' = data
        ELSE data' = [data EXCEPT ![cur[p]] = platter[blockno[cur[p]]]] /\ platter' = platter
  BY ZenonT(40), <1>1, <1>3, Zenon
<1>5. p \in Procs
  BY ZenonT(40), <1>2 DEF InFlight
<1>6. Serves(p)
  BY ZenonT(40), <1>1, <1>2, <1>4, Zenon DEF Serves
<1>. QED BY ZenonT(40), <1>5, <1>6

\* The interrupt takes the request of some transfer off the used ring.
LEMMA TakeCases ==
  ASSUME TypeOK, Requests, Rings, IntrTake, chan' = Woken(<<info[Head(used)].b, "disk">>),
         UNCHANGED <<blockno, data, cacheVars, locked, pc, cur, head, dirty, panicked>>
  PROVE  \E p \in Procs : Takes(p)
<1>1. Head(used) \in Posted
  BY DEF Posted, IntrTake, TypeOK, DiskTypeOK
<1>2. PICK p \in InFlight : head[p] = Head(used)
  BY ZenonT(40), <1>1, Zenon DEF Rings
<1>3. info[Head(used)].b = cur[p]
  BY ZenonT(40), <1>2, Zenon DEF Requests, Request
<1>4. p \in Procs
  BY ZenonT(40), <1>2 DEF InFlight
<1>5. Takes(p)
  BY ZenonT(40), <1>2, <1>3, Zenon DEF Takes, IntrTake
<1>. QED BY ZenonT(40), <1>4, <1>5

\* A buffer is counted if and only if somebody uses it or it is pinned.
LEMMA Counts ==
  ASSUME TypeOK, RefsCounted, NEW b \in Bufs
  PROVE  refcnt[b] \in Nat /\ (refcnt[b] # 0 <=> b \in pinned \/ \E p \in Procs : cur[p] = b)
<1>. DEFINE U == {p \in Procs : cur[p] = b}
<1>1. IsFiniteSet(U) /\ Cardinality(U) \in Nat
  <2>1. IsFiniteSet(U)
    BY ZenonT(40), CacheAssumption, FS_Subset
  <2>. QED BY ZenonT(40), <2>1, FS_CardinalityType
<1>2. refcnt[b] \in Nat /\ refcnt[b] = Cardinality(U) + (IF b \in pinned THEN 1 ELSE 0)
  BY ZenonT(40) DEF RefsCounted, TypeOK
<1>3. (\E p \in Procs : cur[p] = b) <=> Cardinality(U) # 0
  <2>1. (\E p \in Procs : cur[p] = b) <=> U # {}
    BY ZenonT(40)
  <2>. HIDE DEF U
  <2>. QED BY ZenonT(40), <1>1, <2>1, FS_EmptySet
<1>. HIDE DEF U
<1>. QED BY <1>1, <1>2, <1>3

\* bget() finds the block, recycles a buffer that nobody uses, or panics.
Hits(p, b, k) ==
  /\ At(p, "idle") /\ blockno[b] = k
  /\ refcnt' = [refcnt EXCEPT ![b] = @ + 1]
  /\ cur' = [cur EXCEPT ![p] = b] /\ Goto(p, "lock")
  /\ UNCHANGED <<diskVars, blockno, data, valid, locked, pinned, head, chan, dirty, panicked>>
Recycles(p, b, k) ==
  /\ At(p, "idle") /\ Cached(k) = {}
  /\ b \notin pinned /\ \A q \in Procs : cur[q] # b
  /\ blockno' = [blockno EXCEPT ![b] = k] /\ valid' = valid \ {b}
  /\ refcnt' = [refcnt EXCEPT ![b] = @ + 1] /\ dirty' = dirty \ {b}
  /\ cur' = [cur EXCEPT ![p] = b] /\ Goto(p, "lock")
  /\ UNCHANGED <<diskVars, data, locked, pinned, head, chan, panicked>>
Panics ==
  /\ \A b \in Bufs : b \in pinned \/ \E p \in Procs : cur[p] = b
  /\ panicked' = TRUE
  /\ UNCHANGED <<diskVars, blockno, data, cacheVars, locked, pc, cur, head, chan, dirty>>

\* bget() finds its block cached, recycles an unused buffer, or panics (bio.c:59).
LEMMA BgetCases ==
  ASSUME TypeOK, RefsCounted, NEW p \in Procs, NEW k \in Blocks, bget(p, k)
  PROVE  Panics \/ \E b \in Bufs : Hits(p, b, k) \/ Recycles(p, b, k)
<1>1. CASE /\ Cached(k) \cup {b \in Bufs : refcnt[b] = 0} = {} /\ panicked' = TRUE
           /\ UNCHANGED <<blockno, valid, refcnt, dirty, cur, pc>>
  <2>1. \A b \in Bufs : refcnt[b] # 0
    BY ZenonT(40), <1>1
  <2>2. \A b \in Bufs : b \in pinned \/ \E q \in Procs : cur[q] = b
    BY ZenonT(40), <2>1, Counts
  <2>. QED BY ZenonT(40), <1>1, <2>2 DEF Panics, bget, cacheVars
<1>2. ASSUME NEW b \in IF Cached(k) # {} THEN Cached(k) ELSE {c \in Bufs : refcnt[c] = 0},
             /\ blockno' = [blockno EXCEPT ![b] = k] /\ valid' = StillValid(b, k)
             /\ refcnt' = Referenced(b, k) /\ cur' = [cur EXCEPT ![p] = b]
             /\ dirty' = IF blockno[b] = k THEN dirty ELSE dirty \ {b}
             /\ Goto(p, "lock") /\ UNCHANGED panicked
      PROVE  \E c \in Bufs : Hits(p, c, k) \/ Recycles(p, c, k)
  <2>1. CASE Cached(k) # {}
    <3>1. b \in Bufs /\ blockno[b] = k
      BY ZenonT(40), <2>1 DEF Cached
    <3>2. blockno' = blockno
      BY ZenonT(40), <1>2, <3>1 DEF TypeOK
    <3>. QED BY ZenonT(40), <1>2, <3>1, <3>2 DEF Hits, bget, StillValid, Referenced
  <2>2. CASE Cached(k) = {}
    <3>1. b \in Bufs /\ refcnt[b] = 0 /\ blockno[b] # k
      BY ZenonT(40), <2>2 DEF Cached
    <3>2. b \notin pinned /\ \A q \in Procs : cur[q] # b
      BY ZenonT(40), <3>1, Counts
    <3>. QED BY ZenonT(40), <1>2, <2>2, <3>1, <3>2 DEF Recycles, bget, StillValid, Referenced
  <2>. QED BY ZenonT(40), <2>1, <2>2
<1>. QED BY ZenonT(40), <1>1, <1>2 DEF bget

\* What a step can be.
LEMMA StepCases ==
  ASSUME TypeOK, RefsCounted, Requests, Rings, ~panicked, Next
  PROVE  \/ \E p \in Procs : \/ \E k \in Blocks, b \in Bufs : Hits(p, b, k) \/ Recycles(p, b, k)
                             \/ \E v \in Vals : Modify(p, v)
                             \/ acquiresleep(p) \/ ReadDone(p) \/ WriteDone(p) \/ SleepsAgain(p)
                             \/ kkill(p) \/ bpin(p) \/ bunpin(p) \/ releasesleep(p) \/ brelse(p)
                             \/ NoDescs(p)
                             \/ \E w \in BOOLEAN, i, j, k \in Descs : Starts(p, w, i, j, k)
                             \/ Serves(p) \/ Takes(p)
         \/ Acks \/ Panics
<1>1. ASSUME NEW p \in Procs, ReadBlock(p)
      PROVE  NoDescs(p) \/ \E w \in BOOLEAN, i, j, k \in Descs : Starts(p, w, i, j, k)
  BY ZenonT(40), <1>1, RwCases DEF ReadBlock
<1>2. ASSUME NEW p \in Procs, bwrite(p)
      PROVE  NoDescs(p) \/ \E w \in BOOLEAN, i, j, k \in Descs : Starts(p, w, i, j, k)
  BY ZenonT(40), <1>2, RwCases DEF bwrite
<1>3. ASSUME virtio_disk_intr
      PROVE  Acks \/ \E p \in Procs : Takes(p)
  BY ZenonT(40), <1>3, TakeCases DEF virtio_disk_intr, Acks
<1>4. ASSUME Device PROVE \E p \in Procs : Serves(p)
  BY ZenonT(40), <1>4, DeviceCases
<1>5. ASSUME NEW p \in Procs, NEW k \in Blocks, bget(p, k)
      PROVE  Panics \/ \E b \in Bufs : Hits(p, b, k) \/ Recycles(p, b, k)
  BY ZenonT(40), <1>5, BgetCases
<1>. QED BY ZenonT(40), <1>1, <1>2, <1>3, <1>4, <1>5 DEF Next, Step

-----------------------------------------------------------------------------
(* The invariant is kept.                                                  *)

\* What is written to descriptors and their info has its type.
LEMMA DescTypes ==
  /\ 0 \in Descs /\ NoDesc \in [next : Descs, more : BOOLEAN]
  /\ \A d \in Descs : [next |-> d, more |-> TRUE] \in [next : Descs, more : BOOLEAN]
  /\ NoInfo \in [b : Bufs \cup {None}, write : BOOLEAN]
  /\ \A c \in Bufs, w \in BOOLEAN : [b |-> c, write |-> w] \in [b : Bufs \cup {None}, write : BOOLEAN]
<1>1. 0 \in Descs
  BY DiskAssumption DEF Descs
<1>. QED BY ZenonT(40), <1>1 DEF NoDesc, NoInfo

\* Every step keeps the types.
LEMMA TypeNext == IInv /\ [Next]_vars => TypeOK'
<1>. SUFFICES ASSUME TypeOK, Holding, Assigned, RefsCounted, Requests, Rings,
     [Next]_vars PROVE TypeOK'
  BY ZenonT(40) DEF IInv
<1>a. ASSUME UNCHANGED <<free, desc, info, avail, used, irq, intr, platter, blockno, data,
                         busy, valid, refcnt, locked, pinned, pc, cur, head, chan, dirty,
                         panicked>>
      PROVE  TypeOK'
  BY ZenonT(40), <1>a DEF TypeOK, DiskTypeOK
<1>. SUFFICES ASSUME ~panicked, Next PROVE TypeOK'
  BY ZenonT(40), <1>a DEF Next, vars
<1>. USE CacheAssumption, DiskAssumption DEF TypeOK, DiskTypeOK, Chans, Places, Awake, FreeDescs,
     diskVars, cacheVars, At, Goto
<1>1. ASSUME NEW p \in Procs, NEW k \in Blocks, NEW b \in Bufs, Hits(p, b, k)
      PROVE  TypeOK'
  <2>1. /\ refcnt' \in [Bufs -> Nat] /\ cur' \in [Procs -> Bufs \cup {None}]
        /\ pc' \in [Procs -> Places]
    BY <1>1 DEF Hits
  <2>2. blockno' \in [Bufs -> Blocks \cup {None}] /\ valid' \subseteq Bufs
    BY ZenonT(40), <1>1 DEF Hits
  <2>. QED BY ZenonT(40), <1>1, <2>1, <2>2 DEF Hits
<1>2. ASSUME NEW p \in Procs, NEW k \in Blocks, NEW b \in Bufs, Recycles(p, b, k)
      PROVE  TypeOK'
  <2>1. /\ refcnt' \in [Bufs -> Nat] /\ cur' \in [Procs -> Bufs \cup {None}]
        /\ pc' \in [Procs -> Places]
    BY SMTT(30), <1>2 DEF Recycles
  <2>2. /\ blockno' \in [Bufs -> Blocks \cup {None}] /\ valid' \subseteq Bufs
        /\ dirty' \subseteq Bufs
    BY ZenonT(40), <1>2 DEF Recycles
  <2>. QED BY ZenonT(40), <1>2, <2>1, <2>2 DEF Recycles
<1>3. ASSUME Panics
      PROVE  TypeOK'
  BY ZenonT(40), <1>3 DEF Panics
<1>4. ASSUME NEW p \in Procs, acquiresleep(p)
      PROVE  TypeOK'
  <2>1. cur[p] \in Bufs
    BY ZenonT(40), <1>4, HasBuffer DEF acquiresleep
  <2>2. locked' \in [Bufs -> Procs \cup {None}] /\ chan' \in [Procs -> Chans]
    <3>1. CASE locked[cur[p]] = None
      <4>1. locked' = [locked EXCEPT ![cur[p]] = p] /\ chan' = chan
        BY ZenonT(40), <1>4, <3>1 DEF acquiresleep
      <4>2. locked \in [Bufs -> Procs \cup {None}] /\ chan \in [Procs -> Chans]
        BY ZenonT(40)
      <4>. HIDE DEF TypeOK, DiskTypeOK, Chans
      <4>. QED BY ZenonT(40), <2>1, <4>1, <4>2
    <3>2. CASE locked[cur[p]] # None
      <4>1. chan' = [chan EXCEPT ![p] = <<cur[p], "lock">>] /\ locked' = locked
        BY ZenonT(40), <1>4, <3>2 DEF acquiresleep
      <4>. QED BY ZenonT(40), <2>1, <4>1
    <3>. QED BY ZenonT(40), <3>1, <3>2
  <2>3. pc' \in [Procs -> Places]
    <3>1. pc' = pc \/ pc' = [pc EXCEPT ![p] = "use"] \/ pc' = [pc EXCEPT ![p] = "read"]
      BY ZenonT(40), <1>4 DEF acquiresleep
    <3>2. pc \in [Procs -> Places]
      BY ZenonT(40)
    <3>. HIDE DEF TypeOK, DiskTypeOK
    <3>. QED BY ZenonT(40), <3>1, <3>2
  <2>. QED BY ZenonT(40), <1>4, <2>2, <2>3 DEF acquiresleep
<1>5. ASSUME NEW p \in Procs, NoDescs(p)
      PROVE  TypeOK'
  <2>1. chan' \in [Procs -> Chans]
    BY ZenonT(40), <1>5 DEF NoDescs
  <2>. QED BY ZenonT(40), <1>5, <2>1 DEF NoDescs
<1>6. ASSUME NEW p \in Procs, NEW w \in BOOLEAN,
             NEW i \in Descs, NEW j \in Descs, NEW k \in Descs, Starts(p, w, i, j, k)
      PROVE  TypeOK'
  <2>. DEFINE DT == [next : Descs, more : BOOLEAN]
              IT == [b : Bufs \cup {None}, write : BOOLEAN]
  <2>1. cur[p] \in Bufs
    BY ZenonT(40), <1>6, HasBuffer DEF Starts
  <2>2. /\ [next |-> j, more |-> TRUE] \in DT /\ [next |-> k, more |-> TRUE] \in DT
        /\ NoDesc \in DT /\ [b |-> cur[p], write |-> w] \in IT
    BY ZenonT(40), <2>1, DescTypes
  <2>3. desc \in [Descs -> DT] /\ info \in [Descs -> IT]
    BY ZenonT(40)
  <2>. HIDE DEF DT, IT
  <2>4. desc' \in [Descs -> DT] /\ info' \in [Descs -> IT]
    BY ZenonT(40), <1>6, <2>2, <2>3 DEF Starts, Submit
  <2>5. /\ free' \subseteq Descs /\ avail' \subseteq Descs /\ busy' \subseteq Bufs
        /\ head' \in [Procs -> Descs] /\ chan' \in [Procs -> Chans] /\ pc' \in [Procs -> Places]
    BY ZenonT(40), <1>6, <2>1 DEF Starts, Submit
  <2>. QED BY ZenonT(40), <1>6, <2>4, <2>5 DEF Starts, Submit, DT, IT
<1>7. ASSUME NEW p \in Procs, ReadDone(p) \/ WriteDone(p)
      PROVE  TypeOK'
  <2>. DEFINE DT == [next : Descs, more : BOOLEAN]
              IT == [b : Bufs \cup {None}, write : BOOLEAN]
  <2>1. cur[p] \in Bufs /\ head[p] \in Descs
    BY ZenonT(40), <1>7, HasBuffer DEF ReadDone, WriteDone, EndRw
  <2>2. NoDesc \in DT /\ NoInfo \in IT /\ 0 \in Descs
    BY ZenonT(40), DescTypes
  <2>3. desc \in [Descs -> DT] /\ info \in [Descs -> IT]
    BY ZenonT(40)
  <2>4. Chain(head[p]) \subseteq Descs
    BY <2>1 DEF Chain
  <2>. HIDE DEF DT, IT
  <2>5. PICK place : EndRw(p, place)
    BY ZenonT(40), <1>7 DEF ReadDone, WriteDone
  <2>6. desc' \in [Descs -> DT] /\ info' \in [Descs -> IT]
    BY ZenonT(40), <2>1, <2>2, <2>3, <2>5 DEF EndRw, FreeChain
  <2>7. /\ free' \subseteq Descs /\ head' \in [Procs -> Descs]
        /\ chan' \in [Procs -> Chans] /\ pc' \in [Procs -> Places]
    BY ZenonT(40), <2>1, <2>2, <2>4, <2>5 DEF EndRw, FreeChain, Woken
  <2>8. valid' \subseteq Bufs /\ dirty' \subseteq Bufs
    BY ZenonT(40), <1>7, <2>1 DEF ReadDone, WriteDone
  <2>. QED BY ZenonT(40), <2>5, <2>6, <2>7, <2>8 DEF EndRw, FreeChain, DT, IT
<1>8. ASSUME NEW p \in Procs, SleepsAgain(p)
      PROVE  TypeOK'
  <2>1. cur[p] \in Bufs
    BY ZenonT(40), <1>8, HasBuffer DEF SleepsAgain
  <2>2. chan' \in [Procs -> Chans]
    BY <1>8, <2>1 DEF SleepsAgain
  <2>. QED BY ZenonT(40), <1>8, <2>2 DEF SleepsAgain
<1>9. ASSUME NEW p \in Procs, bpin(p)
      PROVE  TypeOK'
  <2>1. cur[p] \in Bufs
    BY ZenonT(40), <1>9, HasBuffer DEF bpin
  <2>2. refcnt[cur[p]] \in Nat \ {0}
    BY SMTT(30), <2>1, Counts
  <2>3. pinned' \subseteq Bufs /\ refcnt' \in [Bufs -> Nat] /\ dirty' \subseteq Bufs
    BY <1>9, <2>1, <2>2 DEF bpin
  <2>. QED BY ZenonT(40), <1>9, <2>3 DEF bpin
<1>10. ASSUME NEW p \in Procs, bunpin(p)
      PROVE  TypeOK'
  <2>1. cur[p] \in Bufs
    BY ZenonT(40), <1>10, HasBuffer DEF bunpin
  <2>2. refcnt[cur[p]] \in Nat \ {0}
    BY ZenonT(40), <2>1, Counts
  <2>3. pinned' \subseteq Bufs /\ refcnt' \in [Bufs -> Nat] /\ dirty' \subseteq Bufs
    BY <1>10, <2>1, <2>2 DEF bunpin
  <2>. QED BY ZenonT(40), <1>10, <2>3 DEF bunpin
<1>11. ASSUME NEW p \in Procs, releasesleep(p)
      PROVE  TypeOK'
  <2>1. cur[p] \in Bufs
    BY ZenonT(40), <1>11, HasBuffer DEF releasesleep
  <2>2. /\ locked' \in [Bufs -> Procs \cup {None}] /\ pc' \in [Procs -> Places]
        /\ chan' \in [Procs -> Chans]
    BY ZenonT(40), <1>11, <2>1 DEF releasesleep, Woken
  <2>. QED BY ZenonT(40), <1>11, <2>2 DEF releasesleep
<1>12. ASSUME NEW p \in Procs, brelse(p)
      PROVE  TypeOK'
  <2>1. cur[p] \in Bufs
    BY ZenonT(40), <1>12, HasBuffer DEF brelse
  <2>2. refcnt[cur[p]] \in Nat \ {0}
    BY ZenonT(40), <2>1, Counts
  <2>3. /\ refcnt' \in [Bufs -> Nat] /\ cur' \in [Procs -> Bufs \cup {None}]
        /\ pc' \in [Procs -> Places]
    BY <1>12, <2>1, <2>2 DEF brelse
  <2>. QED BY ZenonT(40), <1>12, <2>3 DEF brelse
<1>13. ASSUME NEW p \in Procs, NEW v \in Vals, Modify(p, v)
      PROVE  TypeOK'
  <2>0. cur[p] \in Bufs
    BY ZenonT(40), <1>13, HasBuffer DEF Modify
  <2>1. data' \in [Bufs -> Vals] /\ dirty' \subseteq Bufs
    BY ZenonT(40), <1>13, <2>0 DEF Modify
  <2>. QED BY ZenonT(40), <1>13, <2>1 DEF Modify
<1>14. ASSUME NEW p \in Procs, Serves(p)
      PROVE  TypeOK'
  <2>1. cur[p] \in Bufs /\ blockno[cur[p]] \in Blocks
    BY ZenonT(40), <1>14, HasBuffer DEF Serves, InFlight
  <2>2. platter' \in [Blocks -> Vals] /\ data' \in [Bufs -> Vals]
    <3>1. \/ platter' = [platter EXCEPT ![blockno[cur[p]]] = data[cur[p]]] /\ data' = data
          \/ data' = [data EXCEPT ![cur[p]] = platter[blockno[cur[p]]]] /\ platter' = platter
      BY ZenonT(40), <1>14 DEF Serves
    <3>2. platter \in [Blocks -> Vals] /\ data \in [Bufs -> Vals]
      OBVIOUS
    <3>. HIDE DEF TypeOK, DiskTypeOK
    <3>. QED BY ZenonT(40), <2>1, <3>1, <3>2
  <2>3. avail' \subseteq Descs /\ used' \in Seq(Descs)
    BY <1>14 DEF Serves
  <2>. QED BY ZenonT(40), <1>14, <2>2, <2>3 DEF Serves
<1>15. ASSUME NEW p \in Procs, Takes(p)
      PROVE  TypeOK'
  <2>1. used' \in Seq(Descs) /\ busy' \subseteq Bufs /\ chan' \in [Procs -> Chans]
    BY <1>15 DEF Takes, Woken
  <2>. QED BY ZenonT(40), <1>15, <2>1 DEF Takes
<1>17. ASSUME NEW p \in Procs, kkill(p)
      PROVE  TypeOK'
  <2>1. chan' \in [Procs -> Chans]
    BY <1>17 DEF kkill
  <2>. QED BY ZenonT(40), <1>17, <2>1 DEF kkill
<1>16. ASSUME Acks
      PROVE  TypeOK'
  BY ZenonT(40), <1>16 DEF Acks, IntrAck, IntrDone
<1>. HIDE DEF TypeOK, DiskTypeOK, Chans, Places, Awake, FreeDescs, diskVars, cacheVars, At, Goto
<1>. QED BY ZenonT(40), <1>a, <1>1, <1>2, <1>3, <1>4, <1>5, <1>6, <1>7, <1>8, <1>9, <1>10, <1>11, <1>12,
     <1>13, <1>14, <1>15, <1>16, <1>17, StepCases

\* ... and who holds what.
LEMMA HoldingNext == IInv /\ [Next]_vars => Holding'
<1>. SUFFICES ASSUME TypeOK, Holding, Assigned, RefsCounted, Requests, Rings,
     [Next]_vars PROVE Holding'
  BY ZenonT(40) DEF IInv
<1>a. ASSUME UNCHANGED <<cur, pc, locked, valid>> PROVE Holding'
  BY ZenonT(40), <1>a DEF Holding
<1>. SUFFICES ASSUME ~panicked, Next PROVE Holding'
  BY ZenonT(40), <1>a DEF Next, vars
<1>0. /\ cur \in [Procs -> Bufs \cup {None}] /\ pc \in [Procs -> Places]
      /\ locked \in [Bufs -> Procs \cup {None}] /\ valid \subseteq Bufs
  BY ZenonT(40) DEF TypeOK, DiskTypeOK
<1>. USE <1>0, CacheAssumption DEF Holding, Locking, diskVars, cacheVars, At, Goto
<1>1. ASSUME NEW p \in Procs, NEW k \in Blocks, NEW b \in Bufs, Hits(p, b, k)
      PROVE  Holding'
  <2>1. /\ pc[p] = "idle" /\ cur' = [cur EXCEPT ![p] = b] /\ pc' = [pc EXCEPT ![p] = "lock"]
        /\ UNCHANGED <<locked, valid>>
    BY ZenonT(40), <1>1 DEF Hits
  <2>. QED BY SMTT(30), <2>1
<1>2. ASSUME NEW p \in Procs, NEW k \in Blocks, NEW b \in Bufs, Recycles(p, b, k)
      PROVE  Holding'
  <2>1. /\ pc[p] = "idle" /\ cur' = [cur EXCEPT ![p] = b] /\ pc' = [pc EXCEPT ![p] = "lock"]
        /\ valid' = valid \ {b} /\ (\A q \in Procs : cur[q] # b) /\ UNCHANGED <<locked>>
    BY ZenonT(40), <1>2 DEF Recycles
  <2>. QED BY SMTT(30), <2>1
<1>3. ASSUME NEW p \in Procs, acquiresleep(p)
      PROVE  Holding'
  BY <1>3 DEF acquiresleep
<1>4. ASSUME NEW p \in Procs, NEW w \in BOOLEAN,
             NEW i \in Descs, NEW j \in Descs, NEW k \in Descs, Starts(p, w, i, j, k)
      PROVE  Holding'
  BY SMTT(30), <1>4 DEF Starts, Submit
<1>5. ASSUME NEW p \in Procs, ReadDone(p) \/ WriteDone(p)
      PROVE  Holding'
  BY <1>5 DEF ReadDone, WriteDone, EndRw, FreeChain, Woken
<1>7. ASSUME NEW p \in Procs, releasesleep(p)
      PROVE  Holding'
  BY SMTT(30), <1>7 DEF releasesleep, Woken
<1>8. ASSUME NEW p \in Procs, brelse(p)
      PROVE  Holding'
  BY SMTT(30), <1>8 DEF brelse
<1>10. ASSUME \/ Panics
              \/ \E p \in Procs : \/ NoDescs(p) \/ SleepsAgain(p) \/ kkill(p) \/ bunpin(p)
                                  \/ bpin(p) \/ \E v \in Vals : Modify(p, v)
      PROVE  UNCHANGED <<cur, pc, locked, valid>>
  BY ZenonT(40), <1>10 DEF Panics, NoDescs, SleepsAgain, kkill, bunpin, bpin, Modify
<1>11. ASSUME \/ Acks
              \/ \E p \in Procs : Serves(p) \/ Takes(p)
      PROVE  UNCHANGED <<cur, pc, locked, valid>>
  BY ZenonT(40), <1>11 DEF Serves, Takes, Acks, IntrAck, IntrDone
<1>. HIDE DEF Holding, Locking, diskVars, cacheVars, At, Goto
<1>. QED BY SMTT(30), <1>a, <1>1, <1>2, <1>3, <1>4, <1>5, <1>7, <1>8, <1>10, <1>11, StepCases

\* Buffers in use keep their block.
LEMMA AssignedNext == IInv /\ [Next]_vars => Assigned'
<1>. SUFFICES ASSUME TypeOK, Holding, Assigned, RefsCounted, Requests, Rings,
     [Next]_vars PROVE Assigned'
  BY ZenonT(40) DEF IInv
<1>a. ASSUME UNCHANGED <<cur, blockno, valid, pinned, dirty>> PROVE Assigned'
  BY ZenonT(40), <1>a DEF Assigned
<1>. SUFFICES ASSUME ~panicked, Next PROVE Assigned'
  BY ZenonT(40), <1>a DEF Next, vars
<1>0. /\ cur \in [Procs -> Bufs \cup {None}] /\ valid \subseteq Bufs /\ pinned \subseteq Bufs /\ dirty \subseteq Bufs
      /\ blockno \in [Bufs -> Blocks \cup {None}]
  BY ZenonT(40) DEF TypeOK, DiskTypeOK
<1>. USE <1>0, CacheAssumption DEF Assigned, Holding, diskVars, cacheVars, At, Goto
<1>1. ASSUME NEW p \in Procs, NEW k \in Blocks, NEW b \in Bufs, Hits(p, b, k)
      PROVE  Assigned'
  BY SMTT(30), <1>1 DEF Hits
<1>2. ASSUME NEW p \in Procs, NEW k \in Blocks, NEW b \in Bufs, Recycles(p, b, k)
      PROVE  Assigned'
  BY SMTT(30), <1>2 DEF Recycles, Cached
<1>3. ASSUME NEW p \in Procs, ReadDone(p) \/ WriteDone(p)
      PROVE  Assigned'
  BY ZenonT(40), <1>3 DEF ReadDone, WriteDone, EndRw, FreeChain, Woken
<1>4. ASSUME NEW p \in Procs, bpin(p)
      PROVE  Assigned'
  <2>1. /\ pinned' = pinned \cup {cur[p]} /\ cur[p] \in valid /\ dirty' = dirty \ {cur[p]}
        /\ UNCHANGED <<cur, blockno, valid>>
    BY ZenonT(40), <1>4 DEF bpin, cacheVars
  <2>. QED BY <2>1
<1>5. ASSUME NEW p \in Procs, bunpin(p)
      PROVE  Assigned'
  BY ZenonT(40), <1>5 DEF bunpin
<1>6. ASSUME NEW p \in Procs, brelse(p)
      PROVE  Assigned'
  BY <1>6 DEF brelse
<1>7. ASSUME NEW p \in Procs, NEW w \in BOOLEAN,
             NEW i \in Descs, NEW j \in Descs, NEW k \in Descs, Starts(p, w, i, j, k)
      PROVE  UNCHANGED <<cur, blockno, valid, pinned, dirty>>
  BY ZenonT(40), <1>7 DEF Starts, Submit
<1>8. ASSUME \/ Panics
             \/ \E p \in Procs : acquiresleep(p) \/ NoDescs(p) \/ SleepsAgain(p) \/ kkill(p)
      PROVE  UNCHANGED <<cur, blockno, valid, pinned, dirty>>
  BY ZenonT(40), <1>8 DEF Panics, acquiresleep, NoDescs, SleepsAgain, kkill
<1>9. ASSUME \E p \in Procs : releasesleep(p) \/ Serves(p) \/ Takes(p)
      PROVE  UNCHANGED <<cur, blockno, valid, pinned, dirty>>
  BY ZenonT(40), <1>9 DEF releasesleep, Serves, Takes
<1>11. ASSUME NEW p \in Procs, NEW v \in Vals, Modify(p, v)
      PROVE  Assigned'
  <2>1. cur[p] \in valid /\ dirty' = dirty \cup {cur[p]} /\ UNCHANGED <<cur, blockno, valid, pinned>>
    BY ZenonT(40), <1>11 DEF Modify
  <2>. QED BY ZenonT(40), <2>1
<1>10. ASSUME Acks
      PROVE  UNCHANGED <<cur, blockno, valid, pinned, dirty>>
  BY ZenonT(40), <1>10 DEF Acks, IntrAck, IntrDone
<1>. HIDE DEF Assigned, Holding, diskVars, cacheVars, At, Goto
<1>. QED BY ZenonT(40), <1>a, <1>1, <1>2, <1>3, <1>4, <1>5, <1>6, <1>7, <1>8, <1>9, <1>10, <1>11, StepCases

\* bget() recycles a buffer only when no buffer has the block.
LEMMA OneBufferPerBlockNext == IInv /\ [Next]_vars => OneBufferPerBlock'
<1>. SUFFICES ASSUME TypeOK, OneBufferPerBlock, RefsCounted, Requests, Rings,
     [Next]_vars PROVE OneBufferPerBlock'
  BY ZenonT(40) DEF IInv
<1>a. ASSUME UNCHANGED <<blockno>> PROVE OneBufferPerBlock'
  BY ZenonT(40), <1>a DEF OneBufferPerBlock
<1>. SUFFICES ASSUME ~panicked, Next PROVE OneBufferPerBlock'
  BY ZenonT(40), <1>a DEF Next, vars
<1>0. blockno \in [Bufs -> Blocks \cup {None}]
  BY ZenonT(40) DEF TypeOK, DiskTypeOK
<1>. USE <1>0, CacheAssumption DEF OneBufferPerBlock, diskVars, cacheVars, At, Goto
<1>1. ASSUME NEW p \in Procs, NEW k \in Blocks, NEW b \in Bufs, Recycles(p, b, k)
      PROVE  OneBufferPerBlock'
  BY ZenonT(40), <1>1 DEF Recycles, Cached
<1>2. ASSUME NEW p \in Procs, NEW w \in BOOLEAN,
             NEW i \in Descs, NEW j \in Descs, NEW k \in Descs, Starts(p, w, i, j, k)
      PROVE  UNCHANGED <<blockno>>
  BY ZenonT(40), <1>2 DEF Starts, Submit
<1>3. ASSUME \/ Panics
             \/ \E p \in Procs : \/ acquiresleep(p) \/ NoDescs(p)
                                 \/ \E k \in Blocks, b \in Bufs : Hits(p, b, k)
      PROVE  UNCHANGED <<blockno>>
  BY ZenonT(40), <1>3 DEF Hits, Panics, acquiresleep, NoDescs
<1>4. ASSUME \E p \in Procs : ReadDone(p) \/ WriteDone(p) \/ SleepsAgain(p) \/ kkill(p) \/ bpin(p) \/ bunpin(p)
      PROVE  UNCHANGED <<blockno>>
  BY ZenonT(40), <1>4 DEF ReadDone, WriteDone, EndRw, FreeChain, SleepsAgain, kkill, bpin, bunpin
<1>5. ASSUME \E p \in Procs : \/ releasesleep(p) \/ brelse(p) \/ Serves(p)
                              \/ \E v \in Vals : Modify(p, v)
      PROVE  UNCHANGED <<blockno>>
  BY ZenonT(40), <1>5 DEF releasesleep, brelse, Modify, Serves
<1>6. ASSUME \/ Acks
             \/ \E p \in Procs : Takes(p)
      PROVE  UNCHANGED <<blockno>>
  BY ZenonT(40), <1>6 DEF Takes, Acks, IntrAck, IntrDone
<1>. HIDE DEF OneBufferPerBlock, diskVars, cacheVars, At, Goto
<1>. QED BY ZenonT(40), <1>a, <1>1, <1>2, <1>3, <1>4, <1>5, <1>6, StepCases

\* How many processes have each buffer.
Users == [c \in Bufs |-> Cardinality({q \in Procs : cur[q] = c})]
Counted ==
  /\ \A b \in Bufs : refcnt[b] = Users[b] + (IF b \in pinned THEN 1 ELSE 0)
  /\ panicked => \A b \in Bufs : b \in pinned \/ \E p \in Procs : cur[p] = b

\* The users of a buffer are finitely many.
LEMMA UserCount == Users \in [Bufs -> Nat]
<1>1. ASSUME NEW c \in Bufs PROVE Cardinality({q \in Procs : cur[q] = c}) \in Nat
  <2>1. IsFiniteSet({q \in Procs : cur[q] = c})
    BY ZenonT(40), CacheAssumption, FS_Subset
  <2>. QED BY ZenonT(40), <2>1, FS_CardinalityType
<1>. QED BY ZenonT(40), <1>1 DEF Users

\* One process more, or less, has buffer b.
LEMMA OneMore ==
  ASSUME NEW p \in Procs, NEW b \in Bufs, cur \in [Procs -> Bufs \cup {None}],
         cur[p] = None, cur' = [cur EXCEPT ![p] = b]
  PROVE  Users' = [Users EXCEPT ![b] = @ + 1]
<1>. SUFFICES ASSUME NEW c \in Bufs
              PROVE  Users'[c] = IF c = b THEN Users[c] + 1 ELSE Users[c]
  BY ZenonT(40) DEF Users
<1>. DEFINE F == {q \in Procs : cur[q] = c}
            G == {q \in Procs : cur'[q] = c}
<1>1. IsFiniteSet(F)
  BY ZenonT(40), CacheAssumption, FS_Subset
<1>2. c = b => G = F \cup {p} /\ p \notin F
  BY ZenonT(40), CacheAssumption
<1>3. c # b => G = F
  BY ZenonT(40), CacheAssumption
<1>4. Users[c] = Cardinality(F) /\ Users'[c] = Cardinality(G)
  BY ZenonT(40) DEF Users
<1>. HIDE DEF F, G
<1>5. Cardinality(F) \in Nat
  BY ZenonT(40), <1>1, FS_CardinalityType
<1>6. c = b => Cardinality(G) = Cardinality(F) + 1
  BY ZenonT(40), <1>1, <1>2, FS_AddElement
<1>. QED BY ZenonT(40), <1>3, <1>4, <1>5, <1>6

\* A process that releases its buffer is one user fewer.
LEMMA OneLess ==
  ASSUME NEW p \in Procs, cur \in [Procs -> Bufs \cup {None}],
         cur[p] \in Bufs, cur' = [cur EXCEPT ![p] = None]
  PROVE  Users' = [Users EXCEPT ![cur[p]] = @ - 1]
<1>. SUFFICES ASSUME NEW c \in Bufs
              PROVE  Users'[c] = IF c = cur[p] THEN Users[c] - 1 ELSE Users[c]
  BY ZenonT(40) DEF Users
<1>. DEFINE F == {q \in Procs : cur[q] = c}
            G == {q \in Procs : cur'[q] = c}
<1>1. IsFiniteSet(F)
  BY ZenonT(40), CacheAssumption, FS_Subset
<1>2. c = cur[p] => G = F \ {p} /\ p \in F
  BY ZenonT(40), CacheAssumption
<1>3. c # cur[p] => G = F
  BY ZenonT(40), CacheAssumption
<1>4. Users[c] = Cardinality(F) /\ Users'[c] = Cardinality(G)
  BY ZenonT(40) DEF Users
<1>. HIDE DEF F, G
<1>5. Cardinality(F) \in Nat
  BY ZenonT(40), <1>1, FS_CardinalityType
<1>6. c = cur[p] => Cardinality(G) = Cardinality(F) - 1
  BY ZenonT(40), <1>1, <1>2, FS_RemoveElement
<1>. QED BY ZenonT(40), <1>3, <1>4, <1>5, <1>6

\* Every reference is counted once.
LEMMA RefsCountedNext == IInv /\ [Next]_vars => RefsCounted'
<1>. SUFFICES ASSUME TypeOK, Holding, Assigned, RefsCounted, Requests, Rings,
     [Next]_vars PROVE RefsCounted'
  BY ZenonT(40) DEF IInv
<1>a. ASSUME UNCHANGED <<refcnt, cur, pinned, panicked>> PROVE RefsCounted'
  BY ZenonT(40), <1>a DEF RefsCounted
<1>. SUFFICES ASSUME ~panicked, Next PROVE RefsCounted'
  BY ZenonT(40), <1>a DEF Next, vars
<1>0. /\ cur \in [Procs -> Bufs \cup {None}] /\ pinned \subseteq Bufs
      /\ refcnt \in [Bufs -> Nat]
  BY ZenonT(40) DEF TypeOK, DiskTypeOK
<1>. USE <1>0, CacheAssumption DEF diskVars, cacheVars, At, Goto
<1>b. Counted' => RefsCounted'
  BY ZenonT(40) DEF Counted, RefsCounted, Users
<1>c. Counted
  BY ZenonT(40) DEF Counted, RefsCounted, Users
<1>1. ASSUME NEW p \in Procs, NEW k \in Blocks, NEW b \in Bufs, Hits(p, b, k)
      PROVE  RefsCounted'
  <2>1. cur[p] = None /\ cur' = [cur EXCEPT ![p] = b]
    BY ZenonT(40), <1>1 DEF Hits, Holding
  <2>2. Users' = [Users EXCEPT ![b] = Users[b] + 1]
    BY ZenonT(40), <2>1, OneMore
  <2>3. refcnt' = [refcnt EXCEPT ![b] = refcnt[b] + 1] /\ pinned' = pinned /\ panicked' = panicked
    BY ZenonT(40), <1>1 DEF Hits
  <2>4. Counted'
    BY SMTT(30), <1>c, <2>2, <2>3, UserCount DEF Counted
  <2>. QED BY ZenonT(40), <1>b, <2>4
<1>2. ASSUME NEW p \in Procs, NEW k \in Blocks, NEW b \in Bufs, Recycles(p, b, k)
      PROVE  RefsCounted'
  <2>1. cur[p] = None /\ cur' = [cur EXCEPT ![p] = b]
    BY ZenonT(40), <1>2 DEF Recycles, Holding
  <2>2. Users' = [Users EXCEPT ![b] = Users[b] + 1]
    BY ZenonT(40), <2>1, OneMore
  <2>3. refcnt' = [refcnt EXCEPT ![b] = refcnt[b] + 1] /\ pinned' = pinned /\ panicked' = panicked
    BY ZenonT(40), <1>2 DEF Recycles
  <2>4. Counted'
    BY <1>c, <2>2, <2>3, UserCount DEF Counted
  <2>. QED BY ZenonT(40), <1>b, <2>4
<1>3. ASSUME Panics
      PROVE  RefsCounted'
  <2>1. Counted'
    BY ZenonT(40), <1>3, <1>c DEF Panics, Counted, Users
  <2>. QED BY ZenonT(40), <1>b, <2>1
<1>4. ASSUME NEW p \in Procs, bpin(p)
      PROVE  RefsCounted'
  <2>1. cur[p] \in Bufs
    BY ZenonT(40), <1>4, HasBuffer DEF bpin
  <2>2. cur' = cur /\ panicked' = panicked
    BY ZenonT(40), <1>4 DEF bpin
  <2>3. Users' = Users
    BY ZenonT(40), <2>2 DEF Users
  <2>4. Counted'
    BY SMTT(30), <1>4, <1>c, <2>1, <2>2, <2>3, UserCount DEF bpin, Counted
  <2>. QED BY ZenonT(40), <1>b, <2>4
<1>5. ASSUME NEW p \in Procs, bunpin(p)
      PROVE  RefsCounted'
  <2>1. cur[p] \in Bufs
    BY ZenonT(40), <1>5, HasBuffer DEF bunpin
  <2>2. /\ cur' = cur /\ panicked' = panicked /\ cur[p] \in pinned
        /\ pinned' = pinned \ {cur[p]} /\ refcnt' = [refcnt EXCEPT ![cur[p]] = refcnt[cur[p]] - 1]
    BY ZenonT(40), <1>5 DEF bunpin
  <2>3. Users' = Users
    BY ZenonT(40), <2>2 DEF Users
  <2>4. ASSUME NEW c \in Bufs
        PROVE  refcnt'[c] = Users'[c] + (IF c \in pinned' THEN 1 ELSE 0)
    <3>1. /\ refcnt[c] = Users[c] + (IF c \in pinned THEN 1 ELSE 0)
          /\ Users[c] \in Nat /\ refcnt[c] \in Nat
      BY ZenonT(40), <1>c, UserCount DEF Counted
    <3>2. CASE c = cur[p]
      BY SMTT(30), <2>1, <2>2, <2>3, <3>1, <3>2
    <3>3. CASE c # cur[p]
      <4>1. refcnt'[c] = refcnt[c] /\ (c \in pinned' <=> c \in pinned)
        BY ZenonT(40), <2>1, <2>2, <3>3
      <4>. QED BY ZenonT(40), <2>3, <3>1, <4>1
    <3>. QED BY ZenonT(40), <3>2, <3>3
  <2>5. Counted'
    BY ZenonT(40), <2>2, <2>4 DEF Counted
  <2>. QED BY ZenonT(40), <1>b, <2>5
<1>6. ASSUME NEW p \in Procs, brelse(p)
      PROVE  RefsCounted'
  <2>1. cur[p] \in Bufs /\ cur' = [cur EXCEPT ![p] = None]
    BY ZenonT(40), <1>6, HasBuffer DEF brelse
  <2>2. Users' = [Users EXCEPT ![cur[p]] = Users[cur[p]] - 1]
    BY ZenonT(40), <2>1, OneLess
  <2>3. /\ refcnt' = [refcnt EXCEPT ![cur[p]] = refcnt[cur[p]] - 1]
        /\ pinned' = pinned /\ panicked' = panicked
    BY ZenonT(40), <1>6 DEF brelse
  <2>4. Counted'
    BY <1>c, <2>1, <2>2, <2>3, UserCount DEF Counted
  <2>. QED BY ZenonT(40), <1>b, <2>4
<1>7. ASSUME NEW p \in Procs, NEW w \in BOOLEAN,
             NEW i \in Descs, NEW j \in Descs, NEW k \in Descs, Starts(p, w, i, j, k)
      PROVE  UNCHANGED <<refcnt, cur, pinned, panicked>>
  BY ZenonT(40), <1>7 DEF Starts, Submit
<1>8. ASSUME \E p \in Procs : \/ acquiresleep(p) \/ NoDescs(p) \/ ReadDone(p) \/ WriteDone(p)
                              \/ SleepsAgain(p) \/ kkill(p)
      PROVE  UNCHANGED <<refcnt, cur, pinned, panicked>>
  BY ZenonT(40), <1>8 DEF acquiresleep, NoDescs, ReadDone, WriteDone, EndRw, FreeChain, SleepsAgain, kkill
<1>9. ASSUME \E p \in Procs : \/ releasesleep(p) \/ Serves(p) \/ Takes(p)
                              \/ \E v \in Vals : Modify(p, v)
      PROVE  UNCHANGED <<refcnt, cur, pinned, panicked>>
  BY ZenonT(40), <1>9 DEF releasesleep, Modify, Serves, Takes
<1>10. ASSUME Acks
      PROVE  UNCHANGED <<refcnt, cur, pinned, panicked>>
  BY ZenonT(40), <1>10 DEF Acks, IntrAck, IntrDone
<1>. HIDE DEF diskVars, cacheVars, At, Goto
<1>. QED BY ZenonT(40), <1>a, <1>1, <1>2, <1>3, <1>4, <1>5, <1>6, <1>7, <1>8, <1>9, <1>10, StepCases

\* A request stays what it is while nobody writes its descriptors.
LEMMA Kept ==
  ASSUME NEW q, Request(q), head'[q] = head[q], cur'[q] = cur[q], pc'[q] = pc[q],
         info'[head[q]] = info[head[q]], \A d \in Chain(head[q]) : desc'[d] = desc[d]
  PROVE  /\ Request(q)' /\ Second(head[q])' = Second(head[q]) /\ Third(head[q])' = Third(head[q])
         /\ Chain(head[q])' = Chain(head[q])
<1>1. Chain(head[q]) = {head[q], Second(head[q]), Third(head[q])}
  BY ZenonT(40), ChainOf
<1>2. /\ desc'[head[q]] = desc[head[q]] /\ desc'[Second(head[q])] = desc[Second(head[q])]
      /\ desc'[Third(head[q])] = desc[Third(head[q])]
  BY ZenonT(40), <1>1
<1>3. Second(head[q])' = Second(head[q]) /\ Third(head[q])' = Third(head[q])
  BY ZenonT(40), <1>2 DEF Second, Third
<1>4. Request(q)'
  BY ZenonT(40), <1>2, <1>3 DEF Request
<1>5. Chain(head[q])' = {head[q], Second(head[q]), Third(head[q])}
  BY ZenonT(40), <1>2, <1>3 DEF Chain, Request, Second, Third
<1>. QED BY ZenonT(40), <1>1, <1>3, <1>4, <1>5

\* virtio_disk_rw() makes one request more, of free descriptors ...
LEMMA Started ==
  ASSUME TypeOK, Requests, Owned, NEW p \in Procs, NEW w \in BOOLEAN,
         NEW i \in Descs, NEW j \in Descs, NEW k \in Descs, Starts(p, w, i, j, k)
  PROVE  /\ p \notin InFlight /\ InFlight' = InFlight \cup {p}
         /\ head'[p] = i /\ Request(p)' /\ Chain(head[p])' = {i, j, k}
         /\ \A q \in InFlight : /\ head'[q] = head[q] /\ Chain(head[q]) \cap {i, j, k} = {}
                                /\ Request(q)' /\ Chain(head[q])' = Chain(head[q])
<1>0. /\ pc \in [Procs -> Places] /\ head \in [Procs -> Descs]
      /\ desc \in [Descs -> [next : Descs, more : BOOLEAN]]
      /\ info \in [Descs -> [b : Bufs \cup {None}, write : BOOLEAN]]
  BY ZenonT(40) DEF TypeOK, DiskTypeOK
<1>1. /\ pc[p] \in {"read", "use"} /\ pc' = [pc EXCEPT ![p] = IF w THEN "writing" ELSE "reading"]
      /\ {i, j, k} \subseteq free /\ i # j /\ i # k /\ j # k
      /\ head' = [head EXCEPT ![p] = i] /\ cur' = cur
  BY ZenonT(40) DEF Starts
<1>2. desc' = [[[desc EXCEPT ![i] = [next |-> j, more |-> TRUE]]
                     EXCEPT ![j] = [next |-> k, more |-> TRUE]] EXCEPT ![k] = NoDesc]
  BY ZenonT(40) DEF Starts, Submit
<1>3. info' = [info EXCEPT ![i] = [b |-> cur[p], write |-> w]]
  BY ZenonT(40) DEF Starts, Submit
<1>4. p \notin InFlight /\ InFlight' = InFlight \cup {p}
  BY ZenonT(40), <1>0, <1>1 DEF InFlight
<1>5. /\ desc'[i] = [next |-> j, more |-> TRUE] /\ desc'[j] = [next |-> k, more |-> TRUE]
      /\ desc'[k] = NoDesc /\ \A d \in Descs \ {i, j, k} : desc'[d] = desc[d]
  BY ZenonT(40), <1>0, <1>1, <1>2
<1>6. head'[p] = i /\ info'[i] = [b |-> cur[p], write |-> w] /\ \A d \in Descs \ {i} : info'[d] = info[d]
  BY ZenonT(40), <1>0, <1>1, <1>3
<1>7. Second(head[p])' = j /\ Third(head[p])' = k
  BY SMTT(30), <1>5, <1>6 DEF Second, Third
<1>8. Request(p)'
  <2>1. pc'[p] = "writing" <=> w
    BY ZenonT(40), <1>0, <1>1
  <2>. QED BY <1>1, <1>5, <1>6, <1>7, <2>1 DEF Request, NoDesc
<1>9. Chain(head[p])' = {i, j, k}
  BY <1>5, <1>6 DEF Chain, NoDesc
<1>10. ASSUME NEW q \in InFlight
       PROVE  /\ head'[q] = head[q] /\ Chain(head[q]) \cap {i, j, k} = {}
              /\ Request(q)' /\ Chain(head[q])' = Chain(head[q])
  <2>1. q \in Procs /\ q # p /\ Request(q)
    BY ZenonT(40), <1>4 DEF InFlight, Requests
  <2>2. head'[q] = head[q] /\ cur'[q] = cur[q] /\ pc'[q] = pc[q]
    BY ZenonT(40), <1>0, <1>1, <2>1
  <2>3. Chain(head[q]) \cap {i, j, k} = {}
    BY ZenonT(40), <1>1 DEF Owned
  <2>4. Chain(head[q]) \subseteq Descs /\ head[q] \in Chain(head[q])
    BY <1>0, <2>1 DEF Chain
  <2>5. info'[head[q]] = info[head[q]] /\ \A d \in Chain(head[q]) : desc'[d] = desc[d]
    <3>. HIDE DEF Chain
    <3>. QED BY ZenonT(40), <1>5, <1>6, <2>3, <2>4
  <2>. QED BY ZenonT(40), <2>1, <2>2, <2>3, <2>5, Kept
<1>. QED BY ZenonT(40), <1>4, <1>6, <1>8, <1>9, <1>10

\* ... and gives its descriptors back when it is done.
LEMMA Ended ==
  ASSUME TypeOK, Requests, Owned, NEW p \in Procs, ReadDone(p) \/ WriteDone(p)
  PROVE  /\ p \in InFlight /\ InFlight' = InFlight \ {p} /\ free' = free \cup Chain(head[p])
         /\ \A q \in InFlight' : /\ head'[q] = head[q]
                                 /\ Request(q)' /\ Chain(head[q])' = Chain(head[q])
<1>0. /\ pc \in [Procs -> Places] /\ head \in [Procs -> Descs]
      /\ desc \in [Descs -> [next : Descs, more : BOOLEAN]]
      /\ info \in [Descs -> [b : Bufs \cup {None}, write : BOOLEAN]]
  BY ZenonT(40) DEF TypeOK, DiskTypeOK
<1>1. /\ pc[p] \in {"reading", "writing"} /\ pc' = [pc EXCEPT ![p] = "use"]
      /\ head' = [head EXCEPT ![p] = 0] /\ cur' = cur /\ free' = free \cup Chain(head[p])
  BY ZenonT(40) DEF ReadDone, WriteDone, EndRw, FreeChain, At, Goto
<1>2. /\ desc' = [d \in Descs |-> IF d \in Chain(head[p]) THEN NoDesc ELSE desc[d]]
      /\ info' = [info EXCEPT ![head[p]] = NoInfo]
  BY ZenonT(40) DEF ReadDone, WriteDone, EndRw, FreeChain
<1>3. p \in InFlight /\ InFlight' = InFlight \ {p}
  BY ZenonT(40), <1>0, <1>1 DEF InFlight
<1>4. ASSUME NEW q \in InFlight'
       PROVE  head'[q] = head[q] /\ Request(q)' /\ Chain(head[q])' = Chain(head[q])
  <2>1. q \in Procs /\ q # p /\ q \in InFlight /\ Request(q)
    BY ZenonT(40), <1>3 DEF InFlight, Requests
  <2>2. head'[q] = head[q] /\ cur'[q] = cur[q] /\ pc'[q] = pc[q]
    BY ZenonT(40), <1>0, <1>1, <2>1
  <2>3. Chain(head[q]) \cap Chain(head[p]) = {}
    BY ZenonT(40), <1>3, <2>1 DEF Owned
  <2>4. Chain(head[q]) \subseteq Descs /\ head[q] \in Chain(head[q])
    BY ZenonT(40), <1>0, <2>1 DEF Chain
  <2>5. head[p] \in Chain(head[p])
    BY ZenonT(40) DEF Chain
  <2>6. info'[head[q]] = info[head[q]] /\ \A d \in Chain(head[q]) : desc'[d] = desc[d]
    BY ZenonT(40), <1>0, <1>2, <2>3, <2>4, <2>5
  <2>. QED BY ZenonT(40), <2>1, <2>2, <2>6, Kept
<1>. QED BY ZenonT(40), <1>1, <1>3, <1>4

\* A step that touches no request, no descriptor and no ring.
Calm ==
  /\ UNCHANGED <<free, desc, info, avail, used, busy, head>> /\ InFlight' = InFlight
  /\ \A q \in InFlight : cur'[q] = cur[q] /\ pc'[q] = pc[q]

\* What a step can be for the driver.
LEMMA DriverCases ==
  ASSUME TypeOK, Holding, RefsCounted, Requests, Rings, [Next]_vars
  PROVE  \/ Calm
         \/ \E p \in Procs : \/ \E w \in BOOLEAN, i, j, k \in Descs : Starts(p, w, i, j, k)
                             \/ ReadDone(p) \/ WriteDone(p) \/ Serves(p) \/ Takes(p)
<1>a. ASSUME UNCHANGED <<free, desc, info, avail, used, busy, head, cur, pc>> PROVE Calm
  BY ZenonT(40), <1>a DEF Calm, InFlight
<1>. SUFFICES ASSUME ~panicked, Next
              PROVE  \/ Calm
                     \/ \E p \in Procs : \/ \E w \in BOOLEAN, i, j, k \in Descs : Starts(p, w, i, j, k)
                                         \/ ReadDone(p) \/ WriteDone(p) \/ Serves(p) \/ Takes(p)
  BY ZenonT(40), <1>a DEF Next, vars
<1>0. pc \in [Procs -> Places] /\ cur \in [Procs -> Bufs \cup {None}]
  BY ZenonT(40) DEF TypeOK
<1>. USE <1>0 DEF diskVars, cacheVars, At, Goto
<1>1. ASSUME NEW p \in Procs, NEW k \in Blocks, NEW b \in Bufs, Hits(p, b, k) \/ Recycles(p, b, k)
      PROVE  Calm
  BY ZenonT(40), <1>1 DEF Hits, Recycles, Calm, InFlight
<1>2. ASSUME NEW p \in Procs, acquiresleep(p) PROVE Calm
  <2>1. pc[p] = "lock" /\ (pc' = pc \/ pc' = [pc EXCEPT ![p] = "use"] \/ pc' = [pc EXCEPT ![p] = "read"])
    BY ZenonT(40), <1>2 DEF acquiresleep
  <2>2. UNCHANGED <<free, desc, info, avail, used, busy, head, cur>>
    BY ZenonT(40), <1>2 DEF acquiresleep
  <2>. QED BY ZenonT(40), <2>1, <2>2 DEF Calm, InFlight
<1>3. ASSUME NEW p \in Procs, releasesleep(p) \/ brelse(p) PROVE Calm
  BY ZenonT(40), <1>3 DEF releasesleep, brelse, Calm, InFlight
<1>4. ASSUME \/ Acks \/ Panics
             \/ \E p \in Procs : \/ NoDescs(p) \/ SleepsAgain(p) \/ kkill(p) \/ bpin(p) \/ bunpin(p)
                                 \/ \E v \in Vals : Modify(p, v)
      PROVE  UNCHANGED <<free, desc, info, avail, used, busy, head, cur, pc>>
  BY ZenonT(40), <1>4 DEF Acks, IntrAck, IntrDone, Panics, NoDescs, SleepsAgain, kkill, bpin,
       bunpin, Modify
<1>. HIDE DEF diskVars, cacheVars, At, Goto
<1>. QED BY ZenonT(40), <1>a, <1>1, <1>2, <1>3, <1>4, StepCases

\* The requests of the others are left alone.
LEMMA RequestsNext == IInv /\ [Next]_vars => Requests'
<1>. SUFFICES ASSUME TypeOK, Holding, Requests, Owned, RefsCounted, Rings,
     [Next]_vars PROVE Requests'
  BY ZenonT(40) DEF IInv
<1>a. CASE Calm
  <2>1. ASSUME NEW q \in InFlight PROVE Request(q)'
    <3>1. /\ Request(q) /\ head'[q] = head[q] /\ cur'[q] = cur[q] /\ pc'[q] = pc[q]
          /\ info'[head[q]] = info[head[q]] /\ \A d \in Chain(head[q]) : desc'[d] = desc[d]
      BY ZenonT(40), <1>a DEF Calm, Requests
    <3>. QED BY ZenonT(40), <3>1, Kept
  <2>. QED BY ZenonT(40), <1>a, <2>1 DEF Calm, Requests
<1>. USE CacheAssumption DEF Requests
<1>1. ASSUME NEW p \in Procs, NEW w \in BOOLEAN,
             NEW i \in Descs, NEW j \in Descs, NEW k \in Descs, Starts(p, w, i, j, k)
      PROVE  Requests'
  <2>1. InFlight' = InFlight \cup {p} /\ Request(p)' /\ \A q \in InFlight : Request(q)'
    BY <1>1, Started
  <2>. QED BY ZenonT(40), <2>1
<1>2. ASSUME NEW p \in Procs, ReadDone(p) \/ WriteDone(p)
      PROVE  Requests'
  BY ZenonT(40), <1>2, Ended
<1>3. ASSUME NEW p \in Procs, Serves(p)
      PROVE  Requests'
  <2>1. UNCHANGED <<desc, info, head, cur, pc>>
    BY ZenonT(40), <1>3 DEF Serves, cacheVars
  <2>. QED BY ZenonT(40), <2>1 DEF Request, InFlight, Second, Third
<1>4. ASSUME NEW p \in Procs, Takes(p)
      PROVE  Requests'
  <2>1. UNCHANGED <<desc, info, head, cur, pc>>
    BY ZenonT(40), <1>4 DEF Takes, cacheVars
  <2>. QED BY ZenonT(40), <2>1 DEF Request, InFlight, Second, Third
<1>. HIDE DEF Requests
<1>. QED BY ZenonT(40), <1>a, <1>1, <1>2, <1>3, <1>4, DriverCases

\* No descriptor has two owners, and none is lost.
LEMMA OwnedNext == IInv /\ [Next]_vars => Owned'
<1>. SUFFICES ASSUME TypeOK, Holding, Requests, Owned, RefsCounted, Rings, [Next]_vars PROVE Owned'
  BY ZenonT(40) DEF IInv
<1>a. CASE Calm
  BY ZenonT(90), <1>a DEF Calm, Owned, Chain
<1>1. ASSUME NEW p \in Procs, NEW w \in BOOLEAN,
             NEW i \in Descs, NEW j \in Descs, NEW k \in Descs, Starts(p, w, i, j, k)
      PROVE  Owned'
  <2>1. /\ InFlight' = InFlight \cup {p} /\ Chain(head[p])' = {i, j, k}
        /\ \A q \in InFlight : Chain(head[q])' = Chain(head[q]) /\ Chain(head[q]) \cap {i, j, k} = {}
    <3>1. /\ InFlight' = InFlight \cup {p} /\ Chain(head[p])' = {i, j, k}
          /\ \A q \in InFlight : /\ head'[q] = head[q] /\ Chain(head[q]) \cap {i, j, k} = {}
                                 /\ Request(q)' /\ Chain(head[q])' = Chain(head[q])
      BY SMTT(30), <1>1, Started
    <3>. QED BY ZenonT(40), <3>1, Zenon
  <2>2. free' = free \ {i, j, k} /\ {i, j, k} \subseteq free
    BY ZenonT(40), <1>1 DEF Starts, Submit
  <2>3. ASSUME NEW q \in InFlight', NEW r \in InFlight', q # r
        PROVE  Chain(head[q])' \cap Chain(head[r])' = {}
    <3>1. CASE q = p
      BY ZenonT(40), <2>1, <2>3, <3>1
    <3>2. CASE r = p
      <4>1. Chain(head[q]) \cap {i, j, k} = {} /\ Chain(head[q])' = Chain(head[q])
        BY ZenonT(40), <2>1, <2>3, <3>2
      <4>. QED BY ZenonT(40), <2>1, <3>2, <4>1
    <3>3. CASE q # p /\ r # p
      BY ZenonT(40), <2>1, <2>3, <3>3 DEF Owned
    <3>. QED BY ZenonT(40), <3>1, <3>2, <3>3
  <2>4. ASSUME NEW d \in Descs
        PROVE  d \in free' <=> \A q \in InFlight' : d \notin Chain(head[q])'
    <3>1. d \in free <=> \A q \in InFlight : d \notin Chain(head[q])'
      <4>1. d \in free <=> \A q \in InFlight : d \notin Chain(head[q])
        BY Zenon DEF Owned
      <4>2. \A q \in InFlight : Chain(head[q])' = Chain(head[q])
        BY ZenonT(40), <2>1, Zenon
      <4>. QED BY ZenonT(40), <4>1, <4>2, Zenon
    <3>. QED BY ZenonT(40), <2>1, <2>2, <3>1
  <2>. QED BY ZenonT(40), <2>3, <2>4 DEF Owned
<1>2. ASSUME NEW p \in Procs, ReadDone(p) \/ WriteDone(p)
      PROVE  Owned'
  <2>1. /\ p \in InFlight /\ InFlight' = InFlight \ {p} /\ free' = free \cup Chain(head[p])
        /\ \A q \in InFlight' : Chain(head[q])' = Chain(head[q])
    BY ZenonT(40), <1>2, Ended
  <2>2. \A q \in InFlight' : q \in InFlight /\ q # p
    BY ZenonT(40), <2>1
  <2>3. ASSUME NEW q \in InFlight', NEW r \in InFlight', q # r
        PROVE  Chain(head[q])' \cap Chain(head[r])' = {}
    BY ZenonT(40), <2>1, <2>2, <2>3 DEF Owned
  <2>4. ASSUME NEW d \in Descs
        PROVE  d \in free' <=> \A q \in InFlight' : d \notin Chain(head[q])'
    <3>1. CASE d \in Chain(head[p])
      <4>1. \A q \in InFlight' : d \notin Chain(head[q])
        BY ZenonT(40), <2>1, <2>2, <3>1 DEF Owned
      <4>. QED BY ZenonT(40), <2>1, <3>1, <4>1
    <3>2. CASE d \notin Chain(head[p])
      <4>1. (\A q \in InFlight : d \notin Chain(head[q])) <=> \A q \in InFlight' : d \notin Chain(head[q])
        BY ZenonT(40), <2>1, <3>2
      <4>2. d \in free <=> \A q \in InFlight : d \notin Chain(head[q])
        BY ZenonT(40) DEF Owned
      <4>. QED BY ZenonT(40), <2>1, <3>2, <4>1, <4>2
    <3>. QED BY ZenonT(40), <3>1, <3>2
  <2>. QED BY ZenonT(40), <2>3, <2>4 DEF Owned
<1>3. ASSUME NEW p \in Procs, Serves(p)
      PROVE  Owned'
  <2>1. UNCHANGED <<free, desc, head, pc>>
    BY ZenonT(40), <1>3 DEF Serves, cacheVars
  <2>. QED BY ZenonT(90), <2>1 DEF Owned, Chain, InFlight
<1>4. ASSUME NEW p \in Procs, Takes(p)
      PROVE  Owned'
  <2>1. UNCHANGED <<free, desc, head, pc>>
    BY ZenonT(40), <1>4 DEF Takes, cacheVars
  <2>. QED BY ZenonT(90), <2>1 DEF Owned, Chain, InFlight
<1>. QED BY ZenonT(40), <1>a, <1>1, <1>2, <1>3, <1>4, DriverCases

\* Two transfers have two heads and two buffers, and no head is free.
LEMMA Apart ==
  ASSUME Holding, Owned, NEW q \in InFlight
  PROVE  /\ head[q] \in Descs => head[q] \notin free
         /\ \A r \in InFlight : r # q => head[r] # head[q] /\ cur[r] # cur[q]
<1>1. \A r \in InFlight : head[r] \in Chain(head[r])
  BY ZenonT(40) DEF Chain
<1>2. head[q] \in Descs => head[q] \notin free
  BY ZenonT(40), <1>1 DEF Owned
<1>3. \A r \in InFlight : r # q => head[r] # head[q]
  BY ZenonT(40), <1>1 DEF Owned
<1>4. \A r \in InFlight : r # q => cur[r] # cur[q]
  BY ZenonT(40) DEF Holding, InFlight, Locking
<1>. QED BY ZenonT(40), <1>2, <1>3, <1>4

\* The used ring, when the device posts a head and when the interrupt takes one.
Distinct == \A i, j \in DOMAIN used : i # j => used[i] # used[j]

\* One more request on the used ring.
LEMMA RingAppend ==
  ASSUME used \in Seq(Descs), Distinct, NEW h \in Descs, h \notin Posted, used' = Append(used, h)
  PROVE  Posted' = Posted \cup {h} /\ Distinct'
<1>1. DOMAIN used = 1..Len(used) /\ DOMAIN used' = 1..(Len(used) + 1) /\ Len(used) \in Nat
  OBVIOUS
<1>2. /\ \A i \in 1..Len(used) : used'[i] = used[i]
      /\ used'[Len(used) + 1] = h
  OBVIOUS
<1>3. Posted' = Posted \cup {h}
  BY <1>1, <1>2 DEF Posted
<1>4. \A i \in 1..Len(used) : used[i] # h
  BY ZenonT(40), <1>1 DEF Posted
<1>5. Distinct'
  BY <1>1, <1>2, <1>4 DEF Distinct
<1>. QED BY ZenonT(40), <1>3, <1>5

\* The interrupt takes the first request off the used ring (virtio_disk.c:295).
LEMMA RingTail ==
  ASSUME used \in Seq(Descs), used # << >>, Distinct, used' = Tail(used)
  PROVE  Posted' = Posted \ {Head(used)} /\ Head(used) \in Posted /\ Distinct'
<1>1. /\ DOMAIN used = 1..Len(used) /\ Len(used) \in Nat \ {0} /\ Head(used) = used[1]
      /\ DOMAIN used' = 1..(Len(used) - 1)
      /\ \A i \in 1..(Len(used) - 1) : used'[i] = used[i + 1]
  OBVIOUS
<1>2. Head(used) \in Posted
  BY <1>1 DEF Posted
<1>3. Posted' \subseteq Posted \ {Head(used)}
  BY <1>1 DEF Posted, Distinct
<1>4. ASSUME NEW h \in Posted, h # Head(used) PROVE h \in Posted'
  <2>1. PICK i \in 1..Len(used) : h = used[i]
    BY ZenonT(40), <1>1, <1>4 DEF Posted
  <2>2. i - 1 \in 1..(Len(used) - 1) /\ used'[i - 1] = h
    BY <1>1, <1>4, <2>1
  <2>. QED BY ZenonT(40), <1>1, <2>2 DEF Posted
<1>5. Distinct'
  BY <1>1 DEF Distinct
<1>. QED BY ZenonT(40), <1>2, <1>3, <1>4, <1>5

\* Nothing changes for the transfers and for the rings.
LEMMA RingsKept ==
  ASSUME Rings, UNCHANGED <<avail, used, busy>>, InFlight' = InFlight,
         \A q \in InFlight : head'[q] = head[q] /\ cur'[q] = cur[q]
  PROVE  Rings'
<1>1. Posted' = Posted /\ avail' \cup Posted' = avail \cup Posted
  BY ZenonT(40) DEF Posted
<1>2. \A h \in avail' \cup Posted' : \E q \in InFlight' : head'[q] = h
  BY ZenonT(90), <1>1 DEF Rings
<1>3. \A q \in InFlight' : cur'[q] \in busy' <=> head'[q] \in avail' \cup Posted'
  BY ZenonT(40), <1>1 DEF Rings
<1>4. \A h \in avail' : h \notin Posted'
  BY ZenonT(40), <1>1 DEF Rings
<1>5. \A i, j \in DOMAIN used' : i # j => used'[i] # used'[j]
  BY ZenonT(40) DEF Rings
<1>. QED BY ZenonT(40), <1>2, <1>3, <1>4, <1>5 DEF Rings

\* The rings hold requests of transfers, each once.
LEMMA RingsNext == IInv /\ [Next]_vars => Rings'
<1>. SUFFICES ASSUME TypeOK, Holding, Requests, Owned, Rings, RefsCounted, [Next]_vars PROVE Rings'
  BY ZenonT(40) DEF IInv
<1>a. CASE Calm
  BY ZenonT(40), <1>a, RingsKept DEF Calm
<1>0. /\ pc \in [Procs -> Places] /\ cur \in [Procs -> Bufs \cup {None}] /\ head \in [Procs -> Descs]
      /\ used \in Seq(Descs)
  BY ZenonT(40) DEF TypeOK, DiskTypeOK
<1>. USE <1>0, CacheAssumption DEF diskVars, cacheVars, At, Goto
<1>1. ASSUME NEW p \in Procs, NEW w \in BOOLEAN,
             NEW i \in Descs, NEW j \in Descs, NEW k \in Descs, Starts(p, w, i, j, k)
      PROVE  Rings'
  <2>1. /\ p \notin InFlight /\ InFlight' = InFlight \cup {p} /\ head'[p] = i
        /\ \A q \in InFlight : head'[q] = head[q]
    BY <1>1, Started
  <2>2. /\ i \in free /\ avail' = avail \cup {i} /\ busy' = busy \cup {cur[p]}
        /\ Posted' = Posted /\ used' = used /\ cur' = cur
    BY <1>1 DEF Starts, Submit, Posted
  <2>3. \A q \in InFlight : head[q] # i
    <3>1. \A q \in InFlight : head[q] \notin free
      BY ZenonT(40), Apart DEF InFlight
    <3>. QED BY ZenonT(40), <2>2, <3>1, Zenon
  <2>4. \A q \in InFlight : cur[q] # cur[p]
    BY <1>1, <2>1 DEF Starts, InFlight, Holding, Locking
  <2>5. \A h \in avail' \cup Posted' : \E q \in InFlight' : head'[q] = h
    BY ZenonT(40), <2>1, <2>2 DEF Rings
  <2>6. \A h \in avail' : h \notin Posted'
    <3>1. i \notin Posted
      BY ZenonT(40), <2>3 DEF Rings
    <3>. QED BY ZenonT(40), <2>2, <3>1 DEF Rings
  <2>7. \A q \in InFlight' : cur'[q] \in busy' <=> head'[q] \in avail' \cup Posted'
    <3>1. cur'[p] \in busy' /\ head'[p] \in avail'
      BY ZenonT(40), <2>1, <2>2
    <3>2. ASSUME NEW q \in InFlight PROVE cur'[q] \in busy' <=> head'[q] \in avail' \cup Posted'
      <4>1. cur[q] \in busy <=> head[q] \in avail \cup Posted
        BY ZenonT(40) DEF Rings
      <4>. QED BY ZenonT(40), <2>1, <2>2, <2>3, <2>4, <4>1
    <3>. QED BY ZenonT(40), <2>1, <3>1, <3>2
  <2>8. \A x, y \in DOMAIN used' : x # y => used'[x] # used'[y]
    BY ZenonT(40), <2>2 DEF Rings
  <2>. QED BY ZenonT(40), <2>5, <2>6, <2>7, <2>8 DEF Rings
<1>2. ASSUME NEW p \in Procs, ReadDone(p) \/ WriteDone(p)
      PROVE  Rings'
  <2>1. /\ p \in InFlight /\ InFlight' = InFlight \ {p}
        /\ \A q \in InFlight' : head'[q] = head[q]
    BY ZenonT(40), <1>2, Ended
  <2>2. avail' = avail /\ used' = used /\ Posted' = Posted /\ busy' = busy /\ cur' = cur /\ cur[p] \notin busy
    BY <1>2 DEF ReadDone, WriteDone, EndRw, FreeChain, Woken, Posted
  <2>3. head[p] \notin avail \cup Posted
    BY ZenonT(40), <2>1, <2>2 DEF Rings
  <2>4. ASSUME NEW h \in avail \cup Posted PROVE \E q \in InFlight' : head'[q] = h
    <3>1. PICK q \in InFlight : head[q] = h
      BY ZenonT(40) DEF Rings
    <3>2. q # p
      BY ZenonT(40), <2>3, <3>1
    <3>. QED BY ZenonT(40), <2>1, <3>1, <3>2
  <2>5. \A q \in InFlight' : cur'[q] \in busy' <=> head'[q] \in avail' \cup Posted'
    <3>1. ASSUME NEW q \in InFlight' PROVE cur'[q] \in busy' <=> head'[q] \in avail' \cup Posted'
      <4>1. q \in InFlight /\ head'[q] = head[q]
        BY ZenonT(40), <2>1
      <4>2. cur[q] \in busy <=> head[q] \in avail \cup Posted
        BY ZenonT(40), <4>1 DEF Rings
      <4>. QED BY ZenonT(40), <2>2, <4>1, <4>2
    <3>. QED BY ZenonT(40), <3>1
  <2>6. \A h \in avail' : h \notin Posted'
    BY ZenonT(40), <2>2 DEF Rings
  <2>7. \A x, y \in DOMAIN used' : x # y => used'[x] # used'[y]
    BY ZenonT(40), <2>2 DEF Rings
  <2>. QED BY ZenonT(40), <2>2, <2>4, <2>5, <2>6, <2>7 DEF Rings
<1>3. ASSUME NEW p \in Procs, Serves(p)
      PROVE  Rings'
  <2>1. p \in InFlight /\ InFlight' = InFlight /\ head[p] \in avail /\ head[p] \in Descs
    BY ZenonT(40), <1>3 DEF Serves, InFlight
  <2>2. avail' = avail \ {head[p]} /\ head' = head /\ cur' = cur /\ busy' = busy /\ used' = Append(used, head[p])
    BY ZenonT(40), <1>3 DEF Serves
  <2>3. Posted' = Posted \cup {head[p]} /\ Distinct'
    <3>1. Distinct /\ head[p] \notin Posted
      BY ZenonT(40), <2>1 DEF Distinct, Rings
    <3>. QED BY ZenonT(40), <2>1, <2>2, <3>1, RingAppend
  <2>4. avail' \cup Posted' = avail \cup Posted
    BY ZenonT(40), <2>1, <2>2, <2>3
  <2>5. \A h \in avail' \cup Posted' : \E q \in InFlight' : head'[q] = h
    BY ZenonT(40), <2>1, <2>2, <2>4 DEF Rings
  <2>6. \A q \in InFlight' : cur'[q] \in busy' <=> head'[q] \in avail' \cup Posted'
    BY ZenonT(40), <2>1, <2>2, <2>4 DEF Rings
  <2>7. \A h \in avail' : h \notin Posted'
    BY ZenonT(40), <2>2, <2>3 DEF Rings
  <2>. QED BY ZenonT(40), <2>3, <2>5, <2>6, <2>7 DEF Rings, Distinct
<1>4. ASSUME NEW p \in Procs, Takes(p)
      PROVE  Rings'
  <2>1. p \in InFlight /\ InFlight' = InFlight /\ head[p] = Head(used) /\ used # << >>
    BY ZenonT(40), <1>4 DEF Takes, InFlight
  <2>2. avail' = avail /\ head' = head /\ cur' = cur /\ busy' = busy \ {cur[p]} /\ used' = Tail(used)
    BY ZenonT(40), <1>4 DEF Takes
  <2>3. Posted' = Posted \ {head[p]} /\ head[p] \in Posted /\ Distinct'
    <3>1. Distinct
      BY ZenonT(40) DEF Distinct, Rings
    <3>. QED BY ZenonT(40), <2>1, <2>2, <3>1, RingTail
  <2>4. \A h \in avail' \cup Posted' : \E q \in InFlight' : head'[q] = h
    BY ZenonT(40), <2>1, <2>2, <2>3 DEF Rings
  <2>5. ASSUME NEW q \in InFlight' PROVE cur'[q] \in busy' <=> head'[q] \in avail' \cup Posted'
    <3>1. cur[q] \in busy <=> head[q] \in avail \cup Posted
      BY ZenonT(40), <2>1 DEF Rings
    <3>2. head[p] \notin avail
      BY ZenonT(40), <2>3 DEF Rings
    <3>3. q # p => cur[q] # cur[p] /\ head[q] # head[p]
      BY ZenonT(40), <2>1, Apart
    <3>. QED BY ZenonT(40), <2>2, <2>3, <3>1, <3>2, <3>3
  <2>6. \A h \in avail' : h \notin Posted'
    BY ZenonT(40), <2>2, <2>3 DEF Rings
  <2>. QED BY ZenonT(40), <2>3, <2>4, <2>5, <2>6 DEF Rings, Distinct
<1>. HIDE DEF diskVars, cacheVars, At, Goto
<1>. QED BY ZenonT(40), <1>a, <1>1, <1>2, <1>3, <1>4, DriverCases

\* Who still sleeps after a step has still a cause.
LEMMA CausesNext == IInv /\ [Next]_vars => Causes'
<1>. SUFFICES ASSUME TypeOK, Holding, Causes, RefsCounted, Requests, Rings,
     [Next]_vars PROVE Causes'
  BY ZenonT(40) DEF IInv
<1>a. ASSUME UNCHANGED <<pc, cur, locked, busy, free, chan, used, irq, intr>> PROVE Causes'
  BY ZenonT(40), <1>a DEF Causes, InFlight
<1>. SUFFICES ASSUME ~panicked, Next PROVE Causes'
  BY ZenonT(40), <1>a DEF Next, vars
<1>0. /\ pc \in [Procs -> Places] /\ cur \in [Procs -> Bufs \cup {None}]
      /\ chan \in [Procs -> Chans] /\ locked \in [Bufs -> Procs \cup {None}]
  BY ZenonT(40) DEF TypeOK, DiskTypeOK
<1>. USE <1>0, CacheAssumption DEF Causes, InFlight, Awake, FreeDescs, diskVars, cacheVars, At, Goto
<1>1. ASSUME NEW p \in Procs, NEW k \in Blocks, NEW b \in Bufs, Hits(p, b, k)
      PROVE  Causes'
  BY ZenonT(40), <1>1 DEF Hits
<1>2. ASSUME NEW p \in Procs, NEW k \in Blocks, NEW b \in Bufs, Recycles(p, b, k)
      PROVE  Causes'
  BY ZenonT(40), <1>2 DEF Recycles, Cached
<1>3. ASSUME NEW p \in Procs, acquiresleep(p)
      PROVE  Causes'
  <2>1. CASE locked[cur[p]] = None
    <3>1. /\ locked' = [locked EXCEPT ![cur[p]] = p] /\ chan' = chan /\ chan[p] = Awake /\ pc[p] = "lock"
          /\ pc' = [pc EXCEPT ![p] = "use"] \/ pc' = [pc EXCEPT ![p] = "read"]
          /\ UNCHANGED <<free, busy, used, irq, intr, cur>>
      BY ZenonT(40), <1>3, <2>1 DEF acquiresleep
    <3>. QED BY <3>1
  <2>2. CASE locked[cur[p]] # None
    <3>1. /\ chan' = [chan EXCEPT ![p] = <<cur[p], "lock">>] /\ pc[p] = "lock"
          /\ UNCHANGED <<locked, pc, free, busy, used, irq, intr, cur>>
      BY ZenonT(40), <1>3, <2>2 DEF acquiresleep
    <3>. QED BY ZenonT(40), <2>2, <3>1
  <2>. QED BY ZenonT(40), <2>1, <2>2
<1>4. ASSUME NEW p \in Procs, NoDescs(p)
      PROVE  Causes'
  BY ZenonT(40), <1>4 DEF NoDescs
<1>5. ASSUME NEW p \in Procs, NEW w \in BOOLEAN,
             NEW i \in Descs, NEW j \in Descs, NEW k \in Descs, Starts(p, w, i, j, k)
      PROVE  Causes'
  <2>1. /\ pc' = [pc EXCEPT ![p] = IF w THEN "writing" ELSE "reading"] /\ pc[p] \in {"read", "use"}
        /\ chan' = [chan EXCEPT ![p] = <<cur[p], "disk">>] /\ ~(Cardinality(free) < 3)
        /\ busy' = busy \cup {cur[p]} /\ UNCHANGED <<locked, cur, used, irq, intr>>
    <3>1. Cardinality(free) >= 3 /\ Cardinality(free) \in Nat
      <4>1. IsFiniteSet(Descs) /\ free \subseteq Descs
        BY DiskAssumption, FS_Interval DEF Descs, TypeOK, DiskTypeOK
      <4>2. IsFiniteSet(free)
        BY ZenonT(40), <4>1, FS_Subset
      <4>. QED BY ZenonT(40), <1>5, <4>2, FS_CardinalityType DEF Starts
    <3>. QED BY <1>5, <3>1 DEF Starts, Submit
  <2>2. ASSUME NEW q \in Procs, q # p, chan'[q] # Awake
        PROVE  \/ chan'[q] = <<cur'[q], "lock">> /\ pc'[q] = "lock" /\ locked'[cur'[q]] # None
               \/ chan'[q] = <<cur'[q], "disk">> /\ q \in InFlight' /\ cur'[q] \in busy'
    BY ZenonT(40), <2>1, <2>2
  <2>3. chan'[p] = <<cur'[p], "disk">> /\ p \in InFlight' /\ cur'[p] \in busy'
    BY ZenonT(40), <2>1
  <2>. QED BY ZenonT(40), <2>1, <2>2, <2>3
<1>6. ASSUME NEW p \in Procs, ReadDone(p) \/ WriteDone(p)
      PROVE  Causes'
  BY <1>6 DEF ReadDone, WriteDone, EndRw, FreeChain, Woken
<1>7. ASSUME NEW p \in Procs, SleepsAgain(p)
      PROVE  Causes'
  BY ZenonT(40), <1>7 DEF SleepsAgain
<1>14. ASSUME NEW p \in Procs, kkill(p)
      PROVE  Causes'
  BY ZenonT(40), <1>14 DEF kkill
<1>8. ASSUME NEW p \in Procs, releasesleep(p)
      PROVE  Causes'
  BY <1>8 DEF releasesleep, Woken
<1>9. ASSUME NEW p \in Procs, brelse(p)
      PROVE  Causes'
  BY ZenonT(40), <1>9 DEF brelse
<1>10. ASSUME NEW p \in Procs, Serves(p)
      PROVE  Causes'
  BY ZenonT(40), <1>10 DEF Serves
<1>11. ASSUME NEW p \in Procs, Takes(p)
      PROVE  Causes'
  BY ZenonT(40), <1>11 DEF Takes, Woken
<1>12. ASSUME Acks
      PROVE  Causes'
  BY ZenonT(40), <1>12 DEF Acks, IntrAck, IntrDone
<1>13. ASSUME \/ Panics
              \/ \E p \in Procs : \/ bpin(p) \/ bunpin(p)
                                  \/ \E v \in Vals : Modify(p, v)
      PROVE  UNCHANGED <<pc, cur, locked, busy, free, chan, used, irq, intr>>
  BY ZenonT(40), <1>13 DEF Panics, bpin, bunpin, Modify
<1>. HIDE DEF Causes, InFlight, Awake, FreeDescs, diskVars, cacheVars, At, Goto
<1>. QED BY SMTT(30), <1>a, <1>1, <1>2, <1>3, <1>4, <1>5, <1>6, <1>7, <1>8, <1>9, <1>10, <1>11, <1>12,
     <1>13, <1>14, StepCases

\* A buffer differs from the disk only while a change is due.
LEMMA CoherentNext == IInv /\ [Next]_vars => Coherent'
<1>. SUFFICES ASSUME TypeOK, Holding, Assigned, OneBufferPerBlock, Requests, Owned, Rings,
     Coherent, RefsCounted, [Next]_vars PROVE Coherent'
  BY ZenonT(40) DEF IInv
<1>a. ASSUME UNCHANGED <<valid, pinned, dirty, cur, data, platter, blockno, avail, head, pc>> PROVE Coherent'
  BY ZenonT(40), <1>a DEF Coherent, InFlight
<1>. SUFFICES ASSUME ~panicked, Next PROVE Coherent'
  BY ZenonT(40), <1>a DEF Next, vars
<1>0. /\ pc \in [Procs -> Places] /\ cur \in [Procs -> Bufs \cup {None}]
      /\ data \in [Bufs -> Vals] /\ platter \in [Blocks -> Vals] /\ valid \subseteq Bufs
      /\ blockno \in [Bufs -> Blocks \cup {None}] /\ dirty \subseteq Bufs
  BY ZenonT(40) DEF TypeOK, DiskTypeOK
<1>. USE <1>0, CacheAssumption DEF diskVars, cacheVars, At, Goto
<1>1. ASSUME NEW p \in Procs, NEW k \in Blocks, NEW b \in Bufs, Hits(p, b, k)
      PROVE  Coherent'
  <2>1. /\ cur' = [cur EXCEPT ![p] = b] /\ pc' = [pc EXCEPT ![p] = "lock"] /\ pc[p] = "idle"
        /\ UNCHANGED <<valid, pinned, dirty, data, platter, blockno, avail, head>>
    BY ZenonT(40), <1>1 DEF Hits
  <2>2. \A q \in Procs : q # p => cur'[q] = cur[q] /\ pc'[q] = pc[q]
    BY ZenonT(40), <2>1
  <2>3. p \notin InFlight /\ InFlight' = InFlight
    BY <2>1, <2>2 DEF InFlight, Holding
  <2>4. \A q \in InFlight : cur'[q] = cur[q]
    BY ZenonT(40), <2>2, <2>3 DEF InFlight
  <2>. QED BY ZenonT(40), <2>1, <2>3, <2>4 DEF Coherent
<1>2. ASSUME NEW p \in Procs, NEW k \in Blocks, NEW b \in Bufs, Recycles(p, b, k)
      PROVE  Coherent'
  <2>1. /\ cur' = [cur EXCEPT ![p] = b] /\ pc' = [pc EXCEPT ![p] = "lock"] /\ pc[p] = "idle"
        /\ valid' = valid \ {b} /\ blockno' = [blockno EXCEPT ![b] = k]
        /\ dirty' = dirty \ {b} /\ UNCHANGED <<pinned, data, platter, avail, head>>
    BY ZenonT(40), <1>2 DEF Recycles
  <2>2. /\ \A q \in Procs : q # p => cur'[q] = cur[q] /\ pc'[q] = pc[q]
        /\ \A c \in Bufs : c # b => blockno'[c] = blockno[c]
    BY ZenonT(40), <2>1
  <2>3. p \notin InFlight /\ InFlight' = InFlight
    BY <2>1, <2>2 DEF InFlight, Holding
  <2>4. \A q \in InFlight : cur'[q] = cur[q]
    BY ZenonT(40), <2>2, <2>3 DEF InFlight
  <2>5. \A q \in InFlight : cur[q] \in Bufs /\ cur[q] # b
    BY <1>2 DEF Recycles, InFlight, Holding
  <2>6. \A q \in InFlight : blockno'[cur'[q]] = blockno[cur[q]]
    BY ZenonT(40), <2>2, <2>4, <2>5
  <2>7. \A c \in valid' : c \in valid /\ blockno'[c] = blockno[c]
    BY ZenonT(40), <2>1, <2>2
  <2>8. \A c \in valid' : \/ c \in pinned' \/ c \in dirty'
                          \/ data'[c] = platter'[blockno'[c]]
    <3>1. \A c \in valid : c \in pinned \/ c \in dirty \/ data[c] = platter[blockno[c]]
      BY ZenonT(40) DEF Coherent
    <3>. QED BY <2>1, <2>4, <2>7, <3>1
  <2>9. \A q \in InFlight' : head'[q] \notin avail' => data'[cur'[q]] = platter'[blockno'[cur'[q]]]
    BY ZenonT(40), <2>1, <2>3, <2>4, <2>6 DEF Coherent
  <2>. QED BY ZenonT(40), <2>8, <2>9 DEF Coherent
<1>3. ASSUME NEW p \in Procs, acquiresleep(p)
      PROVE  Coherent'
  BY <1>3 DEF acquiresleep, Coherent, InFlight, Holding, Locking, Assigned
<1>4. ASSUME NEW p \in Procs, NEW w \in BOOLEAN,
             NEW i \in Descs, NEW j \in Descs, NEW k \in Descs, Starts(p, w, i, j, k)
      PROVE  Coherent'
  <2>1. /\ InFlight' = InFlight \cup {p} /\ head'[p] = i
        /\ \A q \in InFlight : head'[q] = head[q]
    BY <1>4, Started
  <2>2. /\ avail' = avail \cup {i}
        /\ UNCHANGED <<data, platter, blockno, cur, valid, pinned, dirty>>
    BY ZenonT(40), <1>4 DEF Starts, Submit
  <2>3. \A c \in valid' : \/ c \in pinned' \/ c \in dirty'
                          \/ data'[c] = platter'[blockno'[c]]
    BY ZenonT(40), <2>2 DEF Coherent
  <2>4. \A q \in InFlight' : head'[q] \notin avail' => data'[cur'[q]] = platter'[blockno'[cur'[q]]]
    BY ZenonT(40), <2>1, <2>2 DEF Coherent
  <2>. QED BY ZenonT(40), <2>3, <2>4 DEF Coherent
<1>5. ASSUME NEW p \in Procs, ReadDone(p) \/ WriteDone(p)
      PROVE  Coherent'
  <2>1. /\ p \in InFlight /\ InFlight' = InFlight \ {p}
        /\ \A q \in InFlight' : head'[q] = head[q]
    BY ZenonT(40), <1>5, Ended
  <2>2. avail' = avail /\ UNCHANGED <<data, platter, blockno, cur, pinned>> /\ cur[p] \notin busy
    BY ZenonT(40), <1>5 DEF ReadDone, WriteDone, EndRw, FreeChain, Woken
  <2>3. data[cur[p]] = platter[blockno[cur[p]]]
    <3>1. head[p] \notin avail
      BY ZenonT(40), <2>1, <2>2 DEF Rings
    <3>. QED BY ZenonT(40), <2>1, <3>1 DEF Coherent
  <2>4. valid' \subseteq valid \cup {cur[p]} /\ \A b \in dirty : b = cur[p] \/ b \in dirty'
    BY ZenonT(40), <1>5 DEF ReadDone, WriteDone, EndRw, FreeChain, Woken
  <2>5. \A c \in valid' : \/ c \in pinned' \/ c \in dirty'
                          \/ data'[c] = platter'[blockno'[c]]
    BY ZenonT(40), <2>2, <2>3, <2>4 DEF Coherent
  <2>6. \A q \in InFlight' : head'[q] \notin avail' => data'[cur'[q]] = platter'[blockno'[cur'[q]]]
    BY ZenonT(40), <2>1, <2>2 DEF Coherent
  <2>. QED BY ZenonT(40), <2>5, <2>6 DEF Coherent
<1>6. ASSUME NEW p \in Procs, bpin(p)
      PROVE  Coherent'
  BY ZenonT(40), <1>6 DEF bpin, Coherent, InFlight, Holding, Locking, Assigned
<1>7. ASSUME NEW p \in Procs, bunpin(p)
      PROVE  Coherent'
  BY SMTT(30), <1>7 DEF bunpin, Coherent, InFlight, Holding, Locking, Assigned
<1>8. ASSUME NEW p \in Procs, releasesleep(p)
      PROVE  Coherent'
  BY SMTT(30), <1>8 DEF releasesleep, Woken, Coherent, InFlight, Holding, Locking, Assigned
<1>9. ASSUME NEW p \in Procs, brelse(p)
      PROVE  Coherent'
  BY SMTT(30), <1>9 DEF brelse, Coherent, InFlight, Holding, Locking, Assigned
<1>10. ASSUME NEW p \in Procs, NEW v \in Vals, Modify(p, v)
      PROVE  Coherent'
  BY <1>10 DEF Modify, Coherent, InFlight, Holding, Locking, Assigned
<1>11. ASSUME NEW p \in Procs, Serves(p)
      PROVE  Coherent'
  <2>1. p \in InFlight /\ InFlight' = InFlight /\ cur[p] \in Bufs /\ blockno[cur[p]] \in Blocks
    BY ZenonT(40), <1>11, HasBuffer DEF Serves, InFlight
  <2>2. /\ avail' = avail \ {head[p]} /\ UNCHANGED <<blockno, cur, head, valid, pinned, dirty>>
    BY ZenonT(40), <1>11 DEF Serves
  <2>3. ASSUME NEW c \in Bufs, c # cur[p], blockno[c] # None
        PROVE  data'[c] = data[c] /\ platter'[blockno'[c]] = platter[blockno[c]]
    <3>1. blockno[c] # blockno[cur[p]] /\ blockno[c] \in Blocks
      BY ZenonT(40), <2>1, <2>3 DEF OneBufferPerBlock
    <3>2. \/ platter' = [platter EXCEPT ![blockno[cur[p]]] = data[cur[p]]] /\ data' = data
          \/ data' = [data EXCEPT ![cur[p]] = platter[blockno[cur[p]]]] /\ platter' = platter
      BY ZenonT(40), <1>11 DEF Serves
    <3>. QED BY ZenonT(40), <2>1, <2>2, <2>3, <3>1, <3>2
  <2>4. data'[cur[p]] = platter'[blockno'[cur[p]]]
    <3>1. \/ platter' = [platter EXCEPT ![blockno[cur[p]]] = data[cur[p]]] /\ data' = data
          \/ data' = [data EXCEPT ![cur[p]] = platter[blockno[cur[p]]]] /\ platter' = platter
      BY ZenonT(40), <1>11 DEF Serves
    <3>. QED BY <2>1, <2>2, <3>1
  <2>5. ASSUME NEW c \in valid
        PROVE  c \in pinned \/ c \in dirty \/ data'[c] = platter'[blockno'[c]]
    <3>1. c \in Bufs /\ blockno[c] # None
      BY ZenonT(40) DEF Assigned
    <3>2. c \in pinned \/ c \in dirty \/ data[c] = platter[blockno[c]]
      BY ZenonT(40) DEF Coherent
    <3>3. c = cur[p] \/ (data'[c] = data[c] /\ platter'[blockno'[c]] = platter[blockno[c]])
      BY ZenonT(40), <2>3, <3>1
    <3>. QED BY ZenonT(40), <2>4, <3>2, <3>3
  <2>6. ASSUME NEW q \in InFlight, head[q] \notin avail'
        PROVE  data'[cur[q]] = platter'[blockno'[cur[q]]]
    <3>1. CASE q = p
      BY ZenonT(40), <2>4, <3>1
    <3>2. CASE q # p
      <4>1. head[q] # head[p] /\ cur[q] # cur[p]
        BY ZenonT(40), <2>1, <3>2, Apart
      <4>2. cur[q] \in Bufs /\ blockno[cur[q]] \in Blocks
        BY ZenonT(40), HasBuffer DEF InFlight
      <4>3. data[cur[q]] = platter[blockno[cur[q]]]
        BY ZenonT(40), <2>2, <2>6, <4>1 DEF Coherent
      <4>. QED BY ZenonT(40), <2>3, <4>1, <4>2, <4>3
    <3>. QED BY ZenonT(40), <3>1, <3>2
  <2>. QED BY ZenonT(40), <2>1, <2>2, <2>5, <2>6 DEF Coherent
<1>12. ASSUME \/ Panics
              \/ \E p \in Procs : NoDescs(p) \/ SleepsAgain(p) \/ kkill(p) \/ Takes(p)
      PROVE  UNCHANGED <<valid, pinned, dirty, cur, data, platter, blockno, avail, head, pc>>
  BY ZenonT(40), <1>12 DEF Panics, NoDescs, SleepsAgain, kkill, Takes
<1>13. ASSUME Acks
      PROVE  UNCHANGED <<valid, pinned, dirty, cur, data, platter, blockno, avail, head, pc>>
  BY ZenonT(40), <1>13 DEF Acks, IntrAck, IntrDone
<1>. HIDE DEF diskVars, cacheVars, At, Goto
<1>. QED BY ZenonT(40), <1>a, <1>1, <1>2, <1>3, <1>4, <1>5, <1>6, <1>7, <1>8, <1>9, <1>10, <1>11, <1>12,
     <1>13, StepCases

\* binit() and a disk without requests.
LEMMA IInvInit == Init => IInv
<1>. SUFFICES ASSUME Init PROVE IInv
  BY ZenonT(40)
<1>. USE CacheAssumption DEF Init, DiskInit
<1>1. TypeOK
  <2>1. /\ free \subseteq Descs /\ avail \subseteq Descs /\ used \in Seq(Descs)
        /\ platter \in [Blocks -> Vals] /\ busy \subseteq Bufs
        /\ blockno \in [Bufs -> Blocks \cup {None}] /\ data \in [Bufs -> Vals] /\ valid \subseteq Bufs
        /\ refcnt \in [Bufs -> Nat] /\ locked \in [Bufs -> Procs \cup {None}] /\ pinned \subseteq Bufs
        /\ cur \in [Procs -> Bufs \cup {None}] /\ dirty \subseteq Procs
    OBVIOUS
  <2>2. /\ desc \in [Descs -> [next : Descs, more : BOOLEAN]]
        /\ info \in [Descs -> [b : Bufs \cup {None}, write : BOOLEAN]]
        /\ head \in [Procs -> Descs]
    BY ZenonT(40), DescTypes
  <2>3. pc \in [Procs -> Places] /\ chan \in [Procs -> Chans]
    BY ZenonT(40) DEF Places, Chans
  <2>4. irq \in BOOLEAN /\ intr \in BOOLEAN /\ panicked \in BOOLEAN
    BY Zenon
  <2>. QED BY ZenonT(40), <2>1, <2>2, <2>3, <2>4 DEF TypeOK, DiskTypeOK
<1>2. InFlight = {} /\ Posted = {}
  BY DEF InFlight, Posted
<1>3. Holding /\ Assigned /\ OneBufferPerBlock
  BY ZenonT(40) DEF Holding, Assigned, OneBufferPerBlock, Locking
<1>4. RefsCounted
  <2>1. ASSUME NEW b \in Bufs PROVE {p \in Procs : cur[p] = b} = {}
    BY ZenonT(40)
  <2>2. \A b \in Bufs : Cardinality({p \in Procs : cur[p] = b}) = 0
    BY ZenonT(40), <2>1, FS_EmptySet
  <2>3. \A b \in Bufs : refcnt[b] = Cardinality({p \in Procs : cur[p] = b}) + (IF b \in pinned THEN 1 ELSE 0)
    BY <2>2
  <2>. QED BY ZenonT(40), <2>3 DEF RefsCounted
<1>5. Requests /\ Owned /\ Rings
  BY <1>2 DEF Requests, Owned, Rings
<1>6. Causes /\ Coherent
  BY ZenonT(40), <1>2 DEF Causes, Coherent
<1>. QED BY ZenonT(40), <1>1, <1>3, <1>4, <1>5, <1>6 DEF IInv

-----------------------------------------------------------------------------
(* What the invariant says.                                                *)

\* The inductive invariant: who holds which buffer, which descriptors belong
\* to whose request, where each request is and what each sleeper waits for.
THEOREM Invariance == Spec => []IInv
<1>1. IInv /\ [Next]_vars => IInv'
  BY ZenonT(40), TypeNext, HoldingNext, AssignedNext, RefsCountedNext, OneBufferPerBlockNext, RequestsNext,
     OwnedNext, RingsNext, CausesNext, CoherentNext DEF IInv
<1>. QED BY IInvInit, <1>1, PTL DEF Spec

\* Every variable of bio.c and virtio_disk.c keeps its type; refcnt never
\* goes below zero.
THEOREM TypeCorrect == Spec => []TypeOK
<1>1. IInv => TypeOK
  BY ZenonT(40) DEF IInv
<1>. QED BY <1>1, Invariance, PTL

\* A buffer's count is its users plus its pin (bio.c:68, :82, :125, :142, :149), and
\* bget() panics only when every buffer is really in use (bio.c:88).
THEOREM ReferencesCounted == Spec => []RefsCounted
<1>1. IInv => RefsCounted
  BY ZenonT(40) DEF IInv
<1>. QED BY <1>1, Invariance, PTL

\* No block is ever cached twice, for any number of processes, buffers and
\* blocks (bget(), bio.c:59).
THEOREM CachedOnce == Spec => []OneBufferPerBlock
<1>1. IInv => OneBufferPerBlock
  BY ZenonT(40) DEF IInv
<1>. QED BY <1>1, Invariance, PTL

\* A descriptor is free or in the chain of one request (alloc3_desc(),
\* free_chain(), virtio_disk.c:202, :186), for any NUM of at least three.
THEOREM DescriptorsHaveOneOwner == Spec => []DescriptorsOwned
<1>1. ASSUME IInv PROVE DescriptorsOwned
  <2>. USE <1>1 DEF IInv
  <2>0. \A p \in InFlight : p \in Procs /\ head[p] \in Descs
    BY ZenonT(40) DEF InFlight, TypeOK
  <2>1. ASSUME NEW p \in InFlight
        PROVE  /\ Chain(head[p]) = {head[p], Second(head[p]), Third(head[p])}
               /\ head[p] # Second(head[p]) /\ head[p] # Third(head[p])
               /\ Second(head[p]) # Third(head[p]) /\ info[head[p]].b = cur[p]
    <3>1. Request(p)
      BY ZenonT(40) DEF Requests
    <3>2. Chain(head[p]) = {head[p], Second(head[p]), Third(head[p])}
      BY ZenonT(40), <3>1, ChainOf
    <3>. QED BY ZenonT(40), <3>1, <3>2 DEF Request
  <2>2. ASSUME NEW p \in InFlight PROVE Cardinality(Chain(head[p])) = 3
    <3>1. \A x, y, z : x # y /\ x # z /\ y # z => Cardinality({x, y, z}) = 3
      <4>. SUFFICES ASSUME NEW x, NEW y, NEW z, x # y, x # z, y # z PROVE Cardinality({x, y, z}) = 3
        BY ZenonT(40)
      <4>1. IsFiniteSet({x}) /\ Cardinality({x}) = 1
        BY ZenonT(40), FS_Singleton
      <4>2. IsFiniteSet({x} \cup {y}) /\ Cardinality({x} \cup {y}) = 2
        BY <4>1, FS_AddElement
      <4>3. Cardinality(({x} \cup {y}) \cup {z}) = 3
        BY <4>2, FS_AddElement
      <4>4. {x, y, z} = ({x} \cup {y}) \cup {z}
        BY ZenonT(40)
      <4>. QED BY ZenonT(40), <4>3, <4>4
    <3>2. /\ head[p] # Second(head[p]) /\ head[p] # Third(head[p])
          /\ Second(head[p]) # Third(head[p])
      BY ZenonT(40), <2>1, Zenon
    <3>3. Cardinality({head[p], Second(head[p]), Third(head[p])}) = 3
      BY ZenonT(40), <3>1, <3>2
    <3>. QED BY ZenonT(40), <2>1, <3>3
  <2>3. ASSUME NEW p \in InFlight PROVE Chain(head[p]) \subseteq Descs
    <3>1. head[p] \in Descs /\ desc \in [Descs -> [next : Descs, more : BOOLEAN]]
      BY ZenonT(40), <2>0 DEF TypeOK, DiskTypeOK
    <3>2. Second(head[p]) \in Descs /\ Third(head[p]) \in Descs
      BY ZenonT(40), <3>1 DEF Second, Third
    <3>. QED BY ZenonT(40), <2>1, <3>1, <3>2
  <2>4. ASSUME NEW p \in InFlight PROVE Chain(head[p]) \cap free = {}
    BY ZenonT(40), <2>3 DEF Owned
  <2>5. \A p \in InFlight : \A q \in InFlight \ {p} : Chain(head[p]) \cap Chain(head[q]) = {}
    BY ZenonT(40) DEF Owned
  <2>6. free = Descs \ UNION {Chain(head[p]) : p \in InFlight}
    <3>1. free \subseteq Descs
      BY ZenonT(40) DEF TypeOK, DiskTypeOK
    <3>2. \A d : d \in UNION {Chain(head[p]) : p \in InFlight} <=> \E p \in InFlight : d \in Chain(head[p])
      BY Zenon
    <3>3. \A d \in Descs : d \in free <=> d \notin UNION {Chain(head[p]) : p \in InFlight}
      BY ZenonT(40), <3>2 DEF Owned
    <3>. QED BY ZenonT(40), <3>1, <3>3
  <2>. QED BY ZenonT(40), <2>1, <2>2, <2>4, <2>5, <2>6 DEF DescriptorsOwned
<1>. QED BY <1>1, Invariance, PTL

\* No wakeup of releasesleep(), free_desc() or virtio_disk_intr() is lost
\* (sleeplock.c:39, virtio_disk.c:181, :321).
THEOREM WakeupsNotLost == Spec => []SleepsForCause
<1>1. ASSUME IInv PROVE SleepsForCause
  <2>. USE <1>1, CacheAssumption DEF IInv
  <2>. SUFFICES ASSUME NEW p \in Procs
                PROVE  /\ chan[p] = <<cur[p], "lock">> => locked[cur[p]] \notin {None, p}
                       /\ chan[p] = FreeDescs => Cardinality(free) < 3
                       /\ used # << >> => irq \/ intr
                       /\ chan[p] = <<cur[p], "disk">> =>
                            /\ cur[p] \in busy
                            /\ head[p] \in avail \/ \E i \in DOMAIN used : used[i] = head[p]
    BY ZenonT(40) DEF SleepsForCause
  <2>0. chan[p] # Awake =>
          \/ chan[p] = <<cur[p], "lock">> /\ pc[p] = "lock" /\ locked[cur[p]] # None
          \/ chan[p] = <<cur[p], "disk">> /\ p \in InFlight /\ cur[p] \in busy
          \/ chan[p] = FreeDescs /\ pc[p] \in {"read", "use"} /\ Cardinality(free) < 3
    BY ZenonT(40) DEF Causes
  <2>a. /\ <<cur[p], "lock">> \notin {Awake, FreeDescs, <<cur[p], "disk">>}
        /\ <<cur[p], "disk">> \notin {Awake, FreeDescs} /\ FreeDescs # Awake
    BY ZenonT(40) DEF Awake, FreeDescs, None
  <2>1. ASSUME chan[p] = <<cur[p], "lock">> PROVE locked[cur[p]] \notin {None, p}
    <3>1. pc[p] = "lock" /\ locked[cur[p]] # None
      BY ZenonT(40), <2>0, <2>1, <2>a
    <3>2. cur[p] \in Bufs
      BY ZenonT(40), <3>1, HasBuffer
    <3>. QED BY ZenonT(40), <3>1, <3>2 DEF Holding, Locking
  <2>2. chan[p] = FreeDescs => Cardinality(free) < 3
    BY ZenonT(40), <2>0, <2>a
  <2>3. used # << >> => irq \/ intr
    BY ZenonT(40) DEF Causes
  <2>4. ASSUME chan[p] = <<cur[p], "disk">>
        PROVE  cur[p] \in busy /\ (head[p] \in avail \/ \E i \in DOMAIN used : used[i] = head[p])
    <3>1. p \in InFlight /\ cur[p] \in busy
      BY ZenonT(40), <2>0, <2>4, <2>a
    <3>2. head[p] \in avail \cup Posted
      BY ZenonT(40), <3>1 DEF Rings
    <3>. QED BY ZenonT(40), <3>1, <3>2 DEF Posted
  <2>. QED BY ZenonT(40), <2>1, <2>2, <2>3, <2>4
<1>. QED BY <1>1, Invariance, PTL

-----------------------------------------------------------------------------
(* The cache and the disk implement BlockStore.                            *)

Content == [k \in Blocks |-> IF CachedIn(k) = {} THEN platter[k]
                             ELSE data[CHOOSE b \in CachedIn(k) : TRUE]]
User == [k \in Blocks |-> IF CachedIn(k) = {} THEN None
                          ELSE locked[CHOOSE b \in CachedIn(k) : TRUE]]
Loose == {blockno[b] : b \in dirty}

\* Block k is read from the buffer that caches it, else from the disk.
Reads ==
  /\ Content = [k \in Blocks |-> Content[k]] /\ User = [k \in Blocks |-> User[k]]
  /\ \A k \in Blocks :
       /\ \A b \in valid : blockno[b] = k => Content[k] = data[b] /\ User[k] = locked[b]
       /\ (\A b \in valid : blockno[b] # k) => Content[k] = platter[k] /\ User[k] = None

\* The content and the user of a block are those of its valid buffer, or the disk's.
LEMMA ReadsCache == IInv => Reads
<1>. SUFFICES ASSUME TypeOK, OneBufferPerBlock, NEW k \in Blocks
              PROVE  /\ \A b \in valid : blockno[b] = k => Content[k] = data[b] /\ User[k] = locked[b]
                     /\ (\A b \in valid : blockno[b] # k) => Content[k] = platter[k] /\ User[k] = None
  <2>1. Content = [j \in Blocks |-> Content[j]] /\ User = [j \in Blocks |-> User[j]]
    BY DEF Content, User
  <2>. QED BY ZenonT(40), <2>1, Zenon DEF IInv, Reads
<1>0. valid \subseteq Bufs /\ k # None
  BY ZenonT(40), CacheAssumption DEF TypeOK
<1>1. ASSUME NEW b \in valid, blockno[b] = k
      PROVE  Content[k] = data[b] /\ User[k] = locked[b]
  <2>1. CachedIn(k) = {b}
    BY ZenonT(40), <1>0, <1>1 DEF CachedIn, OneBufferPerBlock
  <2>2. (CHOOSE c \in CachedIn(k) : TRUE) = b /\ CachedIn(k) # {}
    BY ZenonT(40), <2>1
  <2>. QED BY ZenonT(40), <2>2 DEF Content, User
<1>2. ASSUME \A b \in valid : blockno[b] # k
      PROVE  Content[k] = platter[k] /\ User[k] = None
  <2>1. CachedIn(k) = {}
    BY ZenonT(40), <1>2 DEF CachedIn
  <2>. QED BY ZenonT(40), <2>1 DEF Content, User
<1>. QED BY ZenonT(40), <1>1, <1>2

\* The same of the state after a step.
LEMMA ReadsCacheNext == IInv' => Reads'
BY ReadsCache, PTL

\* A fresh cache is a fresh store.
LEMMA RefinementInit == Init => Store!Init
<1>. SUFFICES ASSUME Init PROVE Store!Init
  BY ZenonT(40)
<1>1. \A k \in Blocks : CachedIn(k) = {}
  BY ZenonT(40) DEF Init, CachedIn
<1>2. platter \in [Blocks -> Vals]
  BY ZenonT(40) DEF Init, DiskInit
<1>3. Content \in [Blocks -> Vals] /\ User = [k \in Blocks |-> None]
  BY ZenonT(40), <1>1, <1>2 DEF Content, User
<1>4. Loose = {}
  BY ZenonT(40) DEF Init, Loose
<1>. QED BY ZenonT(40), <1>3, <1>4 DEF Store!Init, Content, User, Loose

\* Where no buffer and no block moves, neither does the store.
LEMMA StoreKept ==
  ASSUME Reads, Reads', UNCHANGED <<valid, blockno, data, locked, platter, dirty>>
  PROVE  UNCHANGED <<Content, User, Loose>>
<1>1. /\ Content = [j \in Blocks |-> Content[j]] /\ User = [j \in Blocks |-> User[j]]
      /\ Content' = [j \in Blocks |-> Content'[j]] /\ User' = [j \in Blocks |-> User'[j]]
  BY Zenon DEF Reads
<1>2. \A j \in Blocks : Content'[j] = Content[j] /\ User'[j] = User[j]
  BY SMTT(30) DEF Reads
<1>3. Loose' = Loose
  BY ZenonT(40) DEF Loose
<1>. QED BY ZenonT(40), <1>1, <1>2, <1>3

\* A step of the buffer of one block makes the changes nobody kept more or less
\* by that block at most.
LEMMA LooseSteps ==
  ASSUME TypeOK, Assigned, OneBufferPerBlock, NEW b \in valid
  PROVE  /\ dirty' = dirty \cup {b} /\ blockno' = blockno => Loose' = Loose \cup {blockno[b]}
         /\ /\ dirty' = dirty \ {b} /\ \A c \in dirty \ {b} : blockno'[c] = blockno[c]
            => Loose' = Loose \ {blockno[b]}
         /\ b \in dirty => blockno[b] \in Loose
<1>1. b \in Bufs /\ dirty \subseteq Bufs /\ \A c \in dirty : c # b => blockno[c] # blockno[b]
  BY ZenonT(40) DEF TypeOK, Assigned, OneBufferPerBlock
<1>2. ASSUME dirty' = dirty \cup {b}, blockno' = blockno PROVE Loose' = Loose \cup {blockno[b]}
  BY ZenonT(40), <1>2 DEF Loose
<1>3. ASSUME dirty' = dirty \ {b}, \A c \in dirty \ {b} : blockno'[c] = blockno[c]
      PROVE  Loose' = Loose \ {blockno[b]}
  BY ZenonT(40), <1>1, <1>3 DEF Loose
<1>4. b \in dirty => blockno[b] \in Loose
  BY ZenonT(40) DEF Loose
<1>. QED BY ZenonT(40), <1>2, <1>3, <1>4

\* What the caller of bread(), of the change, of bwrite() or log_write() and of
\* brelse() does to the store.
LEMMA StoreSteps ==
  ASSUME Reads, Reads', NEW p \in Procs, NEW k \in Blocks,
         \A j \in Blocks \ {k} : Content'[j] = Content[j] /\ User'[j] = User[j]
  PROVE  /\ /\ User[k] = None /\ User'[k] = p /\ Content'[k] = Content[k] /\ Loose' = Loose
            => Store!Take(p, k)
         /\ /\ User[k] = p /\ User'[k] = None /\ Content'[k] = Content[k] /\ Loose' = Loose
            => Store!Give(p, k)
         /\ /\ User[k] = p /\ User'[k] = p /\ Content'[k] = Content[k] /\ Loose' = Loose \ {k}
            => Store!Keep(p, k)
         /\ \A v : /\ User[k] = p /\ User'[k] = p /\ Content'[k] = v /\ Loose' = Loose \cup {k}
                  => Store!Put(p, k, v)
         /\ \A v : /\ User[k] = None /\ User'[k] = None /\ Content'[k] = v
                  /\ k \in Loose /\ Loose' = Loose \ {k}
                  => Store!Forget(k, v)
         /\ User'[k] = User[k] /\ Content'[k] = Content[k] => UNCHANGED <<Content, User>>
<1>0. /\ Content = [j \in Blocks |-> Content[j]] /\ User = [j \in Blocks |-> User[j]]
      /\ Content' = [j \in Blocks |-> Content'[j]] /\ User' = [j \in Blocks |-> User'[j]]
  BY Zenon DEF Reads
<1>1. Content'[k] = Content[k] => Content' = Content
  BY ZenonT(40), <1>0
<1>2. User'[k] = User[k] => User' = User
  BY ZenonT(40), <1>0
<1>3. User'[k] = p => User' = [User EXCEPT ![k] = p]
  BY ZenonT(40), <1>0
<1>4. User'[k] = None => User' = [User EXCEPT ![k] = None]
  BY ZenonT(40), <1>0
<1>5. \A v : Content'[k] = v => Content' = [Content EXCEPT ![k] = v]
  BY ZenonT(40), <1>0
<1>6. User[k] = None /\ User'[k] = p /\ Content'[k] = Content[k] /\ Loose' = Loose => Store!Take(p, k)
  BY ZenonT(40), <1>1, <1>3 DEF Store!Take, Content, User, Loose
<1>7. User[k] = p /\ User'[k] = None /\ Content'[k] = Content[k] /\ Loose' = Loose => Store!Give(p, k)
  BY ZenonT(40), <1>1, <1>4 DEF Store!Give, Content, User, Loose
<1>8. User[k] = p /\ User'[k] = p /\ Content'[k] = Content[k] /\ Loose' = Loose \ {k} => Store!Keep(p, k)
  BY ZenonT(40), <1>1, <1>2 DEF Store!Keep, Content, User, Loose
<1>9. \A v : User[k] = p /\ User'[k] = p /\ Content'[k] = v /\ Loose' = Loose \cup {k} => Store!Put(p, k, v)
  BY ZenonT(40), <1>2, <1>5 DEF Store!Put, Content, User, Loose
<1>10. \A v : User[k] = None /\ User'[k] = None /\ Content'[k] = v /\ k \in Loose /\ Loose' = Loose \ {k}
               => Store!Forget(k, v)
  BY ZenonT(40), <1>2, <1>5 DEF Store!Forget, Content, User, Loose
<1>. QED BY ZenonT(40), <1>1, <1>2, <1>6, <1>7, <1>8, <1>9, <1>10

\* The change of a block is kept by its user ...
LEMMA StoreKeeps ==
  ASSUME Reads, Reads', NEW p \in Procs, NEW k \in Blocks, User[k] = p, Loose' = Loose \ {k},
         \A j \in Blocks : Content'[j] = Content[j] /\ User'[j] = User[j]
  PROVE  Store!Next
<1>1. \A j \in Blocks \ {k} : Content'[j] = Content[j] /\ User'[j] = User[j]
  BY Zenon
<1>2. User'[k] = p /\ Content'[k] = Content[k]
  BY Zenon
<1>3. Store!Keep(p, k)
  BY ZenonT(40), <1>1, <1>2, StoreSteps
<1>. QED BY ZenonT(40), <1>3 DEF Store!Next

\* ... or lost, once it has been given back.
LEMMA StoreForgets ==
  ASSUME Reads, Reads', NEW p \in Procs, NEW k \in Blocks, NEW v \in Vals,
         User[k] = None, User'[k] = None, Content'[k] = v, k \in Loose, Loose' = Loose \ {k},
         \A j \in Blocks \ {k} : Content'[j] = Content[j] /\ User'[j] = User[j]
  PROVE  Store!Next
<1>1. Store!Forget(k, v)
  BY ZenonT(40), StoreSteps
<1>. QED BY ZenonT(40), <1>1 DEF Store!Next

\* Every step of the cache and the disk is a step of the store or leaves it
\* alone: the store moves when bread() returns, when the caller changes the
\* block, when the change is written or pinned, when brelse() gives the block
\* back and when a buffer is recycled whose change nobody kept; recycling any
\* other buffer and moving buffers to and from the disk do not show.
LEMMA RefinementNext == IInv /\ IInv' /\ [Next]_vars => [Store!Next]_<<Content, User, Loose>>
<1>. SUFFICES ASSUME TypeOK, Holding, Assigned, OneBufferPerBlock, Rings, Coherent, Reads,
     Reads', RefsCounted, Requests, [Next]_vars PROVE [Store!Next]_<<Content, User, Loose>>
  BY ZenonT(40), ReadsCache, ReadsCacheNext DEF IInv
<1>a. ASSUME UNCHANGED <<valid, blockno, data, locked, platter, dirty>> PROVE [Store!Next]_<<Content, User, Loose>>
  BY ZenonT(40), <1>a, StoreKept
<1>. SUFFICES ASSUME ~panicked, Next PROVE [Store!Next]_<<Content, User, Loose>>
  BY ZenonT(40), <1>a DEF Next, vars
<1>0. /\ pc \in [Procs -> Places] /\ cur \in [Procs -> Bufs \cup {None}] /\ valid \subseteq Bufs
      /\ data \in [Bufs -> Vals] /\ platter \in [Blocks -> Vals] /\ dirty \subseteq Bufs
      /\ blockno \in [Bufs -> Blocks \cup {None}] /\ locked \in [Bufs -> Procs \cup {None}]
  BY ZenonT(40) DEF TypeOK, DiskTypeOK
<1>. USE <1>0, CacheAssumption DEF diskVars, cacheVars, At, Goto
<1>1. ASSUME NEW p \in Procs, NEW k \in Blocks, NEW b \in Bufs, Recycles(p, b, k)
      PROVE  [Store!Next]_<<Content, User, Loose>>
  <2>1. /\ valid' = valid \ {b} /\ blockno' = [blockno EXCEPT ![b] = k] /\ dirty' = dirty \ {b}
        /\ UNCHANGED <<data, locked, platter>>
    BY ZenonT(40), <1>1 DEF Recycles
  <2>2. /\ \A c \in valid : blockno[c] # k
        /\ \A c \in valid' \cup (dirty \ {b}) : c # b /\ blockno'[c] = blockno[c]
    BY ZenonT(40), <1>1, <2>1 DEF Recycles, Cached
  <2>3. b \in valid => locked[b] = None /\ blockno[b] \in Blocks
    BY SMTT(30), <1>1 DEF Recycles, Holding, Assigned
  <2>4. b \in valid /\ b \notin dirty => data[b] = platter[blockno[b]]
    BY ZenonT(40), <1>1 DEF Recycles, Coherent
  <2>5. ASSUME NEW j \in Blocks, ~(b \in dirty /\ j = blockno[b])
        PROVE  Content'[j] = Content[j] /\ User'[j] = User[j]
    <3>1. CASE \E c \in valid' : blockno[c] = j
      BY SMTT(30), <2>1, <2>2, <3>1 DEF Reads
    <3>2. CASE (\A c \in valid' : blockno[c] # j) /\ b \in valid /\ blockno[b] = j
      BY SMTT(30), <2>1, <2>2, <2>3, <2>4, <2>5, <3>2 DEF Reads
    <3>3. CASE \A c \in valid : blockno[c] # j
      BY SMTT(30), <2>1, <2>2, <3>3 DEF Reads
    <3>. QED BY ZenonT(40), <2>1, <3>1, <3>2, <3>3
  <2>6. CASE b \in dirty
    <3>. DEFINE m == blockno[b]
    <3>1. b \in valid /\ m \in Blocks /\ locked[b] = None
      BY ZenonT(40), <2>3, <2>6 DEF Assigned
    <3>2. m \in Loose /\ Loose' = Loose \ {m}
      BY ZenonT(40), <2>1, <2>2, <2>6, <3>1, LooseSteps
    <3>3. \A c \in valid' : blockno'[c] # m
      BY ZenonT(40), <2>1, <2>2, <3>1 DEF OneBufferPerBlock
    <3>4. User[m] = None /\ User'[m] = None /\ Content'[m] = platter[m]
      BY SMTT(30), <2>1, <3>1, <3>3 DEF Reads
    <3>5. \A j \in Blocks \ {m} : Content'[j] = Content[j] /\ User'[j] = User[j]
      BY ZenonT(40), <2>5
    <3>. HIDE DEF m
    <3>6. platter[m] \in Vals
      BY ZenonT(40), <3>1
    <3>. QED BY ZenonT(40), <3>1, <3>2, <3>4, <3>5, <3>6, StoreForgets
  <2>7. CASE b \notin dirty
    <3>0. dirty' = dirty /\ \A c \in dirty : blockno'[c] = blockno[c]
      BY ZenonT(40), <2>1, <2>2, <2>7
    <3>1. Loose' = Loose
      BY ZenonT(40), <3>0 DEF Loose
    <3>2. UNCHANGED <<Content, User>>
      BY ZenonT(40), <2>5, <2>7, StoreSteps
    <3>. QED BY ZenonT(40), <3>1, <3>2
  <2>. QED BY ZenonT(40), <2>6, <2>7
<1>2. ASSUME NEW p \in Procs, acquiresleep(p)
      PROVE  [Store!Next]_<<Content, User, Loose>>
  <2>0. cur[p] \in Bufs /\ blockno[cur[p]] \in Blocks
    BY ZenonT(40), <1>2, HasBuffer DEF acquiresleep
  <2>. DEFINE k == blockno[cur[p]]
  <2>1. CASE locked[cur[p]] # None
    <3>1. UNCHANGED <<valid, blockno, data, locked, platter, dirty>>
      BY ZenonT(40), <1>2, <2>1 DEF acquiresleep
    <3>. QED BY ZenonT(40), <1>a, <3>1
  <2>2. CASE locked[cur[p]] = None
    <3>1. locked' = [locked EXCEPT ![cur[p]] = p] /\ UNCHANGED <<valid, blockno, data, platter>>
      BY ZenonT(40), <1>2, <2>2 DEF acquiresleep
    <3>0. Loose' = Loose
      BY ZenonT(40), <1>2 DEF acquiresleep, Loose
    <3>2. locked'[cur[p]] = p /\ \A b \in Bufs : b # cur[p] => locked'[b] = locked[b]
      BY ZenonT(40), <2>0, <3>1
    <3>3. \A b \in valid : b # cur[p] => blockno[b] # k
      BY ZenonT(40), <2>0 DEF OneBufferPerBlock
    <3>4. ASSUME NEW j \in Blocks, j # k PROVE Content'[j] = Content[j] /\ User'[j] = User[j]
      BY SMTT(30), <3>1, <3>2, <3>4 DEF Reads
    <3>5. CASE cur[p] \in valid
      <4>0. k \in Blocks /\ cur[p] \in Bufs /\ blockno[cur[p]] = k /\ valid' = valid
            /\ blockno' = blockno /\ data' = data /\ platter' = platter
        BY ZenonT(40), <2>0, <3>1
      <4>. HIDE DEF k
      <4>a. User[k] = None
        BY SMTT(30), <2>2, <3>5, <4>0 DEF Reads
      <4>b. User'[k] = p
        BY SMTT(30), <3>2, <3>5, <4>0 DEF Reads
      <4>c. Content'[k] = Content[k]
        BY SMTT(30), <4>0 DEF Reads
      <4>1. User[k] = None /\ User'[k] = p /\ Content'[k] = Content[k]
        BY SMTT(30), <4>a, <4>b, <4>c
      <4>2. Store!Take(p, k)
        BY SMTT(30), <3>0, <4>0, <3>4, <4>1, StoreSteps
      <4>. QED BY ZenonT(40), <4>0, <4>2 DEF Store!Next
    <3>6. CASE cur[p] \notin valid
      <4>1. User'[k] = User[k] /\ Content'[k] = Content[k]
        BY SMTT(30), <2>0, <3>1, <3>3, <3>6 DEF Reads
      <4>. QED BY ZenonT(40), <2>0, <3>0, <3>4, <4>1, StoreSteps
    <3>. QED BY ZenonT(40), <3>5, <3>6
  <2>. QED BY ZenonT(40), <2>1, <2>2
\* The holder's change is written or pinned.
<1>k. ASSUME NEW p \in Procs, pc[p] \in {"use", "writing"}, dirty' = dirty \ {cur[p]},
             UNCHANGED <<valid, blockno, data, locked, platter>>
      PROVE  [Store!Next]_<<Content, User, Loose>>
  <2>. DEFINE k == blockno[cur[p]]
  <2>0. cur[p] \in Bufs /\ k \in Blocks
    BY ZenonT(40), <1>k, HasBuffer
  <2>1. locked[cur[p]] = p /\ cur[p] \in valid
    BY ZenonT(40), <1>k DEF Holding, Locking
  <2>2. Loose' = Loose \ {k}
    BY ZenonT(40), <1>k, <2>1, LooseSteps
  <2>3. \A j \in Blocks : Content'[j] = Content[j] /\ User'[j] = User[j]
    BY SMTT(30), <1>k DEF Reads
  <2>4. User[k] = p
    BY ZenonT(40), <2>0, <2>1 DEF Reads
  <2>. HIDE DEF k
  <2>. QED BY ZenonT(40), <2>0, <2>2, <2>3, <2>4, StoreKeeps
<1>3. ASSUME NEW p \in Procs, ReadDone(p) \/ WriteDone(p)
      PROVE  [Store!Next]_<<Content, User, Loose>>
  <2>1. CASE ReadDone(p)
    <3>0. cur[p] \in Bufs /\ blockno[cur[p]] \in Blocks
      BY ZenonT(40), <2>1, HasBuffer DEF ReadDone, EndRw
    <3>. DEFINE k == blockno[cur[p]]
    <3>1. valid' = valid \cup {cur[p]} /\ UNCHANGED <<locked, blockno, data, platter>>
      BY ZenonT(40), <2>1 DEF ReadDone, EndRw, FreeChain
    <3>2. locked[cur[p]] = p /\ cur[p] \notin valid
      BY ZenonT(40), <2>1 DEF ReadDone, EndRw, Holding, Locking
    <3>3. data[cur[p]] = platter[k]
      <4>1. p \in InFlight /\ cur[p] \notin busy
        BY ZenonT(40), <2>1 DEF ReadDone, EndRw, InFlight
      <4>2. head[p] \notin avail
        BY ZenonT(40), <4>1 DEF Rings
      <4>. QED BY ZenonT(40), <4>1, <4>2 DEF Coherent
    <3>4. \A b \in valid : blockno[b] # k
      BY ZenonT(40), <3>0, <3>2 DEF OneBufferPerBlock
    <3>5. ASSUME NEW j \in Blocks, j # k PROVE Content'[j] = Content[j] /\ User'[j] = User[j]
      BY SMTT(30), <3>1, <3>5 DEF Reads
    <3>6. User[k] = None /\ User'[k] = p /\ Content'[k] = Content[k]
      BY SMTT(30), <3>0, <3>1, <3>2, <3>3, <3>4 DEF Reads
    <3>8. Loose' = Loose
      BY ZenonT(40), <2>1 DEF ReadDone, EndRw, Loose
    <3>7. Store!Take(p, k)
      BY ZenonT(40), <3>0, <3>5, <3>6, <3>8, StoreSteps
    <3>. QED BY ZenonT(40), <3>0, <3>7 DEF Store!Next
  <2>2. CASE WriteDone(p)
    BY ZenonT(40), <1>k, <2>2 DEF WriteDone, EndRw, FreeChain
  <2>. QED BY ZenonT(40), <1>3, <2>1, <2>2
<1>4. ASSUME NEW p \in Procs, releasesleep(p)
      PROVE  [Store!Next]_<<Content, User, Loose>>
  <2>0. cur[p] \in Bufs /\ blockno[cur[p]] \in Blocks
    BY ZenonT(40), <1>4, HasBuffer DEF releasesleep
  <2>. DEFINE k == blockno[cur[p]]
  <2>1. locked' = [locked EXCEPT ![cur[p]] = None] /\ UNCHANGED <<valid, blockno, data, platter>>
    BY ZenonT(40), <1>4 DEF releasesleep
  <2>2. locked[cur[p]] = p /\ cur[p] \in valid
    BY ZenonT(40), <1>4 DEF releasesleep, Holding, Locking
  <2>3. locked'[cur[p]] = None /\ \A b \in Bufs : b # cur[p] => locked'[b] = locked[b]
    BY ZenonT(40), <2>0, <2>1
  <2>4. ASSUME NEW j \in Blocks, j # k PROVE Content'[j] = Content[j] /\ User'[j] = User[j]
    BY SMTT(30), <2>1, <2>3, <2>4 DEF Reads
  <2>5. User[k] = p /\ User'[k] = None /\ Content'[k] = Content[k]
    BY SMTT(30), <2>0, <2>1, <2>2, <2>3 DEF Reads
  <2>7. Loose' = Loose
    BY ZenonT(40), <1>4 DEF releasesleep, Loose
  <2>6. Store!Give(p, k)
    BY ZenonT(40), <2>0, <2>4, <2>5, <2>7, StoreSteps
  <2>. QED BY ZenonT(40), <2>0, <2>6 DEF Store!Next
<1>5. ASSUME NEW p \in Procs, NEW v \in Vals, Modify(p, v)
      PROVE  [Store!Next]_<<Content, User, Loose>>
  <2>0. cur[p] \in Bufs /\ blockno[cur[p]] \in Blocks
    BY ZenonT(40), <1>5, HasBuffer DEF Modify
  <2>. DEFINE k == blockno[cur[p]]
  <2>1. data' = [data EXCEPT ![cur[p]] = v] /\ UNCHANGED <<valid, blockno, locked, platter>>
    BY ZenonT(40), <1>5 DEF Modify
  <2>2. locked[cur[p]] = p /\ cur[p] \in valid
    BY ZenonT(40), <1>5 DEF Modify, Holding, Locking
  <2>3. data'[cur[p]] = v /\ \A b \in Bufs : b # cur[p] => data'[b] = data[b]
    BY ZenonT(40), <2>0, <2>1
  <2>4. ASSUME NEW j \in Blocks, j # k PROVE Content'[j] = Content[j] /\ User'[j] = User[j]
    BY SMTT(30), <2>1, <2>3, <2>4 DEF Reads
  <2>5. User[k] = p /\ User'[k] = p /\ Content'[k] = v
    BY SMTT(30), <2>0, <2>1, <2>2, <2>3 DEF Reads
  <2>7. Loose' = Loose \cup {k}
    <3>1. dirty' = dirty \cup {cur[p]} /\ blockno' = blockno
      BY ZenonT(40), <1>5 DEF Modify
    <3>. QED BY ZenonT(40), <2>2, <3>1, LooseSteps
  <2>6. Store!Put(p, k, v)
    BY ZenonT(40), <2>0, <2>4, <2>5, <2>7, StoreSteps
  <2>. QED BY ZenonT(40), <2>0, <2>6 DEF Store!Next
<1>6. ASSUME NEW p \in Procs, Serves(p)
      PROVE  [Store!Next]_<<Content, User, Loose>>
  <2>0. cur[p] \in Bufs /\ blockno[cur[p]] \in Blocks
    BY ZenonT(40), <1>6, HasBuffer DEF Serves, InFlight
  <2>. DEFINE k == blockno[cur[p]]
  <2>1. UNCHANGED <<valid, blockno, locked>>
    BY ZenonT(40), <1>6 DEF Serves
  <2>4. Loose' = Loose
    <3>1. dirty' = dirty /\ blockno' = blockno
      BY ZenonT(40), <1>6 DEF Serves
    <3>. QED BY ZenonT(40), <3>1 DEF Loose
  <2>2. CASE pc[p] = "writing"
    <3>1. data' = data /\ platter' = [platter EXCEPT ![k] = data[cur[p]]] /\ cur[p] \in valid
      BY SMTT(30), <1>6, <2>2 DEF Serves, Holding
    <3>2. \A j \in Blocks : j # k => platter'[j] = platter[j]
      BY ZenonT(40), <2>0, <3>1
    <3>3. ASSUME NEW j \in Blocks PROVE Content'[j] = Content[j] /\ User'[j] = User[j]
      BY SMTT(30), <2>0, <2>1, <3>1, <3>2 DEF Reads
    <3>. QED BY ZenonT(40), <2>0, <2>4, <3>3, StoreSteps
  <2>3. CASE pc[p] # "writing"
    <3>1. platter' = platter /\ data' = [data EXCEPT ![cur[p]] = platter[k]] /\ cur[p] \notin valid
      BY ZenonT(40), <1>6, <2>3 DEF Serves, Holding, InFlight
    <3>2. \A b \in valid : data'[b] = data[b]
      BY ZenonT(40), <2>0, <3>1
    <3>3. ASSUME NEW j \in Blocks PROVE Content'[j] = Content[j] /\ User'[j] = User[j]
      BY SMTT(30), <2>0, <2>1, <3>1, <3>2 DEF Reads
    <3>. QED BY ZenonT(40), <2>0, <2>4, <3>3, StoreSteps
  <2>. QED BY ZenonT(40), <2>2, <2>3
<1>7. ASSUME NEW p \in Procs, NEW w \in BOOLEAN,
             NEW i \in Descs, NEW j \in Descs, NEW k \in Descs, Starts(p, w, i, j, k)
      PROVE  UNCHANGED <<valid, blockno, data, locked, platter, dirty>>
  BY ZenonT(40), <1>7 DEF Starts, Submit
<1>8. ASSUME \/ Panics
             \/ \E p \in Procs : \/ NoDescs(p) \/ SleepsAgain(p) \/ kkill(p)
                                 \/ \E k \in Blocks, b \in Bufs : Hits(p, b, k)
      PROVE  UNCHANGED <<valid, blockno, data, locked, platter, dirty>>
  BY ZenonT(40), <1>8 DEF Hits, Panics, NoDescs, SleepsAgain, kkill
<1>9. ASSUME \E p \in Procs : bunpin(p) \/ brelse(p) \/ Takes(p)
      PROVE  UNCHANGED <<valid, blockno, data, locked, platter, dirty>>
  BY ZenonT(40), <1>9 DEF bunpin, brelse, Takes
<1>11. ASSUME NEW p \in Procs, bpin(p)
      PROVE  [Store!Next]_<<Content, User, Loose>>
  BY ZenonT(40), <1>11, <1>k DEF bpin
<1>10. ASSUME Acks
      PROVE  UNCHANGED <<valid, blockno, data, locked, platter, dirty>>
  BY ZenonT(40), <1>10 DEF Acks, IntrAck, IntrDone
<1>. HIDE DEF diskVars, cacheVars, At, Goto
<1>. QED BY ZenonT(90), <1>a, <1>1, <1>2, <1>3, <1>4, <1>5, <1>6, <1>7, <1>8, <1>9, <1>10, <1>11, StepCases

\* The buffer cache over the disk implements a store of blocks (BlockStore):
\* bread() returns what was last put in the block, to one caller at a time,
\* for any number of buffers, descriptors, blocks and processes; a change that
\* was written or handed to the log is never lost.
THEOREM CacheIsStore == Spec => IsBlockStore
<1>. QED
  BY RefinementInit, RefinementNext, Invariance, PTL DEF Spec, IsBlockStore, Store!Spec, Content,
       User, Loose
=============================================================================
