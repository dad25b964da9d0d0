------------------------------ MODULE BufCache ------------------------------
(***************************************************************************)
(* kernel/bio.c over kernel/sleeplock.c and the disk of VirtioDisk.tla.    *)
(* Processes read a block, may change it, then write it through (bwrite)   *)
(* or pin it for the log (log_write: bpin) before brelse(); writei() does  *)
(* neither when either_copyin() fails halfway.  A step is what happens     *)
(* under one hold of a spinlock.  The order of the bcache list only        *)
(* decides which unused buffer bget() recycles: here it may be any.        *)
(***************************************************************************)
EXTENDS VirtioDisk

CONSTANTS Procs,
          MaxPins,    \* bound: buffers the log pins at a time (LOGBLOCKS)
          Written     \* bound: the blocks that processes change

ASSUME CacheAssumption ==
  /\ MaxPins \in Nat /\ Written \subseteq Blocks
  /\ IsFiniteSet(Procs) /\ None \notin Procs \cup Bufs \cup Blocks

VARIABLES valid, refcnt,     \* of each struct buf
          locked,            \* the holder of each buffer's sleep lock
          pinned,            \* the buffers in the log's header
          pc, cur, head,     \* of each process: place, its buf, its idx[0]
          chan,              \* what it sleeps on
          dirty,             \* the buffers with a change neither written nor pinned
          panicked           \* bget() found no buffer
cacheVars == <<valid, refcnt, pinned>>
vars == <<free, desc, info, avail, used, irq, intr, platter, blockno, data,
          busy, valid, refcnt, locked, pinned, pc, cur, head, chan, dirty,
          panicked>>

Places == {"idle", "lock", "read", "reading", "use", "writing", "brelse"}
Awake == <<None, None>>
FreeDescs == <<None, "free">>     \* &disk.free[0]
Chans == {Awake, FreeDescs} \cup (Bufs \X {"lock", "disk"})

TypeOK ==
  /\ DiskTypeOK
  /\ blockno \in [Bufs -> Blocks \cup {None}] /\ data \in [Bufs -> Vals]
  /\ valid \subseteq Bufs
  /\ refcnt \in [Bufs -> Nat]
  /\ locked \in [Bufs -> Procs \cup {None}]
  /\ pinned \subseteq Bufs
  /\ pc \in [Procs -> Places]
  /\ cur \in [Procs -> Bufs \cup {None}]
  /\ head \in [Procs -> Descs]
  /\ chan \in [Procs -> Chans]
  /\ dirty \subseteq Bufs
  /\ panicked \in BOOLEAN

\* binit(), on a disk that holds anything.
Init ==
  /\ DiskInit
  /\ blockno = [b \in Bufs |-> None]
  /\ \E v \in Vals : data = [b \in Bufs |-> v]
  /\ valid = {} /\ pinned = {} /\ dirty = {}
  /\ refcnt = [b \in Bufs |-> 0]
  /\ locked = [b \in Bufs |-> None]
  /\ pc = [p \in Procs |-> "idle"]
  /\ cur = [p \in Procs |-> None]
  /\ head = [p \in Procs |-> 0]
  /\ chan = [p \in Procs |-> Awake]
  /\ panicked = FALSE

-----------------------------------------------------------------------------
At(p, place) == pc[p] = place /\ chan[p] = Awake
Goto(p, place) == pc' = [pc EXCEPT ![p] = place]
Woken(c) == [p \in Procs |-> IF chan[p] = c THEN Awake ELSE chan[p]]

\* The buffer of block k, if there is one, whether or not it was read yet.
\* Mutant of Cached: buffers that are still being read are not looked at.
CachedValid(k) == {b \in valid : blockno[b] = k}
Cached(k) == {b \in Bufs : blockno[b] = k}

\* One reference more.  Mutant of Referenced: a hit is not counted.
ReferencedMiss(b, k) == IF blockno[b] = k THEN refcnt ELSE [refcnt EXCEPT ![b] = @ + 1]
Referenced(b, k) == [refcnt EXCEPT ![b] = @ + 1]

\* b->valid = 0 for a recycled buffer.  Mutant of StillValid: it is forgotten.
StillValidAll(b, k) == valid
StillValid(b, k) == IF blockno[b] = k THEN valid ELSE valid \ {b}

\* bget() on block k, under bcache.lock: the buffer that caches k, or else one
\* that nobody holds.
bget(p, k) ==
  /\ At(p, "idle")
  /\ LET unused == {b \in Bufs : refcnt[b] = 0}
     IN  \/ \E b \in IF Cached(k) # {} THEN Cached(k) ELSE unused :
              /\ blockno' = [blockno EXCEPT ![b] = k]
              /\ valid' = StillValid(b, k)
              /\ refcnt' = Referenced(b, k)
              /\ dirty' = IF blockno[b] = k THEN dirty ELSE dirty \ {b}
              /\ cur' = [cur EXCEPT ![p] = b]
              /\ Goto(p, "lock")
              /\ UNCHANGED panicked
         \/ /\ Cached(k) \cup unused = {}
            /\ panicked' = TRUE
            /\ UNCHANGED <<blockno, valid, refcnt, dirty, cur, pc>>
  /\ UNCHANGED <<diskVars, data, locked, pinned, head, chan>>

\* acquiresleep(), and then bread() looks at b->valid.
acquiresleep(p) ==
  LET b == cur[p]
  IN  /\ At(p, "lock")
      /\ IF locked[b] = None
           THEN /\ locked' = [locked EXCEPT ![b] = p]
                /\ Goto(p, IF b \in valid THEN "use" ELSE "read")
                /\ UNCHANGED chan
           ELSE /\ chan' = [chan EXCEPT ![p] = <<b, "lock">>]
                /\ UNCHANGED <<locked, pc>>
      /\ UNCHANGED <<diskVars, blockno, data, cacheVars, cur, head, dirty, panicked>>

\* virtio_disk_rw(), under vdisk_lock: hand the request to the device and
\* sleep on the buffer; or, without three free descriptors, sleep on free[0].
\* alloc3_desc() gives back the one or two it took, which wakes the others.
StartRw(p, place, write, next) ==
  /\ At(p, place) /\ ~intr
  /\ IF Cardinality(free) >= 3
       THEN LET idx == alloc3_desc
            IN  /\ Submit(cur[p], write, idx)
                /\ head' = [head EXCEPT ![p] = idx[1]]
                /\ chan' = [chan EXCEPT ![p] = <<cur[p], "disk">>]
                /\ Goto(p, next)
       ELSE /\ chan' = [q \in Procs |->
                          IF q = p THEN FreeDescs
                          ELSE IF chan[q] = FreeDescs /\ free # {} THEN Awake ELSE chan[q]]
            /\ UNCHANGED <<diskVars, head, pc>>
  /\ UNCHANGED <<blockno, data, cacheVars, locked, cur, dirty, panicked>>

\* ... woken: sleep again if b->disk is still set, else give the chain back.
EndRw(p, place) ==
  /\ At(p, place) /\ ~intr
  /\ cur[p] \notin busy
  /\ FreeChain(head[p])
  /\ chan' = Woken(FreeDescs)
  /\ head' = [head EXCEPT ![p] = 0]
  /\ Goto(p, "use")
  /\ UNCHANGED <<blockno, data, refcnt, pinned, locked, cur, panicked>>

SleepsAgain(p) ==
  /\ At(p, "reading") \/ At(p, "writing")
  /\ ~intr /\ cur[p] \in busy
  /\ chan' = [chan EXCEPT ![p] = <<cur[p], "disk">>]
  /\ UNCHANGED <<diskVars, blockno, data, cacheVars, locked, pc, cur, head, dirty, panicked>>

\* kkill() makes a sleeper runnable whatever it sleeps for; none of the three
\* loops of bio.c's callees looks at killed, so each of them tests again.
kkill(p) ==
  /\ chan[p] # Awake
  /\ chan' = [chan EXCEPT ![p] = Awake]
  /\ UNCHANGED <<diskVars, blockno, data, cacheVars, locked, pc, cur, head, dirty, panicked>>

\* bread(): if(!b->valid) virtio_disk_rw(b, 0), valid = 1.
ReadBlock(p) == StartRw(p, "read", FALSE, "reading")
ReadDone(p) ==
  EndRw(p, "reading") /\ valid' = valid \cup {cur[p]} /\ UNCHANGED dirty

\* The holder changes b->data ...
Modify(p, v) ==
  /\ At(p, "use") /\ blockno[cur[p]] \in Written
  /\ data' = [data EXCEPT ![cur[p]] = v]
  /\ dirty' = dirty \cup {cur[p]}
  /\ UNCHANGED <<diskVars, blockno, cacheVars, locked, pc, cur, head, chan, panicked>>

\* ... and writes it through: bwrite() is virtio_disk_rw(b, 1) ...
bwrite(p) ==
  /\ pc[p] = "use" /\ cur[p] \in dirty \cup pinned
  /\ StartRw(p, "use", TRUE, "writing")
WriteDone(p) ==
  EndRw(p, "writing") /\ dirty' = dirty \ {cur[p]} /\ UNCHANGED valid

\* ... or leaves it to the log: log_write() pins a block it does not have yet.
bpin(p) ==
  LET b == cur[p]
  IN  /\ At(p, "use") /\ b \in dirty
      /\ b \in pinned \/ Cardinality(pinned) < MaxPins
      /\ pinned' = pinned \cup {b}
      /\ refcnt' = IF b \in pinned THEN refcnt ELSE [refcnt EXCEPT ![b] = @ + 1]
      /\ dirty' = dirty \ {b}
      /\ UNCHANGED <<diskVars, blockno, data, valid, locked, pc, cur, head, chan,
                     panicked>>

\* install_trans() after its bwrite(): the block is on disk.
bunpin(p) ==
  LET b == cur[p]
  IN  /\ At(p, "use") /\ b \notin dirty
      /\ b \in pinned /\ data[b] = platter[blockno[b]]
      /\ pinned' = pinned \ {b}
      /\ refcnt' = [refcnt EXCEPT ![b] = @ - 1]
      /\ UNCHANGED <<diskVars, blockno, data, valid, locked, pc, cur, head, chan,
                     dirty, panicked>>

\* Mutant of releasesleep: nobody is woken.
releasesleepNoWakeup(p) ==
  /\ At(p, "use")
  /\ locked' = [locked EXCEPT ![cur[p]] = None]
  /\ Goto(p, "brelse")
  /\ UNCHANGED <<diskVars, blockno, data, cacheVars, cur, head, chan, dirty, panicked>>

\* brelse(): releasesleep(), whatever became of the change ...
releasesleep(p) ==
  /\ At(p, "use")
  /\ locked' = [locked EXCEPT ![cur[p]] = None]
  /\ chan' = Woken(<<cur[p], "lock">>)
  /\ Goto(p, "brelse")
  /\ UNCHANGED <<diskVars, blockno, data, cacheVars, cur, head, dirty, panicked>>

\* Mutant of brelse: one reference too many is given back.
brelseTwo(p) ==
  LET b == cur[p]
  IN  /\ At(p, "brelse")
      /\ refcnt' = [refcnt EXCEPT ![b] = @ - 2]
      /\ cur' = [cur EXCEPT ![p] = None]
      /\ Goto(p, "idle")
      /\ UNCHANGED <<diskVars, blockno, data, valid, pinned, locked, head, chan, dirty,
                     panicked>>

\* ... then, under bcache.lock, one reference less.
brelse(p) ==
  LET b == cur[p]
  IN  /\ At(p, "brelse")
      /\ refcnt' = [refcnt EXCEPT ![b] = @ - 1]
      /\ cur' = [cur EXCEPT ![p] = None]
      /\ Goto(p, "idle")
      /\ UNCHANGED <<diskVars, blockno, data, valid, pinned, locked, head, chan, dirty,
                     panicked>>

\* The device and its interrupt, which wakes the sleeper of the buffer.
Device == DeviceServes /\ UNCHANGED <<cacheVars, locked, pc, cur, head, chan, dirty, panicked>>
virtio_disk_intr ==
  /\ \/ IntrAck /\ UNCHANGED chan
     \/ IntrTake /\ chan' = Woken(<<info[Head(used)].b, "disk">>)
     \/ IntrDone /\ UNCHANGED chan
  /\ UNCHANGED <<blockno, data, cacheVars, locked, pc, cur, head, dirty, panicked>>

Step(p) ==
  \/ acquiresleep(p) \/ ReadBlock(p) \/ ReadDone(p) \/ WriteDone(p) \/ SleepsAgain(p)
  \/ bwrite(p) \/ bpin(p) \/ releasesleep(p) \/ brelse(p)

Next ==
  \/ /\ ~panicked
     /\ \/ \E p \in Procs : \/ \E k \in Blocks : bget(p, k)
                            \/ \E v \in Vals : Modify(p, v)
                            \/ bunpin(p) \/ kkill(p)
                            \/ Step(p)
        \/ Device \/ virtio_disk_intr
  \/ panicked /\ UNCHANGED vars      \* panic() spins for ever

Spec == Init /\ [][Next]_vars

-----------------------------------------------------------------------------
InFlight == {p \in Procs : pc[p] \in {"reading", "writing"}}

\* A buffer's count is the processes that use or wait for it, plus one if the
\* log pins it: no bread(), brelse(), bpin() or bunpin() loses or leaks a
\* reference, so bget() panics only when every buffer is really held.
RefsCounted ==
  /\ \A b \in Bufs : refcnt[b] = Cardinality({p \in Procs : cur[p] = b})
                                  + (IF b \in pinned THEN 1 ELSE 0)
  /\ panicked => \A b \in Bufs : b \in pinned \/ \E p \in Procs : cur[p] = b

\* Two buffers never cache the same block: bget() looks and takes under one
\* hold of bcache.lock, and no reference is lost between them.
OneBufferPerBlock ==
  \A b, c \in Bufs : b # c /\ blockno[b] = blockno[c] => blockno[b] = None

\* A descriptor is free or belongs to the chain of exactly one request, whose
\* head leads back to the buffer it moves ("free_desc 2", info[id].b).
DescriptorsOwned ==
  /\ \A p \in InFlight :
       /\ Cardinality(Chain(head[p])) = 3 /\ Chain(head[p]) \cap free = {}
       /\ info[head[p]].b = cur[p]
       /\ \A q \in InFlight \ {p} : Chain(head[p]) \cap Chain(head[q]) = {}
  /\ free = Descs \ UNION {Chain(head[p]) : p \in InFlight}

\* No wakeup is lost: whoever sleeps on a buffer's lock, on free[0] or on a
\* transfer sleeps for something that has yet to happen.
SleepsForCause ==
  \A p \in Procs :
    LET b == cur[p]
    IN  /\ chan[p] = <<b, "lock">> => locked[b] \notin {None, p}
        /\ chan[p] = FreeDescs => Cardinality(free) < 3
        /\ used # << >> => irq \/ intr
        /\ chan[p] = <<b, "disk">> =>
             b \in busy /\ (head[p] \in avail \/ \E i \in DOMAIN used : used[i] = head[p])

\* The cache and the disk together are a store with one current content per
\* block and one user at a time: what bread() returns is what was last put
\* there, through the cache, the pins and the recycling of buffers.  Only a
\* change that was given back without bwrite() or log_write() can be lost.
CachedIn(k) == {b \in Bufs : blockno[b] = k /\ b \in valid}
Store == INSTANCE BlockStore WITH
  content <- [k \in Blocks |-> IF CachedIn(k) = {} THEN platter[k]
                                ELSE data[CHOOSE b \in CachedIn(k) : TRUE]],
  user    <- [k \in Blocks |-> IF CachedIn(k) = {} THEN None
                                ELSE locked[CHOOSE b \in CachedIn(k) : TRUE]],
  loose   <- {blockno[b] : b \in dirty}
IsBlockStore == Store!Spec
=============================================================================
