----------------------------- MODULE VirtioDisk -----------------------------
(***************************************************************************)
(* kernel/virtio_disk.c: the descriptors, the two rings and the interrupt  *)
(* of the disk, and the device behind them.  BufCache.tla has the          *)
(* processes that call virtio_disk_rw().                                   *)
(*                                                                         *)
(* The device may finish requests in any order, so the part of the avail   *)
(* ring it has still to serve is a set.  The used ring is a queue: a       *)
(* request owns three of the NUM descriptors, so neither ring of NUM slots *)
(* can be overrun.                                                         *)
(***************************************************************************)
EXTENDS Integers, FiniteSets, Sequences

CONSTANTS NUM,               \* descriptors
          Bufs, Blocks, Vals

ASSUME DiskAssumption == NUM \in Nat /\ NUM >= 3

VARIABLES free,      \* the descriptors d with disk.free[d]
          desc,      \* next and flags of each descriptor
          info,      \* info[d].b and the type of the request headed by d
          avail,     \* heads the device has been told of and has not served
          used,      \* the unread part of the used ring
          irq,       \* the device asks for an interrupt
          intr,      \* virtio_disk_intr() is running, vdisk_lock held
          platter,   \* what each block holds on disk
          blockno, data,   \* of each struct buf
          busy       \* the buffers with b->disk set
diskVars == <<free, desc, info, avail, used, irq, intr, platter, busy>>

None == "none"
Descs == 0..(NUM - 1)
NoDesc == [next |-> 0, more |-> FALSE]
NoInfo == [b |-> None, write |-> FALSE]

DiskTypeOK ==
  /\ free \subseteq Descs
  /\ desc \in [Descs -> [next : Descs, more : BOOLEAN]]
  /\ info \in [Descs -> [b : Bufs \cup {None}, write : BOOLEAN]]
  /\ avail \subseteq Descs
  /\ used \in Seq(Descs)
  /\ irq \in BOOLEAN /\ intr \in BOOLEAN
  /\ platter \in [Blocks -> Vals]
  /\ busy \subseteq Bufs

DiskInit ==
  /\ free = Descs
  /\ desc = [d \in Descs |-> NoDesc]
  /\ info = [d \in Descs |-> NoInfo]
  /\ avail = {} /\ used = << >>
  /\ irq = FALSE /\ intr = FALSE
  /\ busy = {}
  /\ \E v \in Vals : platter = [k \in Blocks |-> v]

Lowest(S) == CHOOSE d \in S : \A e \in S : d <= e

\* alloc_desc() three times: the three lowest free descriptors.
alloc3_desc ==
  LET i0 == Lowest(free)
      i1 == Lowest(free \ {i0})
      i2 == Lowest(free \ {i0, i1})
  IN  <<i0, i1, i2>>

\* The request of virtio_disk_rw(), from the allocation to QUEUE_NOTIFY.  The
\* head is the first of the three.
Submit(b, write, idx) ==
  /\ free' = free \ {idx[1], idx[2], idx[3]}
  /\ desc' = [desc EXCEPT ![idx[1]] = [next |-> idx[2], more |-> TRUE],
                          ![idx[2]] = [next |-> idx[3], more |-> TRUE],
                          ![idx[3]] = NoDesc]
  /\ info' = [info EXCEPT ![idx[1]] = [b |-> b, write |-> write]]
  /\ avail' = avail \cup {idx[1]}
  /\ busy' = busy \cup {b}
  /\ UNCHANGED <<used, irq, intr, platter>>

\* The descriptors that free_chain() visits, along next while F_NEXT is set.
Chain(h) ==
  LET n == desc[h].next
  IN  {h} \cup (IF desc[h].more
                THEN {n} \cup (IF desc[n].more THEN {desc[n].next} ELSE {})
                ELSE {})

\* Mutant of FreeChain: only the first descriptor of the chain is given back.
FreeChainHead(h) ==
  /\ info' = [info EXCEPT ![h] = NoInfo]
  /\ desc' = [desc EXCEPT ![h] = NoDesc]
  /\ free' = free \cup {h}
  /\ UNCHANGED <<avail, used, irq, intr, platter, busy>>

\* The end of virtio_disk_rw().
FreeChain(h) ==
  /\ info' = [info EXCEPT ![h] = NoInfo]
  /\ desc' = [d \in Descs |-> IF d \in Chain(h) THEN NoDesc ELSE desc[d]]
  /\ free' = free \cup Chain(h)
  /\ UNCHANGED <<avail, used, irq, intr, platter, busy>>

\* The device serves one request: it moves the block, posts the head in the
\* used ring and asks for an interrupt.
DeviceServes ==
  \E h \in avail :
    LET b == info[h].b
    IN  /\ IF info[h].write
             THEN platter' = [platter EXCEPT ![blockno[b]] = data[b]] /\ data' = data
             ELSE data' = [data EXCEPT ![b] = platter[blockno[b]]] /\ platter' = platter
        /\ avail' = avail \ {h}
        /\ used' = Append(used, h)
        /\ irq' = TRUE
        /\ UNCHANGED <<free, desc, info, intr, blockno, busy>>

\* virtio_disk_intr(): acknowledge first, so that what the device posts from
\* here on asks for another interrupt ...
IntrAck ==
  /\ irq /\ ~intr
  /\ irq' = FALSE /\ intr' = TRUE
  /\ UNCHANGED <<free, desc, info, avail, used, platter, busy>>

\* ... then take entries off the used ring until it is empty.  The caller
\* wakes the process that sleeps on the buffer.
IntrTake ==
  /\ intr /\ used # << >>
  /\ busy' = busy \ {info[Head(used)].b}
  /\ used' = Tail(used)
  /\ UNCHANGED <<free, desc, info, avail, irq, intr, platter>>

IntrDone ==
  /\ intr /\ used = << >>
  /\ intr' = FALSE
  /\ UNCHANGED <<free, desc, info, avail, used, irq, platter, busy>>
=============================================================================
