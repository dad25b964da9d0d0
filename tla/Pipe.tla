-------------------------------- MODULE Pipe --------------------------------
(***************************************************************************)
(* kernel/pipe.c: one pipe, shared by processes that hold its ends, from   *)
(* pipealloc() to the kfree() of the last pipeclose().  A step is one turn *)
(* of a loop of pipewrite() or piperead(), taken with pi->lock held, so    *)
(* that a kill can arrive between any two of them.                         *)
(***************************************************************************)
EXTENDS Integers, FiniteSets, Sequences

CONSTANTS Procs, Bytes,
          Killable,     \* the processes that kill() is aimed at
          PIPESIZE,     \* slots of pi->data
          UINT,         \* nread and nwrite count modulo this (2^32 in C)
          MaxN          \* bound: the largest n of a read or write

None == "none"

ASSUME PipeAssumption ==
  /\ None \notin Procs
  /\ PIPESIZE \in Nat \ {0} /\ UINT \in Nat /\ MaxN \in Nat
  /\ Killable \subseteq Procs
  /\ UINT > PIPESIZE /\ UINT % PIPESIZE = 0

VARIABLES data, nread, nwrite, readopen, writeopen,   \* struct pipe
          lock,      \* the process that holds pi->lock, if any
          pc,        \* where each process is
          left,      \* n - i of its read or write
          chan,      \* the field it sleeps on
          killed,
          rrefs, wrefs,   \* processes with the read end, the write end, open
          got,       \* the byte last copied out to a reader
          silent,    \* pipewrite() failed and nobody was woken since
          freed      \* how often the pipe was given to kfree()
ring == <<data, nread, nwrite>>
ends == <<readopen, writeopen>>
vars == <<data, nread, nwrite, readopen, writeopen, lock, pc, left, chan,
          killed, rrefs, wrefs, got, silent, freed>>

Places == {"idle", "write", "full", "read", "empty", "copy", "closer", "closew", "free"}

TypeOK ==
  /\ data \in [0..(PIPESIZE - 1) -> Bytes]
  /\ nread \in 0..(UINT - 1) /\ nwrite \in 0..(UINT - 1)
  /\ readopen \in BOOLEAN /\ writeopen \in BOOLEAN
  /\ lock \in Procs \cup {None}
  /\ pc \in [Procs -> Places]
  /\ left \in [Procs -> 0..MaxN]
  /\ chan \in [Procs -> {None, "nread", "nwrite"}]
  /\ killed \in [Procs -> BOOLEAN]
  /\ rrefs \subseteq Procs /\ wrefs \subseteq Procs
  /\ got \in Bytes
  /\ silent \in BOOLEAN
  /\ freed \in Nat

\* pipealloc(), called by sys_pipe() or sys_pipe2() of some process.
Init ==
  /\ \E b \in Bytes, p \in Procs :
       /\ data = [k \in 0..(PIPESIZE - 1) |-> b]
       /\ got = b
       /\ rrefs = {p} /\ wrefs = {p}
  /\ nread = 0 /\ nwrite = 0
  /\ readopen = TRUE /\ writeopen = TRUE
  /\ lock = None
  /\ pc = [p \in Procs |-> "idle"]
  /\ left = [p \in Procs |-> 0]
  /\ chan = [p \in Procs |-> None]
  /\ killed = [p \in Procs |-> FALSE]
  /\ silent = FALSE /\ freed = 0

\* wakeup(ch)
wakeup(ch) == chan' = [p \in Procs |-> IF chan[p] = ch THEN None ELSE chan[p]]

\* Mutant of pipe_can_write: one slot too many.
pipe_can_overwrite == nwrite # (nread + PIPESIZE + 1) % UINT

pipe_can_write == nwrite # (nread + PIPESIZE) % UINT
pipe_empty == nread = nwrite

Goto(p, place) == pc' = [pc EXCEPT ![p] = place]

\* The call of p returns, with pi->lock released.
Return(p) ==
  /\ Goto(p, "idle")
  /\ left' = [left EXCEPT ![p] = 0]
  /\ lock' = None

In(p, place) == pc[p] = place /\ lock = p

-----------------------------------------------------------------------------
Call(p, n, refs, place) ==
  /\ pc[p] = "idle" /\ p \in refs /\ ~killed[p]
  /\ Goto(p, place)
  /\ left' = [left EXCEPT ![p] = n]
  /\ UNCHANGED <<ring, ends, lock, chan, killed, rrefs, wrefs, got, silent, freed>>

\* acquire(&pi->lock) on entry, or when sleep() returns.
acquire(p) ==
  /\ pc[p] \in {"write", "read"} /\ chan[p] = None
  /\ lock = None
  /\ lock' = p
  /\ UNCHANGED <<ring, ends, pc, left, chan, killed, rrefs, wrefs, got, silent, freed>>

\* sleep(chan, &pi->lock); the caller tests its condition again afterwards.
sleep(p, from, ch, to) ==
  /\ In(p, from)
  /\ lock' = None
  /\ chan' = [chan EXCEPT ![p] = ch]
  /\ Goto(p, to)
  /\ UNCHANGED <<ring, ends, left, killed, rrefs, wrefs, got, silent, freed>>

-----------------------------------------------------------------------------
(* pipewrite()                                                             *)

\* The test at the head of the loop body lets the writer go on.
MayWrite(p) == In(p, "write") /\ left[p] > 0 /\ readopen /\ ~killed[p]

\* Mutant of WriteByte: nwrite is not reduced to the width of an unsigned int.
WriteByteNoWrap(p, b) ==
  /\ MayWrite(p) /\ pipe_can_write
  /\ data' = [data EXCEPT ![nwrite % PIPESIZE] = b]
  /\ nwrite' = nwrite + 1
  /\ left' = [left EXCEPT ![p] = @ - 1]
  /\ UNCHANGED <<nread, ends, lock, pc, chan, killed, rrefs, wrefs, got, silent, freed>>

WriteByte(p, b) ==
  /\ MayWrite(p) /\ pipe_can_write
  /\ data' = [data EXCEPT ![nwrite % PIPESIZE] = b]
  /\ nwrite' = (nwrite + 1) % UINT
  /\ left' = [left EXCEPT ![p] = @ - 1]
  /\ UNCHANGED <<nread, ends, lock, pc, chan, killed, rrefs, wrefs, got, silent, freed>>

\* The pipe is full: wake the readers; then sleep(&pi->nwrite, &pi->lock).
WriteFull(p) ==
  /\ MayWrite(p) /\ ~pipe_can_write
  /\ wakeup("nread") /\ silent' = FALSE
  /\ Goto(p, "full")
  /\ UNCHANGED <<ring, ends, lock, left, killed, rrefs, wrefs, got, freed>>

\* Mutant of WriteEnd: readers are not woken.
WriteEndNoWakeup(p) ==
  /\ In(p, "write")
  /\ left[p] = 0 \/ (MayWrite(p) /\ pipe_can_write)
  /\ Return(p)
  /\ UNCHANGED <<ring, ends, chan, killed, rrefs, wrefs, got, silent, freed>>

\* All is written, or copyin() fails.
WriteEnd(p) ==
  /\ In(p, "write")
  /\ left[p] = 0 \/ (MayWrite(p) /\ pipe_can_write)
  /\ wakeup("nread") /\ silent' = FALSE
  /\ Return(p)
  /\ UNCHANGED <<ring, ends, killed, rrefs, wrefs, got, freed>>

\* No reader is left, or the writer is killed: return -1 and wake nobody.
WriteError(p) ==
  /\ In(p, "write") /\ left[p] > 0
  /\ ~readopen \/ killed[p]
  /\ silent' = TRUE
  /\ Return(p)
  /\ UNCHANGED <<ring, ends, chan, killed, rrefs, wrefs, got, freed>>

-----------------------------------------------------------------------------
(* piperead()                                                              *)

\* The test of the waiting loop.
ReadTest(p) ==
  /\ In(p, "read")
  /\ \/ /\ pipe_empty /\ writeopen /\ ~killed[p]
        /\ Goto(p, "empty") /\ UNCHANGED <<lock, left>>
     \/ /\ pipe_empty /\ writeopen /\ killed[p]
        /\ Return(p)
     \/ /\ ~(pipe_empty /\ writeopen)
        /\ Goto(p, "copy") /\ UNCHANGED <<lock, left>>
  /\ UNCHANGED <<ring, ends, chan, killed, rrefs, wrefs, got, silent, freed>>

ReadByte(p) ==
  /\ In(p, "copy") /\ left[p] > 0 /\ ~pipe_empty
  /\ got' = data[nread % PIPESIZE]
  /\ nread' = (nread + 1) % UINT
  /\ left' = [left EXCEPT ![p] = @ - 1]
  /\ UNCHANGED <<data, nwrite, ends, lock, pc, chan, killed, rrefs, wrefs, silent, freed>>

\* n bytes are read, the pipe is empty, or copyout() fails.
ReadEnd(p) ==
  /\ In(p, "copy")
  /\ wakeup("nwrite")
  /\ Return(p)
  /\ UNCHANGED <<ring, ends, killed, rrefs, wrefs, got, silent, freed>>

-----------------------------------------------------------------------------
(* The ends.                                                               *)

\* fileclose() of an end; the last reference calls pipeclose().  A process
\* that was killed exits, and is forgotten once it has closed all its ends.
fileclose(p) ==
  /\ pc[p] = "idle"
  /\ \/ /\ p \in rrefs /\ rrefs' = rrefs \ {p} /\ UNCHANGED wrefs
        /\ Goto(p, IF rrefs = {p} THEN "closer" ELSE "idle")
     \/ /\ p \in wrefs /\ wrefs' = wrefs \ {p} /\ UNCHANGED rrefs
        /\ Goto(p, IF wrefs = {p} THEN "closew" ELSE "idle")
  /\ killed' = [killed EXCEPT ![p] = @ /\ p \in rrefs' \cup wrefs']
  /\ UNCHANGED <<ring, ends, lock, left, chan, got, silent, freed>>

\* Mutants of pipeclose: the page is freed when either end is closed; the
\* readers are not woken when the last writer goes.
pipecloseFreesEarly(p) ==
  /\ lock = None
  /\ \/ /\ pc[p] = "closew"
        /\ writeopen' = FALSE /\ UNCHANGED readopen
        /\ wakeup("nread") /\ silent' = FALSE
     \/ /\ pc[p] = "closer"
        /\ readopen' = FALSE /\ UNCHANGED writeopen
        /\ wakeup("nwrite") /\ UNCHANGED silent
  /\ Goto(p, "free")
  /\ UNCHANGED <<ring, lock, left, killed, rrefs, wrefs, got, freed>>

pipecloseNoWakeup(p) ==
  /\ lock = None
  /\ \/ pc[p] = "closew" /\ writeopen' = FALSE /\ UNCHANGED readopen
     \/ pc[p] = "closer" /\ readopen' = FALSE /\ UNCHANGED writeopen
  /\ Goto(p, IF ~readopen' /\ ~writeopen' THEN "free" ELSE "idle")
  /\ UNCHANGED <<ring, lock, left, chan, killed, rrefs, wrefs, got, silent, freed>>

pipeclose(p) ==
  /\ lock = None
  /\ \/ /\ pc[p] = "closew"
        /\ writeopen' = FALSE /\ UNCHANGED readopen
        /\ wakeup("nread") /\ silent' = FALSE
     \/ /\ pc[p] = "closer"
        /\ readopen' = FALSE /\ UNCHANGED writeopen
        /\ wakeup("nwrite") /\ UNCHANGED silent
  /\ Goto(p, IF ~readopen' /\ ~writeopen' THEN "free" ELSE "idle")
  /\ UNCHANGED <<ring, lock, left, killed, rrefs, wrefs, got, freed>>

kfree(p) ==
  /\ pc[p] = "free"
  /\ freed' = freed + 1
  /\ Goto(p, "idle")
  /\ UNCHANGED <<ring, ends, lock, left, chan, killed, rrefs, wrefs, got, silent>>

\* kfork(): q is a new process, with the ends its parent has open.
fork(p, q) ==
  /\ pc[p] = "idle" /\ p \in rrefs \cup wrefs /\ ~killed[p]
  /\ pc[q] = "idle" /\ q \notin rrefs \cup wrefs /\ ~killed[q]
  /\ rrefs' = IF p \in rrefs THEN rrefs \cup {q} ELSE rrefs
  /\ wrefs' = IF p \in wrefs THEN wrefs \cup {q} ELSE wrefs
  /\ UNCHANGED <<ring, ends, lock, pc, left, chan, killed, got, silent, freed>>

\* kkill(): p is marked and, if it sleeps, made runnable.
kkill(p) ==
  /\ p \in Killable \cap (rrefs \cup wrefs)
  /\ killed' = [killed EXCEPT ![p] = TRUE]
  /\ chan' = [chan EXCEPT ![p] = None]
  /\ UNCHANGED <<ring, ends, lock, pc, left, rrefs, wrefs, got, silent, freed>>

Next ==
  \E p \in Procs :
    \/ \E n \in 0..MaxN : Call(p, n, wrefs, "write") \/ Call(p, n, rrefs, "read")
    \/ acquire(p)
    \/ sleep(p, "full", "nwrite", "write") \/ sleep(p, "empty", "nread", "read")
    \/ \E b \in Bytes : WriteByte(p, b)
    \/ WriteFull(p) \/ WriteEnd(p) \/ WriteError(p)
    \/ ReadTest(p) \/ ReadByte(p) \/ ReadEnd(p)
    \/ fileclose(p) \/ pipeclose(p) \/ kfree(p) \/ kkill(p)
    \/ \E q \in Procs : fork(p, q)

Spec == Init /\ [][Next]_vars

\* A process inside a pipe operation goes on while it can: its critical
\* sections end, and it gets pi->lock if that is free again and again.
Fairness ==
  \A p \in Procs :
    /\ SF_vars(acquire(p))
    /\ SF_vars(pipeclose(p))
    /\ WF_vars(\/ sleep(p, "full", "nwrite", "write")
               \/ sleep(p, "empty", "nread", "read")
               \/ (\E b \in Bytes : WriteByte(p, b)) \/ WriteFull(p)
               \/ WriteEnd(p) \/ WriteError(p)
               \/ ReadTest(p) \/ ReadByte(p) \/ ReadEnd(p))

FairSpec == Spec /\ Fairness

-----------------------------------------------------------------------------
(* Properties.                                                             *)

\* The bytes between nread and nwrite, in the order of the ring.
InTransit == [k \in 1..((nwrite - nread) % UINT) |-> data[(nread + k - 1) % PIPESIZE]]

Queue == INSTANCE Fifo WITH Size <- PIPESIZE, queue <- InTransit

\* Two unsigned counters that wrap and a ring indexed modulo PIPESIZE are a
\* bounded first-in first-out queue, for any number of readers and writers.
IsFifo == Queue!Spec

\* A sleeper and the wakeup() meant for it: with pi->lock free, a writer sleeps
\* in pipewrite() only while the pipe is full and has a reader, a reader sleeps
\* in piperead() only while it is empty and has a writer (or holds bytes of a
\* write that failed, which wakes nobody); kill() may come just before a sleep.
SleepsForCause ==
  lock = None => \A p \in Procs :
    /\ chan[p] = "nwrite" => ~pipe_can_write /\ readopen
    /\ chan[p] = "nread" => (pipe_empty \/ silent) /\ writeopen

\* The page of the pipe goes back to kalloc() once, after both last closes, and
\* nobody is left inside pipewrite(), piperead() or pipeclose() to touch it.
FreedOnce ==
  /\ freed <= 1
  /\ (freed = 1 \/ \E p \in Procs : pc[p] = "free") =>
       /\ \A p \in Procs : pc[p] \in {"idle", "free"}
       /\ rrefs \cup wrefs = {}
       /\ Cardinality({p \in Procs : pc[p] = "free"}) + freed = 1

\* The last close of one end releases whoever is blocked at the other: a read
\* after the last writer is gone returns, and so does a write after the last
\* reader is gone.
CloseUnblocks ==
  \A p \in Procs :
    /\ (pc[p] \in {"read", "empty", "copy"} /\ ~writeopen) ~> (pc[p] = "idle")
    /\ (pc[p] \in {"write", "full"} /\ ~readopen) ~> (pc[p] = "idle")
=============================================================================
