-------------------------------- MODULE Log --------------------------------
(***************************************************************************)
(* kernel/log.c: the write-ahead log.  File-system calls run between       *)
(* begin_op and end_op; log_write records the blocks they change; the      *)
(* last end_op of a group commits all of them.  One step is one critical   *)
(* section of log.lock or one block written to the disk, the points at     *)
(* which another process or a power failure can come in between.           *)
(***************************************************************************)
EXTENDS Integers, Sequences, FiniteSets

CONSTANTS Procs,         \* processes that make file-system calls
          Blocks,        \* home blocks (file-system blocks outside the log)
          Vals,          \* contents of a block
          MAXOPBLOCKS,   \* param.h: log space reserved for an operation
          LOGBLOCKS,     \* param.h: data blocks in the on-disk log
          OpWrites       \* distinct blocks an operation really writes

\* An operation writes strictly fewer blocks than are reserved for it: the
\* largest one, a chunk of filewrite_inode, writes seven of the ten.
ASSUME LogAssumption ==
  /\ MAXOPBLOCKS \in Nat /\ LOGBLOCKS \in Nat /\ OpWrites \in Nat
  /\ OpWrites < MAXOPBLOCKS /\ MAXOPBLOCKS <= LOGBLOCKS
  /\ IsFiniteSet(Procs)

VARIABLES outstanding,   \* log.outstanding
          committing,    \* log.committing
          lh,            \* log.lh in memory: its n block numbers, in order
          pc,            \* where each process is in the calls of this file
          wrote,         \* blocks each running operation has written so far
          i,             \* loop index of write_log and install_trans
          cache,         \* data of each home block in the buffer cache
          refcnt,        \* references the log holds on each buffer (bpin)
          home,          \* disk: the home blocks
          logarea,       \* disk: the data blocks of the log
          header         \* disk: the header block of the log

disk == <<home, logarea, header>>
vars == <<outstanding, committing, lh, pc, wrote, i, cache, refcnt,
          home, logarea, header>>

\* The process that commits is at one of these.
CommitSteps == {"write_log", "write_head", "install_trans", "clear", "done"}

TypeOK ==
  /\ outstanding \in Int
  /\ committing \in BOOLEAN
  /\ lh \in Seq(Blocks) /\ Len(lh) <= LOGBLOCKS
  /\ pc \in [Procs -> {"idle", "begin", "asleep", "op"} \cup CommitSteps]
  /\ wrote \in [Procs -> SUBSET Blocks]
  /\ i \in Nat \ {0}
  /\ cache \in [Blocks -> Vals]
  /\ refcnt \in [Blocks -> Int]
  /\ home \in [Blocks -> Vals]
  /\ logarea \in [1..LOGBLOCKS -> Vals]
  /\ header \in Seq(Blocks)

\* The blocks named by a log header, and the image that install_trans makes
\* of a disk image by copying the n logged blocks home in order.
Logged(h) == {h[k] : k \in DOMAIN h}
Last(h, b) == CHOOSE k \in DOMAIN h :
                h[k] = b /\ \A j \in DOMAIN h : j > k => h[j] # b
Replay(h, area, image) ==
  [b \in Blocks |-> IF b \in Logged(h) THEN area[Last(h, b)] ELSE image[b]]

\* mkfs leaves an empty log whose data blocks all hold the same.
Init ==
  /\ home \in [Blocks -> Vals]
  /\ \E v \in Vals : logarea = [k \in 1..LOGBLOCKS |-> v]
  /\ header = <<>>
  /\ outstanding = 0 /\ committing = FALSE /\ lh = <<>> /\ i = 1
  /\ pc = [p \in Procs |-> "idle"]
  /\ wrote = [p \in Procs |-> {}]
  /\ cache = home
  /\ refcnt = [b \in Blocks |-> 0]

-----------------------------------------------------------------------------
\* wakeup(&log): every process asleep in begin_op goes back to its tests.
Wakeup(at) ==
  [q \in Procs |-> IF at[q] = "asleep" THEN "begin" ELSE at[q]]

\* Mutant of MustWait: begin_op does not test for log space.
MustWaitNoSpaceTest == committing

\* The two tests of begin_op that make a process sleep.
MustWait ==
  \/ committing
  \/ Len(lh) + (outstanding + 1) * MAXOPBLOCKS > LOGBLOCKS

BeginOp(p) ==
  /\ pc[p] \in {"idle", "begin"}
  /\ \/ /\ MustWait
        /\ pc' = [pc EXCEPT ![p] = "asleep"]
        /\ UNCHANGED <<outstanding, wrote>>
     \/ /\ ~MustWait
        /\ outstanding' = outstanding + 1
        /\ pc' = [pc EXCEPT ![p] = "op"]
        /\ wrote' = [wrote EXCEPT ![p] = {}]
  /\ UNCHANGED <<committing, lh, i, cache, refcnt, disk>>

\* kkill makes a sleeping process runnable; begin_op's loop tests again.
SpuriousWakeup(p) ==
  /\ pc[p] = "asleep"
  /\ pc' = [pc EXCEPT ![p] = "begin"]
  /\ UNCHANGED <<outstanding, committing, lh, wrote, i, cache, refcnt, disk>>

\* log_write's two panics.
LogWritePanics == Len(lh) >= LOGBLOCKS \/ outstanding < 1

\* Mutant of LogWrite: the buffer is not pinned.
LogWriteNoPin(p, b, v) ==
  /\ pc[p] = "op"
  /\ Cardinality(wrote[p] \cup {b}) <= OpWrites
  /\ ~LogWritePanics
  /\ cache' = [cache EXCEPT ![b] = v]
  /\ wrote' = [wrote EXCEPT ![p] = @ \cup {b}]
  /\ lh' = IF b \in Logged(lh) THEN lh ELSE Append(lh, b)
  /\ UNCHANGED <<outstanding, committing, pc, i, refcnt, disk>>

\* An operation changes a locked buffer and passes it to log_write, which
\* absorbs a block that is already logged and pins one that is not.
LogWrite(p, b, v) ==
  /\ pc[p] = "op"
  /\ Cardinality(wrote[p] \cup {b}) <= OpWrites
  /\ ~LogWritePanics
  /\ cache' = [cache EXCEPT ![b] = v]
  /\ wrote' = [wrote EXCEPT ![p] = @ \cup {b}]
  /\ \/ /\ b \in Logged(lh)
        /\ UNCHANGED <<lh, refcnt>>
     \/ /\ b \notin Logged(lh)
        /\ lh' = Append(lh, b)
        /\ refcnt' = [refcnt EXCEPT ![b] = @ + 1]
  /\ UNCHANGED <<outstanding, committing, pc, i, disk>>

\* Mutants of EndOp: the loops of commit start at 0; log.committing is not set.
EndOpFromZero(p) ==
  /\ pc[p] = "op"
  /\ ~committing
  /\ outstanding' = outstanding - 1
  /\ committing' = (outstanding' = 0)
  /\ pc' = IF outstanding' = 0
           THEN [pc EXCEPT ![p] = IF lh = <<>> THEN "done" ELSE "write_log"]
           ELSE Wakeup([pc EXCEPT ![p] = "idle"])
  /\ i' = 0
  /\ UNCHANGED <<lh, wrote, cache, refcnt, disk>>

EndOpNotCommitting(p) ==
  /\ pc[p] = "op"
  /\ ~committing
  /\ outstanding' = outstanding - 1
  /\ pc' = IF outstanding' = 0
           THEN [pc EXCEPT ![p] = IF lh = <<>> THEN "done" ELSE "write_log"]
           ELSE Wakeup([pc EXCEPT ![p] = "idle"])
  /\ i' = 1
  /\ UNCHANGED <<committing, lh, wrote, cache, refcnt, disk>>

\* end_op up to its release: the last operation out commits, and commit
\* returns at once when nothing was logged.
EndOp(p) ==
  /\ pc[p] = "op"
  /\ ~committing
  /\ outstanding' = outstanding - 1
  /\ \/ /\ outstanding' = 0
        /\ committing' = TRUE
        /\ pc' = [pc EXCEPT ![p] = IF lh = <<>> THEN "done" ELSE "write_log"]
     \/ /\ outstanding' # 0
        /\ pc' = Wakeup([pc EXCEPT ![p] = "idle"])
        /\ UNCHANGED committing
  /\ i' = 1
  /\ UNCHANGED <<lh, wrote, cache, refcnt, disk>>

\* After step i of a loop over the log: the next i, or the next phase.
Advance(p, phase) ==
  \/ /\ i < Len(lh)
     /\ i' = i + 1
     /\ UNCHANGED pc
  \/ /\ i = Len(lh)
     /\ i' = 1
     /\ pc' = [pc EXCEPT ![p] = phase]

WriteLog(p) ==
  /\ pc[p] = "write_log"
  /\ logarea' = [logarea EXCEPT ![i] = cache[lh[i]]]
  /\ Advance(p, "write_head")
  /\ UNCHANGED <<outstanding, committing, lh, wrote, cache, refcnt, home, header>>

WriteHead(p) ==
  /\ pc[p] = "write_head"
  /\ header' = lh
  /\ pc' = [pc EXCEPT ![p] = "install_trans"]
  /\ UNCHANGED <<outstanding, committing, lh, wrote, i, cache, refcnt, home, logarea>>

InstallTrans(p) ==
  /\ pc[p] = "install_trans"
  /\ home' = [home EXCEPT ![lh[i]] = logarea[i]]
  /\ cache' = [cache EXCEPT ![lh[i]] = logarea[i]]
  /\ refcnt' = [refcnt EXCEPT ![lh[i]] = @ - 1]
  /\ Advance(p, "clear")
  /\ UNCHANGED <<outstanding, committing, lh, wrote, logarea, header>>

\* log.lh.n = 0; write_head()
ClearLog(p) ==
  /\ pc[p] = "clear"
  /\ lh' = <<>>
  /\ header' = <<>>
  /\ pc' = [pc EXCEPT ![p] = "done"]
  /\ UNCHANGED <<outstanding, committing, wrote, i, cache, refcnt, home, logarea>>

\* Mutant of CommitDone: end_op forgets wakeup(&log).
CommitDoneNoWakeup(p) ==
  /\ pc[p] = "done"
  /\ committing' = FALSE
  /\ pc' = [pc EXCEPT ![p] = "idle"]
  /\ UNCHANGED <<outstanding, lh, wrote, i, cache, refcnt, disk>>

\* end_op after commit returns.
CommitDone(p) ==
  /\ pc[p] = "done"
  /\ committing' = FALSE
  /\ pc' = Wakeup([pc EXCEPT ![p] = "idle"])
  /\ UNCHANGED <<outstanding, lh, wrote, i, cache, refcnt, disk>>

\* bget recycles a buffer nobody refers to; the next bread reads the disk.
Recycle(b) ==
  /\ refcnt[b] = 0
  /\ cache' = [cache EXCEPT ![b] = home[b]]
  /\ UNCHANGED <<outstanding, committing, lh, pc, wrote, i, refcnt, disk>>

\* Power fails and the kernel boots again: its memory is zero and its buffer
\* cache empty, so a block reads as its home copy.  fsinit calls initlog, and initlog
\* calls install_trans(1) while log.lh.n is still 0: the header on the disk
\* is not read and nothing is replayed.
initlog == Replay(<<>>, logarea, home)
PowerFailure ==
  /\ home' = initlog
  /\ outstanding' = 0 /\ committing' = FALSE /\ lh' = <<>> /\ i' = 1
  /\ pc' = [p \in Procs |-> "idle"]
  /\ wrote' = [p \in Procs |-> {}]
  /\ cache' = home'
  /\ refcnt' = [b \in Blocks |-> 0]
  /\ UNCHANGED <<logarea, header>>

\* A power failure at a moment when no written header is waiting for its
\* blocks to be installed.
PowerFailureOutsideCommit == header = <<>> /\ PowerFailure

Step(p) ==
  \/ BeginOp(p) \/ SpuriousWakeup(p) \/ EndOp(p)
  \/ \E b \in Blocks, v \in Vals : LogWrite(p, b, v)
  \/ WriteLog(p) \/ WriteHead(p) \/ InstallTrans(p)
  \/ ClearLog(p) \/ CommitDone(p)

Run == (\E p \in Procs : Step(p)) \/ (\E b \in Blocks : Recycle(b))
Next == Run \/ PowerFailureOutsideCommit

Spec == Init /\ [][Next]_vars
CrashSpec == Init /\ [][Run \/ PowerFailure]_vars

\* An operation reaches its end_op, a commit runs on, and a process that was
\* made runnable tests again: none of these waits for another operation.
Fairness ==
  \A p \in Procs :
    WF_vars(\/ pc[p] = "begin" /\ BeginOp(p)
            \/ EndOp(p) \/ WriteLog(p) \/ WriteHead(p)
            \/ InstallTrans(p) \/ ClearLog(p) \/ CommitDone(p))
FairSpec == Spec /\ Fairness

-----------------------------------------------------------------------------
\* No call panics: while an operation runs, log_write finds room in the log
\* (log.c:188) and a transaction open (log.c:191), and end_op finds no commit
\* in progress (log.c:131).
NoPanic ==
  \A p \in Procs : pc[p] = "op" => ~LogWritePanics /\ ~committing

\* No wakeup is lost: as long as a process sleeps in begin_op, some process is
\* inside an operation or a commit, and its end_op will call wakeup(&log).
SleeperHasWaker ==
  (\E p \in Procs : pc[p] = "asleep") =>
  (\E q \in Procs : pc[q] \in {"op"} \cup CommitSteps)

\* When no commit is in progress the home blocks, the ones the file system
\* reads, hold every committed transaction: replaying the log on the disk
\* would change nothing.
CommittedIsInstalled ==
  ~committing => home = Replay(header, logarea, home)

\* The log implements a disk with atomic groups of operations.  The durable
\* contents are what the header and the log on the disk stand for; they move
\* at the moment write_head writes a non-empty header.
Atomic == INSTANCE AtomicDisk
            WITH current <- cache,
                 durable <- Replay(header, logarea, home),
                 active  <- {p \in Procs : pc[p] = "op"}
AtomicGroups == Atomic!Spec

\* A process that sleeps in begin_op is woken.
SleeperWakes ==
  \A p \in Procs : pc[p] = "asleep" ~> pc[p] # "asleep"

-----------------------------------------------------------------------------
(* The inductive invariant, in three parts.                                *)

Running == {p \in Procs : pc[p] = "op"}

\* Who may be where: the count of operations is exact, a commit excludes
\* operations and other commits, and an idle log is empty.
ControlInv ==
  /\ IsFiniteSet(Running) /\ outstanding = Cardinality(Running)
  /\ committing <=> \E p \in Procs : pc[p] \in CommitSteps
  /\ \A p, q \in Procs : pc[p] \in CommitSteps =>
       pc[q] # "op" /\ (pc[q] \in CommitSteps => p = q)
  /\ Running = {} /\ ~committing => lh = <<>>
  /\ SleeperHasWaker

\* Log blocks that the running operations may still use, one pair for each.
Reserved == {r \in Procs \X (1..MAXOPBLOCKS) :
               pc[r[1]] = "op" /\ r[2] > Cardinality(wrote[r[1]])}

\* Log space: what is logged and what is still reserved fit in the log.
SpaceInv ==
  /\ \A p \in Running : /\ IsFiniteSet(wrote[p])
                        /\ Cardinality(wrote[p]) <= OpWrites
                        /\ wrote[p] \subseteq Logged(lh)
  /\ Len(lh) + Cardinality(Reserved) <= LOGBLOCKS

\* How far the commit has come: block k of the log has been installed.
Installed(k) ==
  \E p \in Procs : pc[p] = "clear" \/ (pc[p] = "install_trans" /\ k < i)

\* No block is logged twice (log absorption).
NoDuplicates == \A j, k \in DOMAIN lh : lh[j] = lh[k] => j = k

\* A block outside the log is clean and not pinned; a logged one is pinned
\* until it is installed.
PinInv ==
  /\ \A b \in Blocks \ Logged(lh) : cache[b] = home[b] /\ refcnt[b] = 0
  /\ \A k \in DOMAIN lh :
       /\ refcnt[lh[k]] = IF Installed(k) THEN 0 ELSE 1
       /\ Installed(k) => home[lh[k]] = cache[lh[k]]

\* What the log area holds in each phase of a commit.
PhaseInv ==
  \A p \in Procs :
    /\ pc[p] \in {"write_log", "write_head", "install_trans"} => i \in 1..Len(lh)
    /\ pc[p] = "write_log" => \A k \in 1..(i-1) : logarea[k] = cache[lh[k]]
    /\ pc[p] \in {"write_head", "install_trans", "clear"} =>
         \A k \in DOMAIN lh : logarea[k] = cache[lh[k]]
    /\ pc[p] = "write_head" => i = 1
    /\ pc[p] = "done" => lh = <<>>

\* The header on the disk names the logged blocks exactly while they are
\* being installed.
HeaderInv ==
  header = IF \E p \in Procs : pc[p] \in {"install_trans", "clear"}
           THEN lh ELSE <<>>

DataInv == NoDuplicates /\ PinInv /\ PhaseInv /\ HeaderInv

IInv == TypeOK /\ ControlInv /\ SpaceInv /\ DataInv
=============================================================================
